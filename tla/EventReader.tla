----------------------------- MODULE EventReader ----------------------------
(***************************************************************************)
(* EventReader (io/_event_reader.py): windowed reads over a file decoder.  *)
(*                                                                         *)
(* A recording is a sequence of words.  Word w of it leaves the running    *)
(* timestamp of the parser at tick[w] and brings the number of decoded     *)
(* events to cum[w]; event i, counted from 1, has timestamp ts[i].  A      *)
(* word may decode to no event (time and state words) or to several        *)
(* (vector words).  Events are represented by their numbers.               *)
(*                                                                         *)
(* Each call of the reader is a sequence of steps, one per iteration of    *)
(* the loops in the code, so that a read that never returns is visible.    *)
(* Triggers and pacing are left out, and normalize_ts is on.               *)
(***************************************************************************)
EXTENDS Integers, Sequences

CONSTANTS
  Configs,    \* the readers: decoder kind, arguments, recording, source
  MaxTime, MaxEvents,              \* max_time, max_events
  DefaultDeltaT, DefaultNEvents,   \* DEFAULT_DELTA_T, DEFAULT_N_EVENTS
  DeltaTs, Ns,        \* per-call overrides a user passes to read()
  SeekTimes, SeekIndexes, SeekShifts,  \* targets a user passes to seek()
  Step,       \* _step: events decoded at once into the accumulator
  DtStep,     \* _dt_step: the same on the delta_t fast paths
  ChunkSize,  \* chunk_size of the decoders that are read in chunks
  Reserve,    \* headroom a vector parser keeps in its output (64)
  Pad,        \* EVT3_INPUT_PADDING, words the EVT3 parser leaves (4)
  Ops,        \* which operations the user calls
  MaxCur      \* bound of the model: no read() starts, and no seek goes, beyond
              \* this time

Kinds == {"evt2", "evt21", "evt3", "npz", "csv", "hdf5"}
Modes == {"delta_t", "n_events", "mixed", "all", "auto"}

None == -1

\* __init__: what the arguments mode, delta_t and n_events come to; without
\* the one that its mode is about a reader is refused.
Given(x, default) == IF x = None THEN default ELSE x

Accepted(a) ==
  /\ a.mode \in Modes
  /\ a.mode = "delta_t" => a.dt # None
  /\ a.mode = "n_events" => a.ne # None
  /\ {a.dt, a.ne} \subseteq {None} \cup (Nat \ {0})

ResolvedMode(a) ==
  CASE a.mode # "auto" -> a.mode
    [] a.mode = "auto" /\ a.dt # None /\ a.ne = None -> "delta_t"
    [] a.mode = "auto" /\ a.dt = None /\ a.ne # None -> "n_events"
    [] OTHER -> "mixed"

ResolvedDeltaT(a) ==
  CASE ResolvedMode(a) = "all" -> MaxTime
    [] ResolvedMode(a) = "n_events" -> Given(a.dt, MaxTime)
    [] OTHER -> Given(a.dt, DefaultDeltaT)

ResolvedNEvents(a) ==
  CASE ResolvedMode(a) = "all" -> MaxEvents
    [] ResolvedMode(a) = "delta_t" -> Given(a.ne, MaxEvents)
    [] OTHER -> Given(a.ne, DefaultNEvents)

\* Properties of the decoder classes.
Native == {"evt2", "evt21", "evt3"}           \* parse_step; _buffers_in_memory
ExactWindow == {"evt2"}                       \* _exact_window
IndependentWindows == {"npz", "csv"}          \* _independent_windows
HasDeltaTParser == {"evt3"}                   \* _has_delta_t_parser

\* A recording of nw words.
Recording(rec) ==
  /\ rec.nw \in Nat
  /\ rec.cum \in [0 .. rec.nw -> Nat]
  /\ rec.tick \in [0 .. rec.nw -> Nat]
  /\ rec.cum[0] = 0
  /\ \A v, w \in 0 .. rec.nw : v <= w => rec.cum[v] <= rec.cum[w]
  /\ rec.ts \in [1 .. rec.cum[rec.nw] -> Nat]

\* Words carry at most the reserved headroom, and the timestamps increase.
Orderly(rec) ==
  /\ \A w \in 1 .. rec.nw : rec.tick[w - 1] <= rec.tick[w]
  /\ \A w \in 1 .. rec.nw :
        \A i \in rec.cum[w - 1] + 1 .. rec.cum[w] : rec.ts[i] = rec.tick[w]
  /\ \A w \in 1 .. rec.nw : rec.cum[w] - rec.cum[w - 1] <= Reserve

ASSUME ConfigsAssumption ==
  \A c \in Configs :
    /\ c.kind \in Kinds
    /\ Accepted(c.asked)
    /\ c.pipe \in BOOLEAN     \* the byte source is not seekable
    /\ Recording(c.rec)

ASSUME OrderAssumption == \A c \in Configs : Orderly(c.rec)

\* A row is an event; a word that EVT2 decodes is at most one; and in EVT3 the
\* words that decode to events leave the clock alone.
ASSUME WordsAssumption ==
  \A c \in Configs : \A w \in 1 .. c.rec.nw :
    LET events == c.rec.cum[w] - c.rec.cum[w - 1] IN
    /\ c.kind \notin Native => events = 1
    /\ c.kind \in ExactWindow => events <= 1
    /\ c.kind \in HasDeltaTParser /\ events > 0 => c.rec.tick[w] = c.rec.tick[w - 1]

ASSUME SizesAssumption ==
  /\ {MaxTime, MaxEvents, DefaultDeltaT, DefaultNEvents} \subseteq Nat \ {0}
  /\ DeltaTs \cup Ns \subseteq Nat \ {0}
  /\ SeekTimes \cup SeekIndexes \subseteq Nat
  /\ SeekShifts \subseteq Int
  /\ {DtStep, Step, ChunkSize, MaxCur} \subseteq Nat \ {0}
  /\ {Reserve, Pad} \subseteq Nat

Smaller(a, b) == IF a < b THEN a ELSE b
Larger(a, b) == IF a < b THEN b ELSE a

VARIABLES
  cfg,       \* the reader's configuration (never changes)
  off,       \* the decoder's position, in words
  acc,       \* _buffer: events staged in the accumulator
  carry,     \* _dt_carry: overshoot of the delta_t fast path
  out,       \* the window being decoded by a fast path
  eof,       \* _eof
  anchored,  \* _anchored
  first,     \* _first_ts
  cur,       \* _current_ts
  nread,     \* _n_read_events
  pc,        \* control: "idle" between calls
  call,      \* parameters and locals of the call in progress
  iter,      \* an iteration (_iter_sync) is in progress
  base,      \* where the last seek came down, or 0 since a reset
  got,       \* the events handed out since then
  win,       \* the last window handed out and the bounds it was cut by
  origins    \* the timestamps that windows were shifted by since a reset

rvars == <<eof, anchored, first, cur, nread>>
bufs == <<off, acc, carry, out>>
hist == <<base, got, win, origins>>
vars == <<cfg, bufs, rvars, pc, call, iter, hist>>

-----------------------------------------------------------------------------
(* The reader's mode and window (_mode, _delta_t, _n_events), and its       *)
(* recording.                                                              *)

Mode == ResolvedMode(cfg.asked)
DeltaT == ResolvedDeltaT(cfg.asked)
NEvents == ResolvedNEvents(cfg.asked)

rec == cfg.rec
NW == rec.nw
Total == rec.cum[NW]
Ts(i) == rec.ts[i]

\* The events numbered a+1 .. b.
Run(a, b) == [i \in 1 .. (b - a) |-> a + i]

\* Where SubSeq is used below, the first k events of s and the others.
Front(s, k) == SubSeq(s, 1, k)
Back(s, k) == SubSeq(s, k + 1, Len(s))

\* np.searchsorted(s, t): k is the number of events of s before time t.
IsCut(s, t, k) ==
  /\ \A i \in 1 .. k : Ts(s[i]) < t
  /\ \A i \in (k + 1) .. Len(s) : Ts(s[i]) >= t

LastTs(s) == Ts(s[Len(s)])

-----------------------------------------------------------------------------
(* The decoders.                                                           *)

\* is_eof() of a decoder, as far as the reader can tell.
DecEof == off = NW

Headroom == IF cfg.kind \in ExactWindow THEN 0 ELSE Reserve
TailPad == IF cfg.kind = "evt3" THEN Pad ELSE 0

\* A parser stops when only its headroom is left in an output of `room`
\* events, or at the end of the words it may look at.
Stops(q, room) ==
  \/ rec.cum[q] - rec.cum[off] >= room - Headroom
  \/ q + TailPad >= NW

\* parse_step into an output with room for `room` more events ends at word q.
\* When nothing but the padded tail is left it is flushed whole.
ParseStep(room, q) ==
  /\ q \in off .. NW
  /\ IF Stops(off, room)
     THEN q = IF room > Headroom THEN NW ELSE off
     ELSE Stops(q, room) /\ \A r \in off .. (q - 1) : ~Stops(r, room)

\* Where reset() leaves a decoder.  CSV slurps a source that cannot seek when
\* it is first used, and once more when it is reset: nothing is left then.
Rewound == IF cfg.kind = "csv" /\ cfg.pipe /\ off > 0 THEN NW ELSE 0

\* The events decoded when the decoder moves to word q.
Decoded(q) == Run(rec.cum[off], rec.cum[q])

\* read_chunk(delta_t, n_events) of the other decoders, one event per word.
\* hdf5 ignores the hint.
ReadChunk(n, q) ==
  q = Smaller(off + (IF cfg.kind = "hdf5" THEN ChunkSize ELSE n), NW)

\* _pull: one call of the decoder that feeds the accumulator.
Pull(n, q) == IF cfg.kind \in Native THEN ParseStep(Step, q) ELSE ReadChunk(n, q)

-----------------------------------------------------------------------------
(* Parts of the actions.                                                   *)

NoCall == [dt |-> DeltaT, ne |-> NEvents, drain |-> FALSE, cap |-> 0]
NoWindow == [ev |-> <<>>, lo |-> 0, hi |-> 0, most |-> 0, why |-> "none"]

\* The end of the time window of the call in progress.
End == cur + call.dt

Pos == base + Len(got)

\* EventReader.is_eof()
IsEof == eof /\ acc = <<>>

Init ==
  /\ cfg \in Configs
  /\ off = 0 /\ acc = <<>> /\ carry = <<>> /\ out = <<>>
  /\ eof = FALSE /\ anchored = FALSE /\ first = 0 /\ cur = 0 /\ nread = 0
  /\ pc = "idle" /\ call = NoCall /\ iter = FALSE
  /\ base = 0 /\ got = <<>> /\ win = NoWindow /\ origins = {}

\* The call returns the events ev, a window of which is shifted so that time
\* org becomes start_ts.
Return(ev, org, why) ==
  /\ pc' = "idle"
  /\ call' = NoCall
  /\ out' = <<>>
  /\ got' = got \o ev
  /\ win' = [ev |-> ev, lo |-> cur, hi |-> End, most |-> call.ne, why |-> why]
  /\ origins' = IF ev = <<>> \/ org = None THEN origins ELSE origins \cup {org}
  /\ UNCHANGED <<cfg, iter, base>>

ReturnNothing ==
  /\ pc' = "idle"
  /\ call' = NoCall
  /\ out' = <<>>
  /\ win' = NoWindow
  /\ UNCHANGED <<cfg, iter, base, got, origins>>

\* The first event of the stream fixes the clock and the normalization.
AnchorAt(t) ==
  /\ first' = t
  /\ cur' = t
  /\ anchored' = TRUE

Goto(where) == pc' = where /\ UNCHANGED <<cfg, call, iter, hist>>
Stay == UNCHANGED <<cfg, rvars, pc, call, iter, hist>>

-----------------------------------------------------------------------------
(* _read_impl: which path serves the call.  d and n are the overrides.     *)

CountPath(d) ==
  /\ Mode = "n_events" /\ d = None /\ acc = <<>>
  /\ cfg.kind \in ExactWindow \cup IndependentWindows

TimePath(n) ==
  /\ Mode = "delta_t" /\ n = None /\ acc = <<>>
  /\ cfg.kind \in Native

EnterFast(d, n) ==
  /\ \/ CountPath(d) /\ pc' = IF cfg.kind \in ExactWindow THEN "count" ELSE "chunk"
     \/ TimePath(n) /\ pc' = IF cfg.kind \in HasDeltaTParser THEN "peek" ELSE "seed"
  /\ UNCHANGED <<acc, carry, eof>>

\* Mutant of EnterStaged: the overshoot of the fast path is forgotten.
EnterStaged_NoFlush(d, n) ==
  /\ ~CountPath(d) /\ ~TimePath(n)
  /\ UNCHANGED <<acc, carry, eof>>
  /\ pc' = IF anchored \/ acc # <<>> THEN "gather" ELSE "anchor"

\* The accumulator path first folds in the overshoot (_flush_dt_carry).
EnterStaged(d, n) ==
  /\ ~CountPath(d) /\ ~TimePath(n)
  /\ acc' = acc \o carry
  /\ carry' = <<>>
  /\ eof' = (eof /\ carry = <<>>)
  /\ pc' = IF anchored \/ acc' # <<>> THEN "gather" ELSE "anchor"

Enter(d, n) ==
  /\ EnterFast(d, n) \/ EnterStaged(d, n)
  /\ call' = [dt |-> IF d = None THEN DeltaT ELSE d,
              ne |-> IF n = None THEN NEvents ELSE n,
              drain |-> Mode = "all" /\ d = None /\ n = None,
              cap |-> 0]
  /\ UNCHANGED <<cfg, off, out, anchored, first, cur, nread, iter, hist>>

\* read(), with or without overrides.
Read ==
  /\ "read" \in Ops /\ pc = "idle" /\ cur <= MaxCur
  /\ \E d \in DeltaTs \cup {None}, n \in Ns \cup {None} : Enter(d, n)

\* for window in reader: ...
IterBegin ==
  /\ "iterate" \in Ops /\ pc = "idle" /\ ~iter
  /\ iter' = TRUE
  /\ UNCHANGED <<cfg, bufs, rvars, pc, call, hist>>

IterNext ==
  /\ pc = "idle" /\ iter /\ ~IsEof
  /\ Enter(None, None)

IterEnd ==
  /\ pc = "idle" /\ iter /\ IsEof
  /\ iter' = FALSE
  /\ UNCHANGED <<cfg, bufs, rvars, pc, call, hist>>

-----------------------------------------------------------------------------
(* _read_n_events_fast                                                     *)

CountDecode ==
  /\ pc = "count" /\ Len(out) < call.ne /\ ~DecEof
  /\ \E q \in 0 .. NW :
       /\ ParseStep(call.ne - Len(out), q)
       /\ off' = q
       /\ out' = out \o Decoded(q)
  /\ UNCHANGED <<acc, carry>> /\ Stay

CountReturn ==
  /\ pc = "count" /\ (Len(out) >= call.ne \/ DecEof)
  /\ eof' = DecEof
  /\ IF out # <<>> /\ ~anchored
     THEN AnchorAt(Ts(out[1]))
     ELSE UNCHANGED <<anchored, first, cur>>
  /\ nread' = nread + Len(out)
  /\ Return(out, first', "count")
  /\ UNCHANGED <<off, acc, carry>>

-----------------------------------------------------------------------------
(* _read_n_events_readchunk: anchors on _n_read_events, not on _anchored.  *)

ChunkReturn ==
  /\ pc = "chunk"
  /\ \E q \in 0 .. NW :
       LET chunk == Decoded(q) IN
       /\ ReadChunk(call.ne, q)
       /\ off' = q
       /\ eof' = (Len(chunk) < call.ne)
       /\ IF chunk # <<>> /\ nread = 0
          THEN first' = Ts(chunk[1]) /\ cur' = Ts(chunk[1])
          ELSE UNCHANGED <<first, cur>>
       /\ nread' = nread + Len(chunk)
       /\ Return(chunk, first', "count")
  /\ UNCHANGED <<acc, carry, anchored>>

-----------------------------------------------------------------------------
(* _read_delta_t_fast: decode past the window, carry the overshoot.        *)

Seed ==
  /\ pc = "seed"
  /\ out' = carry
  /\ carry' = <<>>
  /\ Goto(IF ~anchored /\ carry = <<>> THEN "dt_anchor" ELSE "dt_loop")
  /\ UNCHANGED <<off, acc, rvars>>

DtReady == out # <<>> /\ (LastTs(out) >= End \/ Len(out) > call.ne)

\* One parse_step, to find the first event or to fill the window.
DtDecode ==
  /\ \/ pc = "dt_anchor" /\ out = <<>>
     \/ pc = "dt_loop" /\ ~DtReady
  /\ ~DecEof
  /\ \E q \in 0 .. NW :
       /\ ParseStep(DtStep, q)
       /\ off' = q
       /\ out' = out \o Decoded(q)
  /\ UNCHANGED <<acc, carry>> /\ Stay

DtAnchor ==
  /\ pc = "dt_anchor" /\ out # <<>>
  /\ AnchorAt(Ts(out[1]))
  /\ Goto("dt_loop")
  /\ UNCHANGED <<bufs, eof, nread>>

DtNothing ==
  /\ pc = "dt_anchor" /\ out = <<>> /\ DecEof
  /\ eof' = TRUE
  /\ ReturnNothing
  /\ UNCHANGED <<off, acc, carry, anchored, first, cur, nread>>

\* Mutant of DtReturn: the clock of a capped window advances all the same.
DtReturn_CapAdvances ==
  /\ pc = "dt_loop" /\ (DecEof \/ DtReady)
  /\ \E k \in 0 .. Len(out) :
       LET idx == IF k > call.ne THEN call.ne ELSE k IN
       /\ IsCut(out, End, k)
       /\ carry' = Back(out, idx)
       /\ cur' = End
       /\ nread' = nread + idx
       /\ eof' = (DecEof /\ carry' = <<>>)
       /\ Return(Front(out, idx), first, IF k > call.ne THEN "capped" ELSE "time")
  /\ UNCHANGED <<off, acc, anchored, first>>

DtReturn ==
  /\ pc = "dt_loop" /\ (DecEof \/ DtReady)
  /\ \E k \in 0 .. Len(out) :
       LET idx == IF k > call.ne THEN call.ne ELSE k IN
       /\ IsCut(out, End, k)
       /\ carry' = Back(out, idx)
       /\ cur' = IF k > call.ne THEN Ts(out[idx + 1]) ELSE End
       /\ nread' = nread + idx
       /\ eof' = (DecEof /\ carry' = <<>>)
       /\ Return(Front(out, idx), first, IF k > call.ne THEN "capped" ELSE "time")
  /\ UNCHANGED <<off, acc, anchored, first>>

-----------------------------------------------------------------------------
(* _read_delta_t_c: the EVT3 parser itself stops at the end of the window. *)

\* _peek_first_ts finds an event: anchor, then rewind the decoder.
Peek ==
  /\ pc = "peek" /\ ~anchored /\ rec.cum[off] < Total
  /\ AnchorAt(Ts(rec.cum[off] + 1))
  /\ off' = 0
  /\ eof' = FALSE
  /\ UNCHANGED <<cfg, acc, carry, out, nread, pc, call, iter, hist>>

PeekNothing ==
  /\ pc = "peek" /\ ~anchored /\ rec.cum[off] = Total
  /\ off' = NW
  /\ eof' = TRUE
  /\ ReturnNothing
  /\ UNCHANGED <<acc, carry, anchored, first, cur, nread>>

\* The window buffer is at least _dt_step long; n_cap clamps it.
OpenWindow ==
  /\ pc = "peek" /\ anchored
  /\ \E size \in {DtStep, 2 * DtStep} :
       call' = [call EXCEPT !.cap = Smaller(size, call.ne)]
  /\ pc' = "window"
  /\ UNCHANGED <<cfg, bufs, rvars, iter, hist>>

\* EVT3_parse_delta_t_soa stops before word q + 1 when the clock has reached
\* the end of the window, when only its headroom is left in the buffer, or
\* before `pad` last words.
WindowTime(q) == rec.tick[q] >= End
WindowFull(q) == Len(out) + rec.cum[q] - rec.cum[off] >= call.cap - Reserve
WindowStops(q, pad) == WindowTime(q) \/ WindowFull(q) \/ q + pad >= NW

ParseDeltaT(q, pad) ==
  /\ q \in off .. NW
  /\ WindowStops(q, pad)
  /\ \A r \in off .. (q - 1) : ~WindowStops(r, pad)

\* The window is handed out and the clock advances by delta_t.
WindowReturn(q, newoff) ==
  /\ off' = newoff
  /\ eof' = (newoff = NW)
  /\ cur' = End
  /\ nread' = nread + Len(out) + rec.cum[q] - rec.cum[off]
  /\ Return(out \o Decoded(q), first, "time")
  /\ UNCHANGED <<acc, carry, anchored, first>>

\* Status WINDOW_DONE, or nothing left to decode.
WindowDone ==
  /\ pc = "window"
  /\ \E q \in 0 .. NW :
       /\ ParseDeltaT(q, Pad)
       /\ DecEof \/ WindowTime(q)
       /\ WindowReturn(q, q)

\* Status OK without progress: parse_step_delta_t flushes the last words and
\* skips whatever that parse did not consume.
WindowTail ==
  /\ pc = "window" /\ ~DecEof
  /\ ~WindowTime(off) /\ ~WindowFull(off) /\ off + Pad >= NW
  /\ \E q \in 0 .. NW :
       /\ ParseDeltaT(q, 0)
       /\ WindowReturn(q, NW)

\* Status OK: the parser reached the padded tail; call it again.
WindowInput ==
  /\ pc = "window" /\ ~DecEof
  /\ \E q \in 0 .. NW :
       /\ ParseDeltaT(q, Pad) /\ q > off
       /\ ~WindowTime(q) /\ ~WindowFull(q)
       /\ off' = q
       /\ out' = out \o Decoded(q)
  /\ UNCHANGED <<acc, carry>> /\ Stay

\* Status OUTPUT_FULL below the cap: grow the buffer and go on.
WindowGrow ==
  /\ pc = "window" /\ ~DecEof /\ call.cap < call.ne
  /\ \E q \in 0 .. NW :
       /\ ParseDeltaT(q, Pad)
       /\ ~WindowTime(q) /\ WindowFull(q)
       /\ off' = q
       /\ out' = out \o Decoded(q)
       /\ call' = [call EXCEPT !.cap =
             Smaller(Larger(Len(out') + DtStep, (call.cap * 3) \div 2 + 1), call.ne)]
  /\ UNCHANGED <<cfg, acc, carry, rvars, pc, iter, hist>>

\* Status OUTPUT_FULL at the cap: stay in the same time window.
WindowCapped ==
  /\ pc = "window" /\ ~DecEof /\ call.cap >= call.ne
  /\ \E q \in 0 .. NW :
       /\ ParseDeltaT(q, Pad)
       /\ ~WindowTime(q) /\ WindowFull(q)
       /\ off' = q
       /\ eof' = (q = NW)
       /\ nread' = nread + Len(out) + rec.cum[q] - rec.cum[off]
       /\ Return(out \o Decoded(q), first, "part")
  /\ UNCHANGED <<acc, carry, anchored, first, cur>>

-----------------------------------------------------------------------------
(* The accumulator path of _read_impl.                                     *)

\* One decoder call that feeds the accumulator (_pull), either to find the
\* first event or because the window is not complete.
TimeReady == ~call.drain /\ acc # <<>> /\ LastTs(acc) >= End
CountReady == ~call.drain /\ Len(acc) > call.ne

Fill ==
  /\ \/ pc = "anchor" /\ acc = <<>>
     \/ pc = "gather" /\ ~TimeReady /\ ~CountReady
  /\ ~DecEof
  /\ \E q \in 0 .. NW :
       /\ Pull(call.ne, q)
       /\ off' = q
       /\ acc' = acc \o Decoded(q)
  /\ UNCHANGED <<carry, out>> /\ Stay

Anchor ==
  /\ pc = "anchor" /\ acc # <<>>
  /\ AnchorAt(Ts(acc[1]))
  /\ Goto("gather")
  /\ UNCHANGED <<bufs, eof, nread>>

GatherNothing ==
  /\ pc = "anchor" /\ acc = <<>> /\ DecEof
  /\ eof' = TRUE
  /\ ReturnNothing
  /\ UNCHANGED <<off, acc, carry, anchored, first, cur, nread>>

\* slice_copy hands out the first k staged events.
GatherReturn(k, newcur, why) ==
  /\ acc' = Back(acc, k)
  /\ cur' = newcur
  /\ nread' = nread + k
  /\ Return(Front(acc, k), first, why)
  /\ UNCHANGED <<off, carry, anchored, first>>

\* Mutant of GatherCut: a window may hold one event more than n_events.
GatherCut_OneMore ==
  /\ pc = "gather" /\ (TimeReady \/ CountReady)
  /\ \E k \in 0 .. Len(acc) :
       /\ IsCut(acc, End, k)
       /\ IF k > call.ne + 1
          THEN GatherReturn(call.ne + 1, Ts(acc[call.ne + 2]), "capped")
          ELSE GatherReturn(k, End, "time")
  /\ UNCHANGED eof

\* Whichever cutoff falls earlier in the stream cuts the window.
GatherCut ==
  /\ pc = "gather" /\ (TimeReady \/ CountReady)
  /\ \E k \in 0 .. Len(acc) :
       /\ IsCut(acc, End, k)
       /\ IF k > call.ne
          THEN GatherReturn(call.ne, Ts(acc[call.ne + 1]), "capped")
          ELSE GatherReturn(k, End, "time")
  /\ UNCHANGED eof

\* Mutant of GatherDrained: the end of the stream is not recorded.
GatherDrained_NoEof ==
  /\ pc = "gather" /\ ~TimeReady /\ ~CountReady /\ DecEof
  /\ GatherReturn(Len(acc), cur, "rest")
  /\ UNCHANGED eof

GatherDrained ==
  /\ pc = "gather" /\ ~TimeReady /\ ~CountReady /\ DecEof
  /\ eof' = TRUE
  /\ GatherReturn(Len(acc), cur, "rest")

-----------------------------------------------------------------------------
(* read_all, reset and seek.                                               *)

\* The overshoot, the staged events and all that the decoder still holds.
\* They are no window: whatever they hold, the first is shifted to start_ts.
ReadAll ==
  /\ "read_all" \in Ops /\ pc = "idle"
  /\ LET rest == acc \o carry \o Run(rec.cum[off], Total) IN
       /\ nread' = nread + Len(rest)
       /\ Return(rest, None, "rest")
  /\ off' = NW
  /\ acc' = <<>> /\ carry' = <<>>
  /\ eof' = TRUE
  /\ UNCHANGED <<anchored, first, cur>>

\* Mutant of Reset: the staging buffer survives.
Reset_KeepStaged ==
  /\ "reset" \in Ops /\ pc = "idle"
  /\ off' = Rewound /\ carry' = <<>>
  /\ eof' = FALSE /\ anchored' = FALSE /\ nread' = 0
  /\ base' = 0 /\ got' = <<>> /\ win' = NoWindow /\ origins' = {}
  /\ UNCHANGED <<cfg, out, acc, first, cur, pc, call, iter>>

\* Mutant of Reset: the event counter goes on.
Reset_KeepCounter ==
  /\ "reset" \in Ops /\ pc = "idle"
  /\ off' = Rewound /\ acc' = <<>> /\ carry' = <<>>
  /\ eof' = FALSE /\ anchored' = FALSE
  /\ base' = 0 /\ got' = <<>> /\ win' = NoWindow /\ origins' = {}
  /\ UNCHANGED <<cfg, out, first, cur, nread, pc, call, iter>>

\* _current_ts is left alone.
Reset ==
  /\ "reset" \in Ops /\ pc = "idle"
  /\ off' = Rewound /\ acc' = <<>> /\ carry' = <<>>
  /\ eof' = FALSE /\ anchored' = FALSE /\ nread' = 0
  /\ base' = 0 /\ got' = <<>> /\ win' = NoWindow /\ origins' = {}
  /\ UNCHANGED <<cfg, out, first, cur, pc, call, iter>>

\* The number of events before time t, and the time at which a cursor that
\* is followed by event k + 1 is said to be.
Before(t, k) == k \in 0 .. Total /\ IsCut(Run(0, Total), t, k)
TimeAt(k, t) == IF k < Total THEN Ts(k + 1) ELSE t

CanFastSeek == ~cfg.pipe \/ cfg.kind \in Native

\* Where the decoder's seek leaves it: the EVT decoders decode on from a
\* bookmark and return the remainder of the chunk that holds event k + 1; DAT,
\* which stands beside EVT2 here, and the others position themselves on it.
SeekLands(k, q) ==
  /\ q \in 0 .. NW
  /\ IF k = Total THEN q = NW
     ELSE IF cfg.kind \in Native THEN rec.cum[q] >= k ELSE q = k

\* Mutant of Reposition: the origin is where the seek came down.
Reposition_OriginAtLanding(k, ts, index, orig) ==
  /\ IF anchored THEN UNCHANGED first ELSE first' = ts
  /\ anchored' = TRUE
  /\ cur' = ts
  /\ nread' = index
  /\ carry' = <<>>
  /\ base' = k /\ got' = <<>> /\ win' = NoWindow
  /\ UNCHANGED <<cfg, out, pc, call, iter, origins>>

\* The reader's bookkeeping after the decoder has landed.  orig is the
\* timestamp peeked for the normalization, when it could be.
Reposition(k, ts, index, orig) ==
  /\ IF anchored THEN UNCHANGED first ELSE first' = orig
  /\ anchored' = TRUE
  /\ cur' = ts
  /\ nread' = index
  /\ carry' = <<>>
  /\ base' = k /\ got' = <<>> /\ win' = NoWindow
  /\ UNCHANGED <<cfg, out, pc, call, iter, origins>>

\* Mutant of SeekTime: the index -1 that CSV reports is stored.
SeekTime_RawIndex(t) ==
  /\ CanFastSeek
  /\ \E k \in 0 .. Total, q \in 0 .. NW :
       /\ Before(t, k) /\ SeekLands(k, q)
       /\ off' = q /\ acc' = Run(k, rec.cum[q])
       /\ Reposition(k, TimeAt(k, t), IF cfg.kind = "csv" THEN None ELSE k, TimeAt(0, t))
  /\ eof' = FALSE

\* seek(t=...) with the decoder's own seek.  CSV does not know the index.
SeekTime(t) ==
  /\ CanFastSeek
  /\ \E k \in 0 .. Total, q \in 0 .. NW :
       /\ Before(t, k) /\ SeekLands(k, q)
       /\ off' = q /\ acc' = Run(k, rec.cum[q])
       /\ Reposition(k, TimeAt(k, t), IF cfg.kind = "csv" THEN 0 ELSE k, TimeAt(0, t))
  /\ eof' = FALSE

\* seek(n=...) with the decoder's own seek.
SeekIndex(n) ==
  /\ CanFastSeek /\ n \in 0 .. Total
  /\ \E q \in 0 .. NW :
       /\ SeekLands(n, q)
       /\ off' = q /\ acc' = Run(n, rec.cum[q])
       /\ Reposition(n, TimeAt(n, 0), n, TimeAt(0, 0))
  /\ eof' = FALSE

\* _seek_linear reads chunks from word o until one holds event h + 1.
ScanTo(o, h) ==
  IF h >= Total
  THEN off' = NW /\ acc' = <<>> /\ eof' = TRUE
  ELSE /\ off' = Smaller(o + ChunkSize * ((h - o) \div ChunkSize + 1), NW)
       /\ acc' = Run(h, off')
       /\ eof' = FALSE

\* It rewinds when the target lies behind the clock or the event counter, and
\* takes the decoder to stand at the counter when it does not.  What was staged
\* is gone: it comes down where the decoder finds the target, or behind it.
LinearSeekTime(t) ==
  /\ ~CanFastSeek
  /\ \E k \in 0 .. Total :
       LET o == IF t < cur THEN Rewound ELSE off
           seen == IF t < cur THEN 0 ELSE nread
           h == Larger(o, k)
       IN  /\ Before(t, k)
           /\ ScanTo(o, h)
           /\ Reposition(h, TimeAt(h, t), IF h < Total THEN seen + (h - o) ELSE 0,
                         TimeAt(h, t))

LinearSeekIndex(n) ==
  /\ ~CanFastSeek /\ n \in 0 .. Total
  /\ LET o == IF n < nread THEN Rewound ELSE off
         seen == IF n < nread THEN 0 ELSE nread
         h == o + (n - seen)
     IN  /\ ScanTo(o, h)
         /\ Reposition(Smaller(h, Total), TimeAt(h, n), n, TimeAt(h, n))

\* Absolute and relative targets; the model keeps them at 0 or above.
Seek ==
  /\ pc = "idle"
  /\ \/ /\ "seek_t" \in Ops
        /\ \E t \in SeekTimes \cup ({cur + s : s \in SeekShifts} \cap 0 .. MaxCur) :
              SeekTime(t) \/ LinearSeekTime(t)
     \/ /\ "seek_n" \in Ops
        /\ \E n \in SeekIndexes \cup ({nread + s : s \in SeekShifts} \cap Nat) :
              SeekIndex(n) \/ LinearSeekIndex(n)

-----------------------------------------------------------------------------
\* What goes on inside a call of read().
InCall ==
  \/ CountDecode \/ CountReturn
  \/ ChunkReturn
  \/ Seed \/ DtDecode \/ DtAnchor \/ DtNothing \/ DtReturn
  \/ Peek \/ PeekNothing \/ OpenWindow
  \/ WindowDone \/ WindowTail \/ WindowInput \/ WindowGrow \/ WindowCapped
  \/ Fill \/ Anchor \/ GatherNothing \/ GatherCut \/ GatherDrained

Next ==
  \/ Read \/ IterBegin \/ IterNext \/ IterEnd
  \/ InCall
  \/ ReadAll \/ Reset \/ Seek

Spec == Init /\ [][Next]_vars

\* A call that was entered runs on; and a for loop over the reader, whose body
\* may make calls of its own but not for ever, asks for the next window.
FairSpec == Spec /\ WF_vars(InCall) /\ SF_vars(IterNext \/ IterEnd)

-----------------------------------------------------------------------------
(* Properties.                                                             *)

PcStates == {"idle", "count", "chunk", "seed", "dt_anchor", "dt_loop", "peek",
             "window", "anchor", "gather"}

\* The type of every variable of the reader.
TypeOK ==
  /\ cfg \in Configs
  /\ off \in 0 .. NW
  /\ {acc, carry, out, got, win.ev} \subseteq Seq(1 .. Total)
  /\ {eof, anchored, iter} \subseteq BOOLEAN
  /\ first \in Nat /\ cur \in Nat /\ nread \in Nat
  /\ pc \in PcStates
  /\ call.dt \in Nat \ {0} /\ call.ne \in Nat \ {0} /\ call.cap \in Nat
  /\ base \in 0 .. Total
  /\ origins \subseteq Nat

\* Since the last seek or reset the reads have handed out the consecutive
\* events of the recording from where it came down, each once and in order,
\* whatever paths served them; and what is decoded but not handed out (staged,
\* overshoot) is exactly what lies between the cursor and the decoder.
Lossless ==
  /\ got = Run(base, Pos)
  /\ pc = "idle" => acc \o carry = Run(Pos, rec.cum[off])

\* When is_eof() is true every event has been handed out.
EofComplete == pc = "idle" /\ IsEof => Pos = Total

\* A window cut by time holds exactly the events left in [lo, hi), a capped one
\* has its full count and leaves an event of its time window behind, and one
\* of n_events mode is short only at the end of the recording.
WindowExact ==
  pc = "idle" =>
    CASE win.why = "time" ->
           /\ \A i \in 1 .. Len(win.ev) : win.lo <= Ts(win.ev[i]) /\ Ts(win.ev[i]) < win.hi
           /\ Pos < Total => Ts(Pos + 1) >= win.hi
           /\ Len(win.ev) <= win.most
      [] win.why = "capped" -> Len(win.ev) = win.most /\ Ts(Pos + 1) < win.hi
      [] win.why = "count" -> Len(win.ev) = win.most \/ Pos = Total
      [] win.why = "part" -> Len(win.ev) <= win.most
      [] win.why = "rest" -> Pos = Total
      [] OTHER -> TRUE

\* The clock of the windows never passes an event that is still to come: no
\* event can fall between two windows.
ClockBehindCursor ==
  pc = "idle" /\ anchored /\ Pos < Total => cur <= Ts(Pos + 1)

\* len(reader), which relative seeks start from, is the index of the cursor,
\* wherever the decoder can seek and knows the index where it lands.
CounterIsCursor ==
  pc = "idle" /\ CanFastSeek /\ cfg.kind # "csv" => nread = Pos

\* Every window is shifted by the first timestamp of the recording, in
\* whatever order reads and seeks come ("normalize_ts is call-order
\* independent").
NormalizedFromStart == \A t \in origins : t = Ts(1)

\* That is so where the decoder can seek and the rows are not handed out by
\* _read_n_events_readchunk.
SeeksKeepOrigin ==
  CanFastSeek /\ cfg.kind \notin IndependentWindows => NormalizedFromStart

\* read() returns, and a for loop over the reader comes to its end unless its
\* body resets or repositions the reader for ever.  (With a cap within the
\* reserve of the EVT3 window parser, max_events up to 64, neither is so.)
IterationEnds ==
  /\ pc # "idle" ~> pc = "idle"
  /\ (iter ~> ~iter) \/ []<><<Reset \/ Seek>>_vars

Cursor == INSTANCE EventCursor WITH
  total <- Total, pos <- Pos, window <- win.ev, ended <- IsEof

\* The reader implements a cursor in the recording, whatever paths serve its
\* reads; is_eof() is true only when every event has been handed out.
ReadsLikeCursor == Cursor!Spec
=============================================================================
