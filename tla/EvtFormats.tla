----------------------------- MODULE EvtFormats -----------------------------
(***************************************************************************)
(* The Prophesee word formats and their C parsers (csrc/evt2.c, evt21.c,   *)
(* evt3.c, evt4.c), as operators on the state of a parser.                 *)
(*                                                                         *)
(* A word is a record whose field k says its kind:                         *)
(*   all      high: the high part of the clock;  other: anything ignored   *)
(*   evt3     low, y, x, base, v12, v8, trig                               *)
(*   others   cd: low part and address, in evt21 also a mask of columns;   *)
(*            trig                                                         *)
(*   evt4     vec: low part and address, followed by a mask word           *)
(* A clock value is a high part below H and a low part below L, and it     *)
(* wraps after H * L.  A mask of 32 columns is one of 3 * V here, which a  *)
(* vector group of evt3 spells in three words.  Polarity travels with x    *)
(* and is left out.                                                        *)
(***************************************************************************)
EXTENDS Arrays

CONSTANTS
  H,        \* values of the high part: 2^12 in evt3, 2^28 in the others
  L,        \* values of the low part: 2^12 in evt3, 2^6 in the others
  V,        \* columns of one vector word (12)
  Reserve,  \* room kept in the output: 64 in evt3, 32 in evt21 and evt4
  Pad       \* EVT3_INPUT_PADDING: words at the end evt3 does not touch (4)

ASSUME FormatsAssumption ==
  /\ {H, L, V} \subseteq Nat \ {0}
  /\ Reserve \in Nat /\ Reserve >= 3 * V
  /\ Pad \in Nat /\ Pad >= 2

Formats == {"evt2", "evt21", "evt3", "evt4"}

Period == H * L

HighOf(t) == (t \div L) % H
LowOf(t) == t % L

\* The events of the columns in bits, from column x of row y.
Columns(t, x, y, bits) ==
  Flat([i \in 1 .. 3 * V |->
          IF i - 1 \in bits THEN <<[t |-> t, x |-> x + (i - 1), y |-> y]>> ELSE <<>>])

-----------------------------------------------------------------------------
(* The parser: st is what it keeps between calls.                          *)

ParserInit == [hh |-> 0, high |-> 0, ts |-> 0, y |-> 0, vx |-> 0]

\* A high part below the last one means that the clock wrapped.
WithHigh(st, v) ==
  [st EXCEPT !.hh = IF v < st.high THEN @ + Period ELSE @, !.high = v]

Clock(st, low) == st.hh + st.high * L + low

\* Words a parser takes for TIME_HIGH when it meets them at the head of a
\* record: an evt4 mask whose top bits read 1110 is one (its low columns,
\* the value, are left out).
ReadsHigh(w) ==
  \/ w.k = "high"
  \/ /\ w.k = "mask"
     /\ {3 * V - 1, 3 * V - 2} \subseteq w.bits /\ 3 * V - 3 \notin w.bits

Kind(ws, i) == IF i <= Len(ws) THEN ws[i].k ELSE "none"

\* A parse in progress: position in the words, where the current call of
\* the C function began, parser state and output buffers.
ParseFrom(off, st, ev, tr) ==
  [pos |-> off, from |-> off, st |-> st, ev |-> ev, tr |-> tr]

Move(s, k) == [s EXCEPT !.pos = @ + k]
Emit(s, es, k) == [Move(s, k) EXCEPT !.ev = @ \o es]
EmitTrigger(s, t, id) ==
  [Move(s, 1) EXCEPT !.tr = Append(@, [t |-> t, id |-> id])]

\* A vector group: VECT_12, then VECT_12, then VECT_8, as far as they follow.
GroupLen(ws, i) ==
  CASE Kind(ws, i + 1) # "v12" -> 1
    [] Kind(ws, i + 1) = "v12" /\ Kind(ws, i + 2) # "v8" -> 2
    [] OTHER -> 3

GroupBits(ws, i) ==
  UNION {{j * V + b : b \in ws[i + j].bits} : j \in 0 .. GroupLen(ws, i) - 1}

\* EVT3_parse_chunk_soa, one turn of its loop.
StepEvt3(ws, s) ==
  LET i == s.pos + 1
      w == ws[i]
      st == s.st
  IN CASE w.k = "x" ->
            Emit(s, <<[t |-> st.ts, x |-> w.x, y |-> st.y]>>, 1)
       [] w.k = "base" -> [Move(s, 1) EXCEPT !.st.vx = w.x]
       [] w.k = "v12" ->
            [Emit(s, Columns(st.ts, st.vx, st.y, GroupBits(ws, i)), GroupLen(ws, i))
               EXCEPT !.st.vx = @ + 3 * V]
       [] w.k = "y" -> [Move(s, 1) EXCEPT !.st.y = w.y]
       [] w.k = "high" /\ Kind(ws, i + 1) = "low" ->
            LET hi == WithHigh(st, w.v)
            IN [Move(s, 2) EXCEPT !.st = [hi EXCEPT !.ts = Clock(hi, ws[i + 1].v)]]
       [] w.k = "high" /\ Kind(ws, i + 1) # "low" ->
            [Move(s, 1) EXCEPT !.st = WithHigh(st, w.v)]
       [] w.k = "low" -> [Move(s, 1) EXCEPT !.st.ts = Clock(st, w.v)]
       [] w.k = "trig" -> EmitTrigger(s, st.ts, w.id)
       [] w.k = "v8" -> [Move(s, 1) EXCEPT !.from = s.pos + 1]  \* warning
       [] OTHER -> Move(s, 1)

\* EVT2_parse_chunk_soa, one turn of its loop.
StepEvt2(s, w) ==
  CASE w.k = "cd" -> Emit(s, <<[t |-> Clock(s.st, w.low), x |-> w.x, y |-> w.y]>>, 1)
    [] w.k = "high" -> [Move(s, 1) EXCEPT !.st = WithHigh(s.st, w.v)]
    [] w.k = "trig" -> EmitTrigger(s, Clock(s.st, w.low), w.id)
    [] OTHER -> Move(s, 1)

\* EVT21_parse_chunk_soa: a cd word has a mask of columns.
StepEvt21(s, w) ==
  IF w.k = "cd"
  THEN Emit(s, Columns(Clock(s.st, w.low), w.x, w.y, w.bits), 1)
  ELSE StepEvt2(s, w)

\* EVT4_parse_chunk_soa: the mask of a vec word is the next word.  A mask at
\* the head of a record is taken for whatever it looks like.
StepEvt4(s, w, next) ==
  CASE w.k = "vec" ->
         Emit(s, Columns(Clock(s.st, w.low), w.x, w.y, next.bits), 2)
    [] w.k = "mask" /\ ReadsHigh(w) -> [Move(s, 1) EXCEPT !.st = WithHigh(s.st, 0)]
    [] OTHER -> StepEvt2(s, w)

Step(fmt, ws, s) ==
  CASE fmt = "evt2" -> StepEvt2(s, ws[s.pos + 1])
    [] fmt = "evt21" -> StepEvt21(s, ws[s.pos + 1])
    [] fmt = "evt3" -> StepEvt3(ws, s)
    [] fmt = "evt4" -> StepEvt4(s, ws[s.pos + 1], ws[s.pos + 2])

\* Mutant of Headroom: no room is kept for a whole vector.
Headroom_None(fmt) == 0

Headroom(fmt) == IF fmt = "evt2" THEN 0 ELSE Reserve

\* The conditions of the loop.
Full(fmt, s, cap, tcap) ==
  Len(s.ev) >= cap - Headroom(fmt) \/ Len(s.tr) >= tcap
Dry(fmt, ws, s) ==
  \/ s.pos >= Len(ws) - (IF fmt = "evt3" THEN Pad ELSE 0)
  \/ Kind(ws, s.pos + 1) = "vec" /\ s.pos + 2 > Len(ws)

\* One turn of a parse that began at s0.  The caller resumes it after the
\* warning of a stray VECT_8, but not in the flush of a tail.
Turn(fmt, ws, s0, s, cap, tcap, flush) ==
  IF \/ Full(fmt, s, cap, tcap)
     \/ Dry(fmt, ws, s)
     \/ flush /\ s.from > s0.from
  THEN s ELSE Step(fmt, ws, s)

\* The parser runs over ws until it must stop.
Run(fmt, ws, s0, cap, tcap, flush) ==
  LET \* (the singleton makes TLC evaluate f[n - 1] once)
      f[n \in 0 .. Len(ws)] ==
        IF n = 0 THEN s0
        ELSE CHOOSE t \in {Turn(fmt, ws, s0, s, cap, tcap, flush) : s \in {f[n - 1]}} : TRUE
  IN f[Len(ws)]

\* Zero words: ADDR_Y 0 in evt3.
Zeros == [i \in 1 .. 2 * Pad |-> [k |-> "y", y |-> 0]]

\* Mutant of ParseStep: the tail counts as read but is not flushed.
ParseStep_DropTail(fmt, ws, s0, cap, tcap, pad) ==
  LET Flushed(s) ==
        IF s.pos > s.from \/ Full(fmt, s, cap, tcap)
        THEN s
        ELSE [s EXCEPT !.pos = Len(ws)]
  IN Flushed(Run(fmt, ws, s0, cap, tcap, FALSE))

\* parse_step of _native_core: when nothing was consumed although there is
\* room, only the padded tail is left, and it is flushed.
ParseStep(fmt, ws, s0, cap, tcap, pad) ==
  LET AtTail(s) == IF pad THEN Run(fmt, ws \o Zeros, s, cap, tcap, TRUE) ELSE s
      Flushed(s) ==
        IF s.pos > s.from \/ Full(fmt, s, cap, tcap)
        THEN s
        ELSE [AtTail(s) EXCEPT !.pos = Len(ws)]
  IN Flushed(Run(fmt, ws, s0, cap, tcap, FALSE))

TailPad(fmt) == fmt = "evt3"

\* The offset of the first TIME_HIGH word at or after offset `start`, or none.
HighFrom(ws, start, none) ==
  LET hits == {i \in start + 1 .. Len(ws) : ReadsHigh(ws[i])}
  IN IF hits = {} THEN none ELSE (CHOOSE i \in hits : \A j \in hits : i <= j) - 1
=============================================================================
