------------------------------- MODULE EvtSeek ------------------------------
(***************************************************************************)
(* Random access in a Prophesee recording: IncrementalSeekIndex            *)
(* (io/_index.py) and EventDecoder_EVT.seek.                               *)
(*                                                                         *)
(* The index has a parser of its own and decodes the recording segment by  *)
(* segment, as far as a seek needs.  A segment begins at a TIME_HIGH word; *)
(* its bookmark is that word, the number of events before it and the time  *)
(* of the first event from there.  A seek puts the decoder at the last     *)
(* bookmark not behind the target with a fresh parser, restores the wraps  *)
(* that parser cannot know from the bookmark's time, and decodes on to the *)
(* target.  Triggers are not requested.                                    *)
(***************************************************************************)
EXTENDS EvtCodec

CONSTANTS
  Stride,     \* stride_words: least length of a segment (2^16, at least 64)
  ICap,       \* chunk_cap of the index
  Times, Indexes  \* targets the user seeks

ASSUME SeekAssumption ==
  /\ Stride \in Nat \ {0}
  /\ ICap \in Nat /\ ICap >= Reserve + Pad
  /\ Times \cup Indexes \subseteq Nat

VARIABLES
  ix,    \* the index: _off, _parser, _cum, _is_eof and the bookmarks
  seg,   \* the segment being decoded: its end, first_ts and cum0
  tgt,   \* the target: axis and value
  job,   \* locals of seek: seen, base_ts, correction
  base,  \* SeekResult.index: the event that comes next
  ended  \* SeekResult.eof

ivars == <<ix, seg, tgt, job>>
svars == <<ivars, base, ended>>

NoSegment == [begin |-> 0, end |-> 0, first |-> None, cum |-> 0]

SeekInit ==
  /\ Init
  /\ ix = [off |-> 0, st |-> ParserInit, cum |-> 0, eof |-> FALSE, marks |-> <<>>]
  /\ seg = NoSegment
  /\ tgt = [axis |-> "t", val |-> 0]
  /\ job = [seen |-> 0, ts |-> 0, corr |-> None]
  /\ base = 0 /\ ended = FALSE

Smaller(a, b) == IF a < b THEN a ELSE b

\* seek(t=...) or seek(n=...): _ensure_index keeps the index of an earlier one.
SeekBegin ==
  /\ pc = "idle"
  /\ tgt' \in [axis : {"t"}, val : Times] \cup [axis : {"n"}, val : Indexes]
  /\ ix' = IF ix.off = 0 THEN [ix EXCEPT !.off = start] ELSE ix
  /\ pc' = "index"
  /\ UNCHANGED <<wvars, opt, start, off, st, corr, ev, tr, got, gotTr,
                 seg, job, base, ended>>

-----------------------------------------------------------------------------
(* _build_until                                                            *)

LastMark == ix.marks[Len(ix.marks)]

\* The index reaches far enough for the target.
Built ==
  \/ ix.eof \/ ix.off >= NW
  \/ tgt.axis = "t" /\ ix.marks # <<>> /\ LastMark.ts >= tgt.val
  \/ tgt.axis = "n" /\ ix.cum >= tgt.val

\* Mutant of NextTimeHigh: a segment ends after its stride, wherever it is.
NextTimeHigh_AnyWord(from) == Smaller(from, NW)

NextTimeHigh(from) == HighFrom(file, Smaller(from, NW), NW)

OpenSegment ==
  /\ pc = "index" /\ ~Built
  /\ seg' = [begin |-> ix.off, end |-> NextTimeHigh(ix.off + Stride),
             first |-> None, cum |-> ix.cum]
  /\ pc' = "segment"
  /\ UNCHANGED <<wvars, opt, start, off, st, corr, ev, tr, got, gotTr,
                 ix, tgt, job, base, ended>>

Final == seg.end >= NW
SegmentWords == SubSeq(file, 1, seg.end)
IndexParse(ws, s0, pad) == ParseStep(fmt, ws, s0, ICap, ICap, pad)

\* What one parse_step over the words up to the segment's end gives.
Parsed == IndexParse(SegmentWords, ParseFrom(ix.off, ix.st, <<>>, <<>>),
                     Final /\ TailPad(fmt))

\* The evt3 parser leaves the last words of a slice: they are decoded from a
\* zero-padded copy.
Residue(s) ==
  IF ~Final /\ TailPad(fmt) /\ s.ev = <<>> /\ s.pos >= seg.end
  THEN [IndexParse(SegmentWords \o Zeros, ParseFrom(ix.off, s.st, <<>>, <<>>), FALSE)
          EXCEPT !.pos = seg.end]
  ELSE s

BuildStep ==
  /\ pc = "segment" /\ ix.off < seg.end /\ ~ix.eof
  /\ \E s \in {Residue(r) : r \in {Parsed}} :
       /\ ix' = [ix EXCEPT !.off = s.pos, !.st = s.st, !.cum = @ + Len(s.ev),
                           !.eof = (s.ev = <<>> /\ s.pos <= ix.off)]
       /\ seg' = IF s.ev # <<>> /\ seg.first = None
                 THEN [seg EXCEPT !.first = s.ev[1].t] ELSE seg
  /\ UNCHANGED <<wvars, rvars, tgt, job, base, ended>>

\* Mutant of CloseSegment: the bookmark counts the events of its segment.
CloseSegment_CountAfter ==
  /\ pc = "segment" /\ (ix.off >= seg.end \/ ix.eof)
  /\ LET mark == [off |-> seg.begin, cum |-> ix.cum, ts |-> seg.first] IN
     ix' = [ix EXCEPT !.marks = IF seg.first = None THEN @ ELSE Append(@, mark),
                      !.eof = @ \/ ix.off >= NW]
  /\ seg' = NoSegment
  /\ pc' = "index"
  /\ UNCHANGED <<wvars, opt, start, off, st, corr, ev, tr, got, gotTr,
                 tgt, job, base, ended>>

\* Segments without an event have no bookmark.
CloseSegment ==
  /\ pc = "segment" /\ (ix.off >= seg.end \/ ix.eof)
  /\ LET mark == [off |-> seg.begin, cum |-> seg.cum, ts |-> seg.first] IN
     ix' = [ix EXCEPT !.marks = IF seg.first = None THEN @ ELSE Append(@, mark),
                      !.eof = @ \/ ix.off >= NW]
  /\ seg' = NoSegment
  /\ pc' = "index"
  /\ UNCHANGED <<wvars, opt, start, off, st, corr, ev, tr, got, gotTr,
                 tgt, job, base, ended>>

-----------------------------------------------------------------------------
(* seek                                                                    *)

\* bookmark_for_time and bookmark_for_event: the last mark not behind the
\* target, or the first one.
Key(mark) == IF tgt.axis = "t" THEN mark.ts ELSE mark.cum
Bookmark ==
  LET before == {i \in 1 .. Len(ix.marks) : Key(ix.marks[i]) <= tgt.val}
      i == IF before = {} THEN 1 ELSE CHOOSE i \in before : \A j \in before : j <= i
  IN IF ix.marks = <<>> THEN [off |-> start, cum |-> 0, ts |-> 0] ELSE ix.marks[i]

Jump ==
  /\ pc = "index" /\ Built
  /\ off' = Bookmark.off
  /\ st' = ParserInit
  /\ corr' = 0
  /\ job' = [seen |-> Bookmark.cum, ts |-> Bookmark.ts, corr |-> None]
  /\ pc' = "scan"
  /\ UNCHANGED <<wvars, opt, start, ev, tr, got, gotTr, ix, seg, tgt, base, ended>>

\* Mutant of Correction: the wraps before the bookmark are forgotten.
Correction_None(t) == 0

\* The multiple of the period nearest to what the time of the first event
\* decoded lacks.
Correction(t) == (((job.ts - t) + Period \div 2) \div Period) * Period

Corrected(events, c) == [i \in DOMAIN events |-> [events[i] EXCEPT !.t = @ + c]]

Land(events, c, idx, eof) ==
  /\ corr' = c
  /\ got' = events
  /\ base' = idx /\ ended' = eof
  /\ pc' = "idle"

\* How many of the events lie before the target; all of them: no hit.
Skip(events) ==
  IF tgt.axis = "t"
  THEN Len(SelectSeq(events, LAMBDA e : e.t < tgt.val))
  ELSE Smaller(tgt.val - job.seen, Len(events))

\* One parse_step of _decode_step, and what seek does with its events.
Scan ==
  /\ pc = "scan" /\ off < NW
  /\ \E s \in {ParseInto(ParseFrom(off, st, <<>>, <<>>), opt.cap, TCap)} :
       /\ off' = s.pos /\ st' = s.st
       /\ IF s.ev = <<>>
          THEN UNCHANGED <<corr, pc, got, job, base, ended>>
          ELSE LET raw == Shift(s.ev)
                   c == IF job.corr = None THEN Correction(raw[1].t) ELSE job.corr
                   events == Corrected(raw, c)
                   k == Skip(events)
               IN IF k < Len(events)
                  THEN /\ Land(SubSeq(events, k + 1, Len(events)), c, job.seen + k, FALSE)
                       /\ UNCHANGED job
                  ELSE /\ job' = [job EXCEPT !.seen = @ + Len(events), !.corr = c]
                       /\ UNCHANGED <<corr, pc, got, base, ended>>
  /\ UNCHANGED <<wvars, opt, start, ev, tr, gotTr, ix, seg, tgt>>

\* The target is behind the last event.
ScanEnd ==
  /\ pc = "scan" /\ off >= NW
  /\ Land(<<>>, IF job.corr = None THEN 0 ELSE job.corr,
          IF tgt.axis = "n" THEN tgt.val ELSE job.seen, TRUE)
  /\ UNCHANGED <<wvars, opt, start, off, st, ev, tr, gotTr, ix, seg, tgt, job>>

SeekReset == Reset /\ base' = 0 /\ ended' = FALSE /\ UNCHANGED ivars

Seeking == SeekBegin \/ OpenSegment \/ BuildStep \/ CloseSegment \/ Jump \/ Scan \/ ScanEnd
Reading == Write \/ Open \/ Call \/ Inside

SeekNext == (Reading /\ UNCHANGED svars) \/ SeekReset \/ Seeking

SeekSpec == SeekInit /\ [][SeekNext]_<<vars, svars>>

-----------------------------------------------------------------------------
(* Properties.                                                             *)

EventsBefore(o) ==
  Len(Run(fmt, SubSeq(file, 1, o) \o Zeros, ParseFrom(start, ParserInit, <<>>, <<>>),
          1000, 1000, FALSE).ev)

\* A bookmark counts exactly the events in front of its word and carries the
\* absolute time of the next one, with every wrap of the clock, however the
\* words were cut into segments, slices and padded residues.
IndexExact ==
  \A i \in 1 .. Len(ix.marks) :
    LET mark == ix.marks[i] IN
    /\ mark.cum = EventsBefore(mark.off)
    /\ mark.ts = truth[mark.cum + 1].t

\* Two events that agree in all but the row: evt3 writes a row only when it
\* changes, and after a seek the parser does not know the last one.
SameButRow(a, b) == a.t = b.t /\ a.x = b.x /\ (fmt # "evt3" => a.y = b.y)

Here == got \o (IF opt.all THEN Shift(ev) ELSE ev)

\* After a seek, reading goes on with the event the result names: no event
\* is lost or repeated from there on, and the timestamps are those a
\* sequential read gives, although the parser was reset in the middle of the
\* recording.
ResumesExactly ==
  pc \in {"idle", "loop"} /\ ~ended =>
    /\ base + Len(Here) <= Len(truth)
    /\ \A i \in 1 .. Len(Here) : SameButRow(Here[i], truth[base + i])
    /\ pc = "idle" /\ off = NW => base + Len(Here) = Len(truth)

Behind == IF tgt.axis = "t" THEN \A i \in 1 .. Len(truth) : truth[i].t < tgt.val
          ELSE tgt.val >= Len(truth)

\* The result names event b + 1, counted from 1, as the one that comes next.
\* Nothing later than the target is skipped for it, and nothing earlier is left.
Admits(b) ==
  IF tgt.axis = "n" THEN b = tgt.val
  ELSE truth[b + 1].t >= tgt.val /\ \A i \in 1 .. b : truth[i].t <= tgt.val
\* It is the first event at or behind the target.
Exact(b) ==
  IF tgt.axis = "n" THEN b = tgt.val
  ELSE truth[b + 1].t >= tgt.val /\ \A i \in 1 .. b : truth[i].t < tgt.val

Landing == pc = "scan" /\ pc' = "idle"

\* A seek comes down on the first event at or behind its target, whichever
\* bookmark it starts from ("decodes forward to land exactly on the target"),
\* and reports the end only if there is none.
LandsOnTarget ==
  [][Landing => IF ended' THEN Behind ELSE Exact(base')]_<<vars, svars>>

\* However late its index begins and whatever wraps its parser has missed, a
\* seek never skips an event later than its target and never comes down
\* before one earlier, and it reports the end only if nothing lies behind the
\* target.  That leaves only the events at the very time of the target open,
\* of which LandsOnTarget promises the first.
SkipsNothingLater ==
  [][Landing => IF ended' THEN Behind ELSE Admits(base')]_<<vars, svars>>
=============================================================================
