------------------------------ MODULE Decoders ------------------------------
(***************************************************************************)
(* Reading a recording back: the decoders of the formats that have no      *)
(* codec of their own (io/_csv.py, _dat.py, _aer.py, _aedat.py, _npz.py,   *)
(* _hdf5.py, and the C parsers of three of them), whose base class is in   *)
(* io/common.py.  A file that EventWriter made, or another program, is     *)
(* opened; then read_chunk, read_all, seek, reset and, for hdf5, read are  *)
(* called in any order.                                                    *)
(*                                                                         *)
(* For csv the position is in bytes: a row has as many as its time needs,  *)
(* and is two or three bytes long with its newline.                        *)
(***************************************************************************)
EXTENDS EventWriter, FiniteSets

CONSTANTS
  ChunkSize,   \* chunk_size
  Hints,       \* n_events_hint: None or a number
  Block, Low,  \* bytes csv reads at once (4 MiB) and keeps buffered (1 MiB)
  TOffsets,    \* t_offset of an hdf5 file
  SeekTimes, SeekIndexes, MsRanges  \* what the user asks for

ASSUME DecoderAssumption ==
  /\ ChunkSize \in Nat \ {0} /\ Block \in Nat \ {0} /\ Low \in Nat \ {0}
  /\ Hints \subseteq {None} \cup (Nat \ {0})
  /\ TOffsets \cup SeekTimes \cup SeekIndexes \subseteq Nat
  /\ \A r \in MsRanges : r.start \in Nat /\ r.end \in Nat \cup {None}

VARIABLES
  cfg,    \* triggers: read_external_triggers; stamps: timestamps= of aer;
          \* bare: a csv file without its last newline; shift: t_offset
  pc,     \* "none" (not open), "idle", or the call: "chunk" or "all"
  st,     \* the state of the decoder and its parser
  part,   \* csv: what the running read_chunk() has parsed
  hint,   \* its n_events_hint
  acc,    \* read_all(): the chunks so far
  win,    \* what the last call returned
  res,    \* SeekResult of the last seek, and what was asked
  seenTr  \* the triggers returned since the recording was last at its start

dvars == <<cfg, pc, st, part, hint, acc, win, res, seenTr>>
vars == <<wvars, dvars>>

Nothing == [ev |-> <<>>, tr |-> <<>>]
NoSeek == [axis |-> "none", val |-> 0, end |-> 0, ts |-> 0, index |-> 0, eof |-> FALSE]

\* Where init() leaves a decoder: pos counts events, or records; at, fd and nl
\* are the first byte in the buffer of csv, the next of the file, and whether
\* a newline was appended; off and last are the wraps of a clock and its last
\* value; next and ndec are where the timestamps of aer are.
Start ==
  [pos |-> 0, strm |-> 0, eof |-> FALSE, at |-> None, fd |-> None, nl |-> FALSE,
   off |-> 0, last |-> None, next |-> 0, ndec |-> 0]

Init ==
  /\ WriterInit
  /\ cfg \in [triggers : BOOLEAN, stamps : {"zero", "sequential", "custom"},
              bare : BOOLEAN, shift : TOffsets]
  /\ cfg.triggers => fmt \in Packets \cup Recorded
  /\ cfg.stamps # "zero" => fmt = "aer"
  /\ cfg.bare => fmt = "csv"
  /\ cfg.shift # 0 => fmt = "hdf5"
  /\ pc = "none" /\ st = Start /\ part = <<>> /\ hint = None
  /\ acc = Nothing /\ win = Nothing /\ res = NoSeek /\ seenTr = <<>>

-----------------------------------------------------------------------------
(* The file.                                                               *)

\* The records behind the header.
Data == IF file # <<>> /\ file[1].kind = "header" THEN Tail(file) ELSE file

\* The events, or the triggers, of some records.
Held(rs, kind) ==
  Flat([i \in DOMAIN rs |-> IF rs[i].kind = kind THEN rs[i].body ELSE <<>>])

\* self._n of npz is what the archive says, that of hdf5 the length of t.
DatasetLength == Len(cols.t)

Total ==
  CASE fmt = "npz" -> ArchiveLength
    [] fmt = "hdf5" -> DatasetLength
    [] OTHER -> Len(Held(Data, "ev"))

\* The files that are read: those of a writer that was closed, and which no
\* failed write or second header of csv has spoilt.
Readable ==
  /\ phase = "closed" /\ ~spoilt
  /\ fmt = "csv" => \A i \in 2 .. Len(file) : file[i].kind # "header"

-----------------------------------------------------------------------------
(* The bytes of a csv file.                                                *)

RowBytes(t) == IF t < Wrap THEN 2 ELSE 3
HeaderBytes == 2

\* _data_start, and where row k begins; row Total + 1 is behind the last.
DataStart == IF Len(file) > Len(Data) THEN HeaderBytes ELSE 0

RowBegin ==
  LET rows == Data
      f[k \in 1 .. Len(rows) + 1] ==
        IF k = 1 THEN DataStart ELSE f[k - 1] + RowBytes(rows[k - 1].body[1].t)
  IN f

FileSize == RowBegin[Total + 1] - (IF cfg.bare /\ Total > 0 THEN 1 ELSE 0)

\* How many rows begin before byte b, and the row that begins there.
RowsBefore(b) ==
  LET begin == RowBegin
  IN Cardinality({k \in 1 .. Total : begin[k] < b})

\* _line_start_at_or_after: without a newline behind b - 1 it is the end.
LineStart(b) ==
  LET begin == RowBegin
      begins == {begin[k] : k \in 1 .. Total} \cup {DataStart, FileSize}
  IN CHOOSE c \in begins : c >= b /\ \A e \in begins : e >= b => c <= e

\* _parse_line_t at the beginning of a line.
LineTime(b) ==
  IF b >= FileSize THEN None ELSE Data[RowsBefore(b) + 1].body[1].t

-----------------------------------------------------------------------------
(* Clocks of 32 bits.                                                      *)

\* The dat parser takes any step back for a wrap, AEDAT one of more than half
\* the period.
Wrapped(prev, raw) ==
  prev # None /\ IF fmt = "dat" THEN raw < prev ELSE prev - raw > Half

\* Records a+1 .. b with their times unwrapped, from the state of the parser.
Clocked(a, b) ==
  LET rows == Data
      f[i \in a .. b] ==
        IF i = a THEN [off |-> st.off, last |-> st.last, out |-> <<>>]
        ELSE LET p == f[i - 1]
                 raw == rows[i].body[1].t
                 off == p.off + (IF Wrapped(p.last, raw) THEN 1 ELSE 0)
                 item == [rows[i].body[1] EXCEPT !.t = off * Wrap + raw]
             IN [off |-> off, last |-> raw,
                 out |-> Append(p.out, [kind |-> rows[i].kind, item |-> item])]
  IN f[b]

Of(kind, out) ==
  LET these == SelectSeq(out, LAMBDA r : r.kind = kind)
  IN [i \in DOMAIN these |-> these[i].item]

-----------------------------------------------------------------------------
(* One call of read_chunk(): what it returns and the state it leaves.      *)

Chunk(ev, tr, s) == [ev |-> ev, tr |-> tr, st |-> s]
AtEnd == Chunk(<<>>, <<>>, [st EXCEPT !.eof = TRUE])

NpzChunk ==
  IF st.pos >= Total THEN AtEnd
  ELSE LET n == Smaller(IF hint = None THEN ChunkSize ELSE hint, Total - st.pos)
       IN Chunk([i \in 1 .. n |-> [n |-> cols.n[st.strm + i], t |-> cols.t[st.strm + i]]],
                <<>>, [st EXCEPT !.pos = @ + n, !.strm = @ + n, !.eof = st.pos + n >= Total])

\* hdf5: _slice, with the offset of the file.
Slice(a, b) ==
  [i \in 1 .. b - a |-> [n |-> cols.n[a + i], t |-> cols.t[a + i] + cfg.shift]]

Hdf5Chunk ==
  LET b == Smaller(st.pos + ChunkSize, Total)
  IN IF st.pos >= Total THEN AtEnd
     ELSE Chunk(Slice(st.pos, b), <<>>, [st EXCEPT !.pos = b, !.eof = b >= Total])

\* dat and AEDAT 1 and 2: the next records, n at most.
RecordsChunk(n) ==
  LET b == Smaller(st.pos + n, Len(Data))
      d == Clocked(st.pos, b)
  IN IF st.pos >= Len(Data) THEN AtEnd
     ELSE Chunk(Of("ev", d.out), Of("tr", d.out),
                [st EXCEPT !.pos = b, !.off = d.off, !.last = d.last,
                           !.eof = fmt = "dat" /\ b >= Len(Data)])

\* aer: no time, or one every second microsecond, or the user's.
Custom(i) == 3 * i + 1

AerChunk(n) ==
  LET b == Smaller(st.pos + n, Total)
      time(i) == CASE cfg.stamps = "zero" -> 0
                   [] cfg.stamps = "sequential" -> st.next + 2 * (i - 1)
                   [] cfg.stamps = "custom" -> Custom(st.ndec + i)
  IN IF st.pos >= Total THEN AtEnd
     ELSE Chunk([i \in 1 .. b - st.pos |-> [n |-> Data[st.pos + i].body[1].n, t |-> time(i)]],
                <<>>, [st EXCEPT !.pos = b, !.eof = b >= Total, !.ndec = @ + (b - st.pos),
                                 !.next = @ + 2 * (b - st.pos)])

\* AEDAT 3 and 4: the next packet with events or triggers in it.
PacketChunk ==
  LET q == SelectInSubSeq(Data, st.pos + 1, Len(Data), LAMBDA r : r.kind \in {"ev", "tr"})
      full == [i \in DOMAIN Data[q].body |->
                 [Data[q].body[i] EXCEPT !.t = @ + Data[q].over * Half]]
  IN IF q = 0 THEN [AtEnd EXCEPT !.st.pos = Len(Data)]
     ELSE Chunk(IF Data[q].kind = "ev" THEN full ELSE <<>>,
                IF Data[q].kind = "tr" THEN full ELSE <<>>, [st EXCEPT !.pos = q])

NextChunk ==
  CASE fmt = "npz" -> NpzChunk
    [] fmt = "hdf5" -> Hdf5Chunk
    [] fmt \in {"dat", "aedat1", "aedat2"} -> RecordsChunk(ChunkSize)
    [] fmt = "aer" -> AerChunk(ChunkSize)
    [] fmt \in Packets -> PacketChunk

-----------------------------------------------------------------------------
(* The calls.                                                              *)

\* init() of csv leaves the file behind its header.
CsvStart == [Start EXCEPT !.at = DataStart, !.fd = DataStart]

Open ==
  /\ pc = "none" /\ Readable
  /\ pc' = "idle"
  /\ st' = IF fmt = "csv" THEN CsvStart ELSE Start
  /\ UNCHANGED <<wvars, cfg, part, hint, acc, win, res, seenTr>>

ReadChunk ==
  /\ pc = "idle"
  /\ pc' = "chunk" /\ hint' \in Hints
  /\ part' = <<>> /\ acc' = Nothing
  /\ UNCHANGED <<wvars, cfg, st, win, res, seenTr>>

\* read_all() of the base class.
ReadAll ==
  /\ pc = "idle" /\ fmt \notin {"hdf5", "dat", "aer"}
  /\ pc' = "all" /\ hint' = None
  /\ part' = <<>> /\ acc' = Nothing
  /\ UNCHANGED <<wvars, cfg, st, win, res, seenTr>>

\* Mutant: the position stays where it was.
ReadRest_Stay ==
  /\ pc = "idle" /\ fmt \in {"hdf5", "dat", "aer"}
  /\ \E c \in {CASE fmt = "hdf5" -> [Hdf5Chunk EXCEPT !.ev = Slice(st.pos, Total)]
                 [] fmt = "dat" -> RecordsChunk(Len(Data))
                 [] fmt = "aer" -> AerChunk(Total)} :
       /\ win' = [ev |-> c.ev, tr |-> c.tr]
       /\ st' = [c.st EXCEPT !.pos = st.pos]
  /\ res' = NoSeek
  /\ UNCHANGED <<wvars, cfg, pc, part, hint, acc, seenTr>>

\* Three formats decode what is left in one go.
ReadRest ==
  /\ pc = "idle" /\ fmt \in {"hdf5", "dat", "aer"}
  /\ \E c \in {CASE fmt = "hdf5" -> [Hdf5Chunk EXCEPT !.ev = Slice(st.pos, Total),
                                                       !.st.pos = Total]
                 [] fmt = "dat" -> RecordsChunk(Len(Data))
                 [] fmt = "aer" -> AerChunk(Total)} :
       /\ win' = [ev |-> c.ev, tr |-> c.tr]
       /\ st' = [c.st EXCEPT !.eof = TRUE]
  /\ res' = NoSeek
  /\ UNCHANGED <<wvars, cfg, pc, part, hint, acc, seenTr>>

\* Mutant: read_all() ends at a chunk without events.
Deliver_EventsOnly(c) ==
  LET tr == IF cfg.triggers THEN c.tr ELSE <<>>
      all == [ev |-> acc.ev \o c.ev, tr |-> acc.tr \o tr]
  IN /\ st' = c.st
     /\ IF pc = "all" /\ c.ev # <<>>
        THEN acc' = all /\ UNCHANGED <<pc, win, res>>
        ELSE /\ win' = all /\ acc' = Nothing /\ pc' = "idle" /\ res' = NoSeek
     /\ part' = <<>>
     /\ seenTr' = seenTr \o tr

\* read_chunk() returns; read_all() goes on until a chunk is empty.
Deliver(c) ==
  LET tr == IF cfg.triggers THEN c.tr ELSE <<>>
      all == [ev |-> acc.ev \o c.ev, tr |-> acc.tr \o tr]
  IN /\ st' = c.st
     /\ IF pc = "all" /\ (c.ev # <<>> \/ tr # <<>>)
        THEN acc' = all /\ UNCHANGED <<pc, win, res>>
        ELSE /\ win' = all /\ acc' = Nothing /\ pc' = "idle" /\ res' = NoSeek
     /\ part' = <<>>
     /\ seenTr' = seenTr \o tr

Calling == pc \in {"chunk", "all"}

Decode ==
  /\ Calling /\ fmt # "csv"
  /\ \E c \in {NextChunk} : Deliver(c)
  /\ UNCHANGED <<wvars, cfg, hint>>

-----------------------------------------------------------------------------
(* csv: read_chunk() is a loop that refills its buffer and parses it.      *)
Limit == IF hint = None THEN ChunkSize ELSE hint

Refill(s) ==
  IF s.fd >= FileSize THEN [s EXCEPT !.eof = TRUE, !.nl = TRUE]
  ELSE [s EXCEPT !.fd = Smaller(@ + Block, FileSize)]

Topped(s) == IF ~s.eof /\ s.fd - s.at < Low THEN Refill(s) ELSE s

\* The rows that are whole in the buffer, and a call of the C parser with room
\* for that many: it stops at the last of them, or skips the newline that is
\* left when it has room for more.
Whole(s) ==
  LET begin == RowBegin
  IN Cardinality({j \in RowsBefore(s.at) + 1 .. Total : s.eof \/ begin[j + 1] <= s.fd})

Parsed(s, room) ==
  LET rows == Data
      k == RowsBefore(s.at)
      n == Smaller(room, Whole(s))
      to == Smaller(RowBegin[k + n + 1], FileSize)
  IN [rows |-> [i \in 1 .. n |-> rows[k + i].body[1]],
      st |-> [s EXCEPT !.at = to,
                !.nl = @ /\ n = room /\ ~(cfg.bare /\ to = FileSize)]]

\* Mutant: a buffer without a whole row is parsed again as it is.
CsvLoop_NoProgress ==
  /\ Calling /\ fmt = "csv" /\ Len(part) < Limit
  /\ \E s \in {Topped(st)} :
       /\ s.fd > s.at \/ s.nl
       /\ \E p \in {Parsed(s, Limit - Len(part))} :
            part' = part \o p.rows /\ st' = p.st
  /\ UNCHANGED <<wvars, cfg, pc, hint, acc, win, res, seenTr>>

\* When nothing could be consumed the buffer is refilled whatever its size.
CsvLoop ==
  /\ Calling /\ fmt = "csv" /\ Len(part) < Limit
  /\ \E s \in {Topped(st)} :
       /\ s.fd > s.at \/ s.nl
       /\ \E p \in {Parsed(s, Limit - Len(part))} :
            /\ part' = part \o p.rows
            /\ st' = IF p.st = s THEN Refill(s) ELSE p.st
  /\ UNCHANGED <<wvars, cfg, pc, hint, acc, win, res, seenTr>>

\* is_eof() is said as soon as the input is exhausted, even if rows are
\* buffered, and when a chunk is not full.
CsvReturn ==
  /\ Calling /\ fmt = "csv"
  /\ LET s == Topped(st) IN
     IF Len(part) >= Limit THEN Deliver(Chunk(part, <<>>, st))
     ELSE /\ s.fd = s.at /\ ~s.nl
          /\ Deliver(Chunk(part, <<>>, [s EXCEPT !.eof = TRUE]))
  /\ UNCHANGED <<wvars, cfg, hint>>

-----------------------------------------------------------------------------
(* seek(), reset(), and read() of hdf5.                                    *)

\* The time of record i as the file has it, and for hdf5 as the user sees it.
Column == IF fmt \in Columnar THEN [i \in DOMAIN cols.t |-> cols.t[i] + cfg.shift]
          ELSE [i \in DOMAIN Data |-> Data[i].body[1].t]

\* dat: the records at which the raw time steps back, and both ends.
WrapIndices ==
  LET raw == Column
      back == SelectSeq([i \in 1 .. Len(raw) |-> i],
                        LAMBDA i : i < Len(raw) /\ raw[i + 1] < raw[i])
  IN <<0>> \o back \o <<Len(raw)>>

\* How often the clock has wrapped before record i + 1.
WrapsAt(i) == Larger(0, Len(SelectSeq(WrapIndices, LAMBDA j : j <= i)) - 1)

\* Mutant of IndexOfTime: the wraps of dat are not looked at.
IndexOfTime_NoBuckets(val) == Before(Column, val)

\* The first event not before val: numpy.searchsorted, within one turn of the
\* clock for dat.
IndexOfTime(val) ==
  IF fmt # "dat" THEN Before(Column, val)
  ELSE LET wraps == WrapIndices
           bucket == val \div Wrap
       IN IF bucket >= Len(wraps) - 1 THEN Total
          ELSE wraps[bucket + 1]
                 + Before(SubSeq(Column, wraps[bucket + 1] + 1, wraps[bucket + 2]), val % Wrap)

\* csv: the byte a binary search over the lines ends at.  A byte in the last
\* line has no line behind it, and counts as too early.
ByteOfTime(val) ==
  LET size == FileSize
      late(mid) == LineTime(LineStart(mid)) # None /\ LineTime(LineStart(mid)) >= val
      f[i \in 0 .. size] ==
        IF i = 0 THEN [lo |-> DataStart, hi |-> size]
        ELSE LET p == f[i - 1]
                 mid == (p.lo + p.hi) \div 2
             IN IF p.lo >= p.hi THEN p
                ELSE IF late(mid) THEN [p EXCEPT !.hi = mid] ELSE [p EXCEPT !.lo = mid + 1]
  IN LineStart(f[size].lo)

\* _seek_line_index counts newlines.
ByteOfIndex(n) == IF n < Total THEN RowBegin[n + 1] ELSE FileSize

\* The state at event idx; the parser of dat gets the wraps before it.
Sought(idx) ==
  [st EXCEPT !.pos = idx, !.strm = idx, !.eof = idx >= Total,
             !.off = IF fmt = "dat" THEN WrapsAt(idx) ELSE @, !.last = None]

SoughtByte(b) ==
  [st EXCEPT !.at = b, !.fd = b, !.nl = FALSE, !.eof = b >= FileSize]

\* What seek() says it has landed on.
LandedTime(idx, val) ==
  IF idx >= Total THEN val
  ELSE Column[idx + 1] + (IF fmt = "dat" THEN Wrap * WrapsAt(idx) ELSE 0)

Seekable == {"csv", "dat", "npz", "hdf5"}

Seek(axis, val) ==
  /\ pc = "idle" /\ fmt \in Seekable
  /\ IF fmt = "csv"
     THEN LET b == IF axis = "n" THEN ByteOfIndex(val) ELSE ByteOfTime(val) IN
          /\ st' = SoughtByte(b)
          /\ res' = [axis |-> axis, val |-> val, end |-> 0, eof |-> b >= FileSize,
                     index |-> IF axis = "n" THEN val ELSE None,
                     ts |-> IF b >= FileSize THEN val ELSE LineTime(b)]
     ELSE LET idx == Smaller(IF axis = "n" THEN val ELSE IndexOfTime(val), Total) IN
          /\ st' = Sought(idx)
          /\ res' = [axis |-> axis, val |-> val, end |-> 0, eof |-> idx >= Total,
                     index |-> idx, ts |-> LandedTime(idx, val)]
  /\ win' = Nothing
  /\ UNCHANGED <<wvars, cfg, pc, part, hint, acc, seenTr>>

SeekTime == \E val \in SeekTimes : Seek("t", val)
SeekIndex == \E val \in SeekIndexes : Seek("n", val)

\* Mutant: AEDAT keeps its clock.
Reset_KeepClock ==
  /\ pc = "idle"
  /\ st' = IF fmt = "csv" THEN SoughtByte(DataStart)
           ELSE IF fmt \in Recorded THEN [Start EXCEPT !.off = st.off, !.last = st.last]
           ELSE Start
  /\ win' = Nothing /\ res' = NoSeek /\ seenTr' = <<>>
  /\ UNCHANGED <<wvars, cfg, pc, part, hint, acc>>

\* reset(): csv runs init() again, npz opens its columns again, and dat also
\* resets its parser.
CsvRewound == [SoughtByte(DataStart) EXCEPT !.eof = FALSE]
ColumnsRewound == [st EXCEPT !.pos = 0, !.strm = 0, !.eof = FALSE]
ClockRewound == [st EXCEPT !.pos = 0, !.strm = 0, !.eof = FALSE, !.off = 0, !.last = None]

Reset ==
  /\ pc = "idle"
  /\ st' = CASE fmt = "csv" -> CsvRewound
              [] fmt \in Columnar -> ColumnsRewound
              [] fmt = "dat" -> ClockRewound
              [] OTHER -> Start
  /\ win' = Nothing /\ res' = NoSeek /\ seenTr' = <<>>
  /\ UNCHANGED <<wvars, cfg, pc, part, hint, acc>>

\* The entries of the index that bound [start, end) of hdf5's read().
MsSlice(start, end) ==
  LET last == Len(ms.idx) - 1
      anchor == Larger(ms.base, 0)
      from == Larger(start - anchor, 0)
      to == IF end = None THEN last ELSE end - anchor
  IN IF from > last \/ to < 0 THEN <<>>
     ELSE Slice(ms.idx[from + 1], ms.idx[Smaller(to, last) + 1])

ReadMs ==
  /\ pc = "idle" /\ fmt = "hdf5"
  /\ \E r \in MsRanges :
       /\ r.end # None => r.start <= r.end
       /\ win' = [ev |-> MsSlice(r.start, r.end), tr |-> <<>>]
       /\ res' = [NoSeek EXCEPT !.axis = "ms", !.val = r.start, !.end = r.end]
  /\ UNCHANGED <<wvars, cfg, pc, st, part, hint, acc, seenTr>>

-----------------------------------------------------------------------------
Reading ==
  \/ Decode \/ CsvLoop \/ CsvReturn

Next ==
  \/ InitWriter /\ UNCHANGED dvars
  \/ Write /\ UNCHANGED dvars
  \/ WriteFails /\ UNCHANGED dvars
  \/ Flush /\ UNCHANGED dvars
  \/ Close /\ UNCHANGED dvars
  \/ Kill /\ UNCHANGED dvars
  \/ RecordOther /\ UNCHANGED dvars
  \/ RecordEnds /\ UNCHANGED dvars
  \/ Open \/ ReadChunk \/ ReadAll \/ ReadRest \/ Reading
  \/ SeekTime \/ SeekIndex \/ Reset \/ ReadMs

\* A call that was made runs on.
Spec == Init /\ [][Next]_vars /\ WF_vars(Reading)

-----------------------------------------------------------------------------
(* Properties.                                                             *)

\* The time of event i, in a complete decode: aer has the times it is told to
\* make, hdf5 those of the file and its offset, and a clock of 32 bits says
\* nothing about the periods before the first record.
Lost == IF fmt \in {"dat", "aedat1", "aedat2"} THEN Wrap * (origin \div Wrap) ELSE 0

TimeOf(i) ==
  CASE fmt = "aer" /\ cfg.stamps = "zero" -> 0
    [] fmt = "aer" /\ cfg.stamps = "sequential" -> 2 * (i - 1)
    [] fmt = "aer" /\ cfg.stamps = "custom" -> Custom(i)
    [] OTHER -> given[i].t - Lost + cfg.shift

\* How many events are before the decoder, and before the user.
Position ==
  CASE fmt = "csv" -> RowsBefore(st.at)
    [] fmt \in Recorded \cup Packets -> Len(Held(Take(Data, st.pos), "ev"))
    [] OTHER -> st.pos

At == IF pc = "none" THEN 0 ELSE Position - Len(part) - Len(acc.ev)

\* What a closed writer leaves holds every event, and for AEDAT 4 every
\* trigger, of the writes that returned, in order and once.
ClosedHoldsAll ==
  /\ (IF fmt \in Columnar THEN cols.n ELSE Numbers(Held(Data, "ev"))) = Numbers(given)
  /\ Total = Len(given)
  /\ Numbers(Held(Data, "tr")) = Numbers(givenTr)

\* After a kill the file holds a beginning of what was given, no less than
\* what was given when flush() last returned; in csv one torn row may follow.
PromiseKept ==
  LET read == Held(Data, "ev")
      kept == Flat([i \in DOMAIN read |-> IF read[i].n = Torn THEN <<>> ELSE <<read[i]>>]) IN
  /\ IsPrefix(Numbers(kept), Numbers(given))
  /\ Len(kept) >= promised

\* What the writer promised is in the file, however it was left: by close(),
\* or by a kill between any two operations, with any part of what was still
\* buffered written.
FileHoldsAll ==
  /\ Readable => ClosedHoldsAll
  /\ phase = "killed" /\ ~spoilt => PromiseKept

Cursor ==
  INSTANCE EventCursor WITH
    total <- Total, pos <- At,
    window <- IF res.axis = "ms" THEN <<>> ELSE Numbers(win.ev),
    ended <- fmt # "csv" /\ st.eof /\ (Calling => At = Total)

\* Every read hands out the next events, each once and in order, seek and
\* reset move to an event, and is_eof() is said at the end only: not for csv,
\* whose is_eof() is about its input and not its rows (_event_reader.py:540).
IsCursor == [][pc # "none" => Cursor!Read \/ Cursor!Move \/ UNCHANGED Cursor!vars]_vars

TriggersInOrder ==
  Numbers(seenTr) = IF cfg.triggers THEN Numbers(Held(Take(Data, st.pos), "tr")) ELSE <<>>

\* Every event and trigger comes with the time it was recorded with, whatever
\* chunks, seeks and resets there were before; and with read_external_triggers
\* every trigger in front of the decoder has been handed out since the
\* recording was at its start, in order and once.
TimesTrue ==
  /\ res.axis # "ms" => \A e \in ToSet(win.ev) : e.t = TimeOf(e.n)
  /\ \A e \in ToSet(seenTr) : e.t = givenTr[e.n].t - Lost
  /\ pc # "none" => TriggersInOrder

Target(val) == Cardinality({i \in 1 .. Total : TimeOf(i) < val})

\* An index, and in dat, npz and hdf5 a time, is looked up in what the file has
\* for every event.  The binary search of csv for a time reads bytes instead.
LookedUp == res.axis = "n" \/ (res.axis = "t" /\ fmt # "csv")

\* After a seek that looks its target up "the next read_chunk yields events
\* starting at the first event whose timestamp is >= t (or the exact event at
\* index n)", and SeekResult tells which (csv returns the index it was asked
\* for).
LandsOnTarget ==
  LookedUp =>
    /\ At = IF res.axis = "t" THEN Target(res.val) ELSE Smaller(res.val, Total)
    /\ res.ts = IF At < Total THEN TimeOf(At + 1) ELSE res.val
    /\ res.eof <=> At = Total
    /\ fmt # "csv" => res.index = At

Plain ==
  \A r \in ToSet(Data) :
    \/ r.kind = "ev"
    \/ r.kind = "tr" /\ cfg.triggers
    \/ r.kind = "other" /\ fmt \in Packets

\* A chunk with nothing in it means the end to every caller, and read_all()
\* returns all that is left; where every record has something the user asked
\* for.
EmptyMeansEnd ==
  [][Calling /\ pc' = "idle" /\ Plain /\ (pc = "all" \/ win' = Nothing) => At' = Total]_vars

\* read_all(): "Decode and return every remaining event at once" (common.py:154).
ReadAllComplete == [][pc = "all" /\ pc' = "idle" => At' = Total]_vars

\* read() of hdf5: "Events with start_ms * 1000 <= t < end_ms * 1000", for
\* files without an offset.
MsRangeExact ==
  res.axis = "ms" /\ cfg.shift = 0 =>
    Numbers(win.ev) =
      Numbers(SelectSeq(given, LAMBDA e : /\ e.t >= res.val * Ms
                                          /\ res.end # None => e.t < res.end * Ms))

\* Every call returns, whatever the size of a row is to that of the buffer.
CallsReturn == Calling ~> (pc = "idle")
=============================================================================
