----------------------------- MODULE EventWriter ----------------------------
(***************************************************************************)
(* Writing a recording: EventWriter (io/_event_writer.py) and the encoders *)
(* of the formats, whose base class is in io/common.py.  A writer is given *)
(* batches of events (and triggers), is flushed and closed; a write may    *)
(* fail, and the program may be killed while the file is open.             *)
(*                                                                         *)
(* The file of a format that is written as a stream is a sequence of       *)
(* records [kind, over, body]: a csv row, a dat, aer or AEDAT record has   *)
(* one event [n |-> its number, t |-> what the format keeps of its time]   *)
(* as its body, an AEDAT 3 or 4 packet several.  npz and hdf5 have columns *)
(* instead: t, which write() appends first, and n, which stands for the    *)
(* other three.  dat stands for the formats of io/_evt.py too: EvtCodec is *)
(* about what they encode.  The AEDAT 1 to 3 files are recordings of other *)
(* programs, jAER and cAER.                                                *)
(***************************************************************************)
EXTENDS Arrays, SequencesExt

CONSTANTS
  Formats,     \* the formats looked at
  Starts,      \* the time before the first event
  Steps,       \* time from one event to the next
  Wrap,        \* 2^32, the period of the 32-bit clocks
  Ms,          \* a millisecond: the unit of the index of hdf5
  MaxBatch,    \* events of one write
  MaxEvents    \* bound of the model: events and triggers of a recording

ASSUME WriterAssumption ==
  /\ Steps \subseteq Nat /\ Starts \subseteq Nat
  /\ Wrap \in Nat /\ Wrap >= 2 /\ Ms \in Nat \ {0}
  /\ \A d \in Steps : 2 * d < Wrap
  /\ MaxBatch \in Nat /\ MaxEvents \in Nat

Columnar == {"npz", "hdf5"}
Recorded == {"aedat1", "aedat2", "aedat3"}
Packets == {"aedat3", "aedat4"}
Headered == {"csv", "dat", "aedat4"}

None == -1
Torn == 0
MaxHeaders == 2  \* bound of the model: headers in a file

VARIABLES
  fmt,      \* the format (never changes)
  phase,    \* of the file: "open", "closed" or "killed"
  ready,    \* _is_initialized of the encoder
  file,     \* the records written
  cols,     \* the columns t and n
  count,    \* _n_written_events
  ms,       \* _ms_base, _next_ms and _ms_to_idx
  safe,     \* records that have left the process
  now,      \* time of the last event
  origin,   \* time of the first record
  given, givenTr,  \* the events and the triggers whose write() returned
  promised, \* how many of the events were given when flush() returned
  spoilt    \* whether a write() raised and has left something

wvars == <<fmt, phase, ready, file, cols, count, ms, safe, now, origin, given, givenTr,
           promised, spoilt>>

Larger(a, b) == IF a > b THEN a ELSE b
Smaller(a, b) == IF a < b THEN a ELSE b
Before(ts, t) == Len(SelectSeq(ts, LAMBDA s : s < t))

\* The datasets that init() of hdf5 creates, and the spools of npz.
EmptyColumns == [t |-> <<>>, n |-> <<>>]

WriterInit ==
  /\ fmt \in Formats /\ now \in Starts
  /\ phase = "open" /\ ready = FALSE /\ file = <<>>
  /\ cols = EmptyColumns /\ count = 0
  /\ ms = [base |-> None, next |-> 0, idx |-> <<>>]
  /\ safe = 0 /\ origin = None /\ given = <<>> /\ givenTr = <<>> /\ promised = 0
  /\ spoilt = FALSE

-----------------------------------------------------------------------------
(* The formats.                                                            *)

Times(es) == [i \in DOMAIN es |-> es[i].t]
Numbers(es) == [i \in DOMAIN es |-> es[i].n]

\* What is kept of a time: csv and AEDAT 4 all of it, aer nothing, AEDAT 3 has
\* a counter of overflows in the header of a packet.
Half == Wrap \div 2
Overflows(es) == IF fmt = "aedat3" THEN es[1].t \div Half ELSE 0

Raw(t, over) ==
  CASE fmt = "aer" -> 0
    [] fmt \in {"dat", "aedat1", "aedat2"} -> t % Wrap
    [] OTHER -> t - over * Half

Record(kind, es) ==
  [kind |-> kind, over |-> Overflows(es),
   body |-> [i \in DOMAIN es |-> [es[i] EXCEPT !.t = Raw(@, Overflows(es))]]]

Header == [kind |-> "header", over |-> 0, body |-> <<>>]

\* init() of an encoder: npz opens its spools, hdf5 creates its datasets.
Heading == IF fmt \in Headered THEN <<Header>> ELSE <<>>
Begun == IF ready THEN file ELSE file \o Heading

\* What write() makes of a batch: a row for each event, or in AEDAT 4 a packet
\* of the events and one of the triggers, neither of them empty.
Rows(es) == [i \in DOMAIN es |-> Record("ev", <<es[i]>>)]
Packet(kind, items) == IF items = <<>> THEN <<>> ELSE <<Record(kind, items)>>

Encoded(es, trs) ==
  IF fmt = "aedat4" THEN Packet("ev", es) \o Packet("tr", trs) ELSE Rows(es)

\* Mutant of Indexed: the index of a chunk starts at its own first event.
Indexed_Local(ts) ==
  LET base == IF ms.base = None THEN ts[1] \div Ms ELSE ms.base
      max == Last(ts) \div Ms - base
  IN [base |-> base, next |-> max + 1,
      idx |-> [j \in 1 .. Larger(Len(ms.idx), max + 1) |->
                 IF ms.next < j /\ j <= max + 1 THEN Before(ts, (j - 1 + base) * Ms)
                 ELSE ms.idx[j]]]

\* The index of hdf5, extended to the last millisecond of ts.
Indexed(ts) ==
  LET base == IF ms.base = None THEN ts[1] \div Ms ELSE ms.base
      max == Last(ts) \div Ms - base
  IN [base |-> base, next |-> max + 1,
      idx |-> [j \in 1 .. Larger(Len(ms.idx), max + 1) |->
                 IF ms.next < j /\ j <= max + 1
                 THEN count + Before(ts, (j - 1 + base) * Ms)
                 ELSE ms.idx[j]]]

\* A column after a write(): a spool of npz is appended to; a dataset of hdf5
\* is resized to what the encoder has counted, and its end is assigned.
Spooled(col, new) == col \o new
Resized(col, new) == Take(col, count) \o new
Extended(col, new) == IF fmt = "hdf5" THEN Resized(col, new) ELSE Spooled(col, new)

\* close(): the shape in the headers of an npz archive, and the index of hdf5
\* with its last entry.
ArchiveLength == count
EndedIndex == [ms EXCEPT !.idx = Append(@, count)]

-----------------------------------------------------------------------------
(* The batches: events in time order, and for AEDAT 4 triggers.            *)
Arrivals(n, d) ==
  LET time[i \in 0 .. n] == IF i = 0 THEN now ELSE time[i - 1] + d[i]
  IN [i \in 1 .. n |-> [n |-> Len(given) + i, t |-> time[i]]]

Batches ==
  {b \in UNION {[ev : {Arrivals(n, d) : d \in [1 .. n -> Steps]},
                 tr : {<<>>} \cup
                        (IF fmt \in {"aedat4"}
                         THEN {<<[n |-> Len(givenTr) + 1, t |-> now]>>} ELSE {})] :
                  n \in 0 .. MaxBatch} :
     /\ Len(given) + Len(givenTr) + Len(b.ev) + Len(b.tr) <= MaxEvents}

Latest(b) == IF b.ev = <<>> THEN now ELSE Last(b.ev).t

Writing == phase = "open" /\ fmt \notin Recorded

\* init(): csv, whose encoder does not ask whether it is, writes its header
\* again.
InitWriter ==
  /\ Writing
  /\ file' = IF fmt = "csv" THEN file \o Heading ELSE Begun
  /\ Len(SelectSeq(file', LAMBDA r : r.kind = "header")) <= MaxHeaders
  /\ ready' = TRUE
  /\ UNCHANGED <<fmt, phase, cols, count, ms, safe, now, origin, given, givenTr, promised, spoilt>>

Write ==
  /\ Writing
  /\ \E b \in Batches :
       /\ IF fmt \in Columnar
          THEN /\ cols' = [t |-> Extended(cols.t, Times(b.ev)),
                           n |-> Extended(cols.n, Numbers(b.ev))]
               /\ ms' = IF fmt = "hdf5" /\ b.ev # <<>> THEN Indexed(Times(b.ev)) ELSE ms
               /\ UNCHANGED file
          ELSE /\ file' = Begun \o Encoded(b.ev, b.tr)
               /\ UNCHANGED <<cols, ms>>
       /\ count' = count + Len(b.ev)
       /\ origin' = IF origin = None /\ b.ev # <<>> THEN b.ev[1].t ELSE origin
       /\ given' = given \o b.ev /\ givenTr' = givenTr \o b.tr
       /\ now' = Latest(b)
  /\ ready' = TRUE
  /\ UNCHANGED <<fmt, phase, safe, promised, spoilt>>

\* write() raises: a field of the batch is missing or of another length.  npz
\* and hdf5 have stored t by then, and hdf5 the index; AEDAT 4 the events when
\* it is the triggers; the others encode a batch before they write it.  The
\* next batch may be the same one again, in columns it is a later one.
WriteFails ==
  /\ Writing /\ ~spoilt
  /\ \E b \in Batches :
       /\ b.ev # <<>> /\ (fmt = "aedat4" => b.tr # <<>>)
       /\ cols' = IF fmt \in Columnar
                  THEN [cols EXCEPT !.t = Extended(@, Times(b.ev))] ELSE cols
       /\ ms' = IF fmt = "hdf5" THEN Indexed(Times(b.ev)) ELSE ms
       /\ file' = IF fmt = "aedat4" THEN Begun \o Encoded(b.ev, <<>>) ELSE Begun
       /\ now' = IF fmt \in Columnar THEN Latest(b) ELSE now
  /\ ready' = TRUE
  /\ spoilt' = (fmt \in Columnar \cup {"aedat4"})
  /\ UNCHANGED <<fmt, phase, count, safe, origin, given, givenTr, promised>>

\* Mutant: the stream is not flushed.
Flush_Nothing ==
  /\ Writing /\ fmt \notin Columnar
  /\ promised' = Len(given)
  /\ UNCHANGED <<fmt, phase, ready, file, cols, count, ms, safe, now, origin, given, givenTr,
                 spoilt>>

\* flush(): npz keeps everything to itself until close(), and what hdf5
\* guarantees is up to its library.
Flush ==
  /\ Writing /\ fmt \notin Columnar
  /\ safe' = Len(file) /\ promised' = Len(given)
  /\ UNCHANGED <<fmt, phase, ready, file, cols, count, ms, now, origin, given, givenTr,
                 spoilt>>

\* close(): npz makes its archive, hdf5 ends its index; the other encoders
\* only flush, whether or not they have written a header.
Close ==
  /\ Writing
  /\ phase' = "closed" /\ safe' = Len(file) /\ promised' = Len(given)
  /\ ready' = (ready \/ fmt \in Columnar)
  /\ ms' = IF fmt = "hdf5" THEN EndedIndex ELSE ms
  /\ UNCHANGED <<fmt, file, cols, count, now, origin, given, givenTr, spoilt>>

\* The program is killed: what it buffered is lost from some byte on.  csv has
\* no record structure, so the row that is cut in two counts as a row.
Kill ==
  /\ Writing /\ fmt \notin Columnar
  /\ phase' = "killed"
  /\ \E k \in safe .. Len(file) :
       \/ file' = Take(file, k)
       \/ /\ fmt = "csv" /\ k < Len(file)
          /\ file' = Append(Take(file, k), [kind |-> "ev", over |-> 0,
                                            body |-> <<[n |-> Torn, t |-> 0]>>])
  /\ UNCHANGED <<fmt, ready, cols, count, ms, safe, now, origin, given, givenTr, promised,
                 spoilt>>

-----------------------------------------------------------------------------
(* A recording of another program: one record, or packet, after the other. *)
(* Only AEDAT 2 and 3 have triggers and records of other kinds; a packet   *)
(* lies within one overflow of the clock.                                  *)
RecordOther ==
  /\ phase = "open" /\ fmt \in Recorded
  /\ Len(file) < MaxEvents
  /\ \E kind \in (IF fmt = "aedat1" THEN {"ev"} ELSE {"ev", "tr", "other"}) :
       \E n \in 1 .. (IF fmt = "aedat3" /\ kind = "ev" THEN MaxBatch ELSE 1) :
       \E d \in [1 .. n -> Steps] :
         LET es == Arrivals(n, d)
             tr == <<[n |-> Len(givenTr) + 1, t |-> es[1].t]>>
         IN /\ Len(given) + Len(givenTr) + n <= MaxEvents
            /\ fmt = "aedat3" => Overflows(es) = es[n].t \div Half
            /\ file' = Append(file, Record(kind, IF kind = "tr" THEN tr ELSE es))
            /\ given' = IF kind = "ev" THEN given \o es ELSE given
            /\ givenTr' = IF kind = "tr" THEN givenTr \o tr ELSE givenTr
            /\ now' = Last(es).t
            /\ origin' = IF origin = None THEN es[1].t ELSE origin
  /\ UNCHANGED <<fmt, phase, ready, cols, count, ms, safe, promised, spoilt>>

RecordEnds ==
  /\ phase = "open" /\ fmt \in Recorded
  /\ phase' = "closed"
  /\ UNCHANGED <<fmt, ready, file, cols, count, ms, safe, now, origin, given, givenTr, promised,
                 spoilt>>

Work ==
  \/ InitWriter \/ Write \/ WriteFails \/ Flush \/ Close \/ Kill
  \/ RecordOther \/ RecordEnds
=============================================================================
