# A TLA+ model of evutils

`evutils` reads, writes and processes the recordings of event cameras. Its
core is `evutils.io`: decoders for a dozen file formats, C parsers behind them,
and an `EventReader` that turns any of them into a stream of windows that is
bounded by time, by count or by both, can be rewound and repositioned, and can
be decoded ahead in a background thread. This directory models that core. The
arithmetic on arrays around it (transforms, filters, dense frames, plots) has
no protocol and is left out.

Paths below are relative to `src/src/evutils/` unless they start with `csrc/`,
which is `src/csrc/`.

## Inventory

| Component | State | Operations | What is hard | What makes it correct |
|---|---|---|---|---|
| `PrefetchIterator` (`io/_prefetch.py`) | bounded queue, stop event, stored exception, `_finished` | worker loop, `__next__`, `close` | a worker thread, a queue that fills up, put timeouts, cancellation, a join that times out | same chunks in the same order, the exception where it occurred, nobody blocks, nobody else enters the decoder |
| `EventReader` (`io/_event_reader.py`) | staging accumulator, overshoot carry, clock of the windows, normalization origin, event counter, `_eof`, buffer ring | `read`, `__iter__`, `read_all`, `reset`, `seek`, `is_eof` | four reading paths with different state, chosen per call; seeks that reposition all of it | windows are exact and consecutive, nothing is lost or repeated, every loop ends |
| Decoders (`io/_evt.py`, `_dat.py`, `_aer.py`, `_npz.py`, `_csv.py`, `_hdf5.py`, `_aedat.py`, contract in `common.py`) | position in the words, parser state, `_eof`, index | `init`, `parse_step` or `read_chunk`, `parse_step_delta_t`, `seek`, `reset` | padded tails, look-ahead, sources that cannot seek | progress, no event skipped, a seek lands on its target |
| C parsers (`csrc/*.c`) | clock, row and vector base of the format | `*_parse_chunk_soa`, `EVT3_parse_delta_t_soa` | wrap-around of the clock, output headroom, words split between calls | decoding in pieces equals decoding at once |
| `EventAccumulator` (`io/buffer.py`) | arrays, start and size, capacity | `prepare`, `append`, `slice_copy`, `_rotate`, `reset` | moving and growing in place | the unconsumed events survive |
| Stream generators (`chunking.py`, `io/stream.py`) | accumulator, clock, trigger flag | `stream_delta_t`, `stream_n_events`, skips, `stream_async` | events and triggers cut together; a second thread | the chunks concatenate to the stream |
| Seek index (`io/_index.py`) | bookmarks, built lazily | `bookmark_for_time`, `bookmark_for_event` | built in pieces, by a parser that looks ahead | a bookmark never lies behind its target |
| `EventWriter` and encoders (`io/_event_writer.py`, `encoders.py`) | header written, last time base | `write`, `flush`, `close` | lazy header, state between writes | what is written reads back |
| Byte sources, compression, native bindings, containers, transforms, dense, vis, torch, dataset | | | plain I/O, declarations or pure functions | |

The reader calls the decoder (`_pull`, `parse_step`, `seek`, `reset`), which
calls a C parser on a view of the byte source. Under `async_read` the reader
wraps its own generator `_iter_sync` in a `PrefetchIterator`, whose worker then
owns the reader's state, and refuses direct reads while it is alive. Threads
share the queue, the stop event, `_finished`, `_exc` and the reader's
`_active_prefetch`.

## Modules

| Module | Models |
|---|---|
| `PlainIteration` | what a prefetching iterator promises: iterating the source directly |
| `Prefetch` | `PrefetchIterator`, the reader's guard and the ring of recycled buffers |
| `PrefetchProofs` | theorems about `Prefetch` |
| `EventCursor` | what a reader is to its user: a cursor in a recording |
| `EventReader` | `EventReader` over an abstract decoder of each kind |
| `EventQueues` | what an accumulator is to its user: a queue of events and one of triggers |
| `Accumulator` | `EventAccumulator` |
| `AccumulatorProofs` | theorems about `Accumulator` |
| `MCEventReader` | small recordings and readers for `EventReader` |
| `Arrays` | slices and concatenations of arrays |
| `ArrayLemmas` | induction on numbers for the proofs, and what it says of functions on words and of concatenations |
| `EventReaderProofs` | theorems about `EventReader` |
| `EvtFormats` | the words of EVT2, EVT2.1, EVT3 and EVT4 and their C parsers, as operators |
| `EvtCodec` | `EventEncoder_EVT`, or a camera, writing a recording; `EventDecoder_EVT` reading it back; extends `EvtFormats` |
| `EvtCodecProofs` | theorems about `EvtCodec` and the parsers of `EvtFormats` |
| `EvtSeek` | `IncrementalSeekIndex` and `EventDecoder_EVT.seek`; extends `EvtCodec` |
| `EventStreams` | the generators of `chunking.py` over `EventStreamer`, `stream_async` with its thread |
| `StreamLemmas` | what cutting and joining chunks does, for the proofs |
| `EventStreamsProofs` | theorems about `EventStreams` |
| `EventWriter` | `EventWriter` and the encoders of every other format, failures and a kill |
| `Decoders` | the decoders of csv, dat, aer, npz, hdf5 and AEDAT 1 to 4; extends `EventWriter` |
| `DecodersProofs` | theorems about `Decoders` |
| `MCDecoders` | constants for `Decoders` |

Operators whose name has a suffix after an underscore (`Put_Unbounded`,
`DtReturn_CapAdvances`) are mutants: each is the definition named before the
underscore with a bug one could plausibly write, and shows that some property
would notice it. No specification uses them.

### Prefetch

A chunk is its number in the source. `chunks` and `fails` describe the source:
how many chunks it yields and whether it raises after them. The worker is a
program counter (`worker`): `decode` while it is inside the source, that is,
inside the reader's decoder; `check` at the loop condition of `_put`; `put` in
`queue.put(timeout=0.1)`; `close` at the start of the `finally` block; `done`.
Each user thread has one too (`user`): `get` and `join` inside `__next__`;
`drain` and `closing` inside `close`; `finish`, `set`, `callback` inside
`_finish`; `reading` inside `read` or `read_all`. Steps are cut where a thread
can be preempted and another one sees the difference: between the test of the
stop event and the put, between the test of `_finished` and its assignment, and
between that and the callback which clears the reader's guard. A put that times
out is `PutFull`, enabled while the queue is full, so the number of retries is
unbounded. The join of `close` waits five seconds: `TimedJoin` may happen before
the worker is done, as a source can take longer than that for one chunk.

`Slot(k)` is the buffer of the ring that window `k` is decoded into with
`reuse_buffers`. Iterating is the only way windows are acquired here; the
restart of the ring on a reset is not modelled.

### EventReader

A recording is a sequence of words, with the parser's clock after each word
(`tick`), the number of events decoded so far (`cum`) and the events'
timestamps (`ts`). A row of a table, a scalar word, a word that only sets the
time and a vector word are all words with one, none or several events. An event
is its number, so that lost, repeated and reordered events show at once.

A reader is made with the arguments it was asked for (`asked`): `Accepted` says
which are refused, `ResolvedMode`, `ResolvedDeltaT` and `ResolvedNEvents` what the
others come to, with the defaults and the two limits that stand for no limit
(`MaxTime`, `MaxEvents`).

The decoders differ in `kind`, and in what the reader can observe: whether
events come from `parse_step` or `read_chunk`; how much headroom the parser keeps
(`Headroom`); whether it leaves a padded tail (`TailPad`); whether it cuts
windows itself (`HasDeltaTParser`); where its `seek` and its `reset` leave it
(`SeekLands`, `Rewound`). DAT and AER behave as `evt2` for the reader, except
that a DAT seek comes down on its target. `WordsAssumption` is what words are: a
row is one event, a word of EVT2 at most one, and in EVT3 a word that decodes to
events does not change the clock.

One read is a sequence of steps, one per iteration of the loops in the code:
`Read` or `IterNext` chooses the path (`_read_impl`), and then

| `pc` | code | actions |
|---|---|---|
| `count` | `_read_n_events_fast` | `CountDecode`, `CountReturn` |
| `chunk` | `_read_n_events_readchunk` | `ChunkReturn` |
| `seed`, `dt_anchor`, `dt_loop` | `_read_delta_t_fast` | `Seed`, `DtDecode`, `DtAnchor`, `DtNothing`, `DtReturn` |
| `peek`, `window` | `_read_delta_t_c` | `Peek`, `PeekNothing`, `OpenWindow`, `WindowDone`, `WindowTail`, `WindowInput`, `WindowGrow`, `WindowCapped` |
| `anchor`, `gather` | the rest of `_read_impl` | `Fill`, `Anchor`, `GatherNothing`, `GatherCut`, `GatherDrained` |

`read_all`, `reset` and `seek` have no loop whose end is in question and are one
action each. `Seek` covers absolute and relative targets, the decoder's own seek
(`SeekTime`, `SeekIndex`) and the linear fallback (`LinearSeekTime`,
`LinearSeekIndex`). The variables `base`, `got`, `win` and `origins` are history:
where the last seek came down (0 after a reset), what was handed out since, the
last window and how it was cut, and the timestamps by which windows were
normalized. What `read_all` returns is no window; the shift of its first event to
`start_ts` is not recorded.

Left out: external triggers and batch mode (a second array that is cut the same
way), pacing by the wall clock, the growth of the decode estimates (`Step` and
`DtStep` are constants; `OpenWindow` chooses between two sizes), targets before
time 0 and past the last event, and the composition with `Prefetch`, which owns
the reader as a whole while it is active.

### Accumulator

An array of `Accumulator` is a record: its cells, the offset `start` before which
everything is consumed, `size` and capacity. The four columns (`t`, `x`, `y`, `p`)
are always moved and sized together and are one. A cell holds the number of an
event, so a cell that was overwritten, left behind or never written shows.
`Front` is the `memmove` of `_rotate`, `Grow` a reallocation that copies up to
`size`; `RoomFor` and `TriggerRoomFor` are the two ways to make room. `Prepare`
and `AppendChunk` keep the order of the code: `_rotate` moves both arrays, so
making room for events may already have made room for triggers, and making
room for triggers moves the events once more. `limit` is `_buf.c.capacity`, and
`parsing` the time between `prepare` and the parser's return, in which the
reader does nothing else. Memory that `np.empty` returns is `Junk`, which is the
number of no element. `EventReader` stages events in `EventQueues`' first queue.

### EvtFormats, EvtCodec and EvtSeek

A word is a record that names its kind; a clock has a high part below `H` and a
low part below `L`, so it wraps after `H * L`. A parser is an operator on its
state (`hh` and `high` of the clock, `ts`, `y` and `vx` of EVT3), one turn of the
loop of `csrc/evt*.c` at a time: `StepEvt2`, `StepEvt21`, `StepEvt3`, `StepEvt4`.
`Run` is one call of the C function, with its stops (`Full`, `Dry`); `ParseStep`
is `parse_step` of `_native_core.py`, with the padded copy for the tail.

`EvtCodec` composes encoder, file and decoder. The encoder's `enc` is what
`get_raw_*_buffer` carries from one event, or write, to the next. A camera is
external: it repeats time words, sends vectors, triggers and words that have no
meaning, and its file may begin in the middle of a record and end in one.
`Open` is `init`; `Call` chooses `read_chunk` or `read_all`; each turn of their
loops is a step (`ChunkStep`, `AllStep`). `truth` is what the words say, `got`
what the decoder handed out.

`EvtSeek` adds `seek`. `SeekBegin` ensures the index; `OpenSegment`, `BuildStep` and
`CloseSegment` are the loop of `_build_until`, with the residue of a slice
(`Residue`); `Jump` resets the parser at the bookmark; `Scan` decodes on to the
target, correcting the clock (`Correction`); `ScanEnd` is the end of the words.
Reads, `reset` and further seeks may come in any order, so the index that is
extended is often one an earlier seek has begun.

Polarity travels with `x`. The widths of the columns and the sizes of the
buffers are constants. Triggers are not requested in `EvtSeek`.

### EventStreams

A pipeline is chosen initially: with or without triggers, with or without
`stream_async`, a skipping stage (`stream_skip_to_time`, `stream_skip_to_event`)
and a cutting stage (`stream_delta_t`, `stream_n_events`). The chunks come from
the decoder, whose buffers (`buf`) the next chunk overwrites. `WorkerPull`,
`WorkerStops` and `WorkerPut` are the thread of `stream_async`; `ConsumerPull` and
`ConsumerStops` take their place without
one; `ConsumerGet`, `CutTime`, `CutCount` and `Rest` are the cutting generator;
`Ask` and `Abandon` are the loop that consumes it. The file is external: what is
decoded so far is `file`, to which a chunk adds up to `MaxChunk` items (`Chunks`,
`Decoded`), and with `skew` one kind may be ahead of the other. `out` keeps every
window with the end it was cut at, so that a property can compare what came
through (`Passed`: handed out, waiting to be cut, queued and being put) with the
file.
`WindowDeltaT`, `SlidingWindow` and `GetDtEvents` are the functions on whole
arrays, and the reference for the streams.

### EventWriter and Decoders

A file of a format that is a stream is a sequence of records, an npz or hdf5
file two columns: `t`, which the code appends first, and `n`, which stands for
the other three. `Write`, `Flush`, `Close` are the writer's operations; `InitWriter` is the
explicit `init()`; `WriteFails` is a `write` that raises half way, with what it
leaves; `Kill` ends the process with some part of the buffered bytes written.
`Indexed` is the millisecond index of hdf5. The AEDAT 1 to 3 files are of other
programs (`RecordOther`).

`Decoders` opens a file that was closed and not spoilt by a failed write. A call
of `read_chunk` or `read_all` begins with `ReadChunk` or `ReadAll`; `Decode` is one
chunk of a format (`NpzChunk`, `Hdf5Chunk`, `RecordsChunk`, `AerChunk`,
`PacketChunk`); csv has a loop of its own over a buffer of bytes (`CsvLoop`,
`CsvReturn`). `ReadRest` is the `read_all` of the three formats that have their
own. `Seek` covers the four formats that can, with the buckets of wrapped clocks
of dat (`IndexOfTime`) and the binary search over csv lines (`ByteOfTime`).
`ReadMs` is `read(start_ms, end_ms)` of hdf5.

## Runs

| Run | Checks | Result |
|---|---|---|
| `Prefetch_one_user` | types, order, buffers, exclusion until `close` (`ExclusiveUntilClosed`), every call returns, `close` releases, refinement of `PlainIteration` | holds |
| `Accumulator` | types, `PrepareGivesRoom`, `HoldsNewest`, `GrowsOnlyIfNeeded`, refinement of `EventQueues` | holds |
| `EventReader_calls` | types, `Lossless`, `WindowExact`, `ClockBehindCursor`, `CounterIsCursor`, `SeeksKeepOrigin`, refinement of `EventCursor`, `IterationEnds` | holds |
| `EvtCodec` | types and `WithinCapacity`, `Faithful`, `Complete`, `EmptyMeansEnd` | holds |
| `EvtSeek` | `IndexExact`, `ResumesExactly`, `SkipsNothingLater` | holds |
| `EventStreams` | `NothingLost` (with `SkipKeepsTriggers`), `WindowsPerfect` (`TimeWindows` and `CountWindows`), `EndIsTrue`, `ChunksDoNotMatter` (with `ArraysExact`), `BothEnd` | holds |
| `Decoders` | `FileHoldsAll` (`ClosedHoldsAll`, and `PromiseKept` after a kill), `TimesTrue` (with `TriggersInOrder`), `LandsOnTarget` (of `LookedUp` targets), `MsRangeExact`, steps of `EventCursor`, `EmptyMeansEnd`, `CallsReturn` | holds |
| `Prefetch_join_times_out` | `NoConcurrentDecoder`: nobody decodes beside the worker, also after a `close` | violated |
| `EventReader_tail_lost` | `EofComplete`, with events in the padded tail of an EVT3 file | violated |
| `EvtCodec_same_low` | `Faithful`, with events a whole turn of the low clock apart | violated |
| `EvtSeek_same_time` | `LandsOnTarget`: a seek comes down on the first event at or behind its target | violated |
| `Decoders_trigger_packet` | `ReadAllComplete`, for AEDAT 4 read without its triggers | violated |

**Bounds of Prefetch.** Five chunks and a queue of two: the source is longer
than the queue, the item the worker holds and the chunk the consumer holds
together, so the queue fills, the put times out and is retried, and the ring of
four buffers wraps around. Sources of every length up to five that end or raise
are all initial states. The theorems below cover any length, any depth and any
number of threads. `Prefetch_join_times_out` has the same bounds.

**Bounds of EventReader.** The recordings have up to nine words and five events,
with equal timestamps at the start and at the end and a silent gap longer than
a window, so that windows are cut at a tie, at their last event, and empty. Readers are asked for by each
mode, by both arguments, by either and by none. A
window is 2 time units, or 5 by override, and holds up to 4 events, or 1 by
override, so that either cut can come first. A parse step yields 3 or 4 events
with a headroom of 2 and a padding of 2 (in the code 64 and 4): one step
overshoots a window, and one window needs more than one step. Targets of seeks
lie at the beginning, within the recording and, by a shift, before the clock and
before the counter. No `read()` starts, and no relative seek goes, beyond
`MaxCur`, which is the last time of a recording; iterating goes on. Sources that
cannot seek are in the run for npz and hdf5 and for EVT2, whose words are in
memory; csv over a pipe, which a reset empties, is not.

**Bounds of Accumulator.** Three cells for events and one for triggers, headrooms
of 2 and 5 and chunks of 0 and 2, five events and three triggers in all: room
is found at once, by reclaiming, by reallocating, and by both, for either array
and for one because of the other; `Ratio` is 2 (16 in the code). The theorems
cover every value of these.

**Bounds of EvtCodec and EvtSeek.** A clock of 3 * 2 values (2^12 * 2^12 in
EVT3) and up to five writes with steps of 0, 1 and 3: the high part wraps, and so
may the clock twice. A vector has three columns, the headroom is 4, chunks
have 6 cells and triggers 2, so that a chunk ends in the middle of a recording,
with a full trigger buffer, and with only the tail left. A chunk has room for
the headroom and the columns of a padding of words (64 and 4 * 12 in the code,
whose decoder refuses a `chunk_size` below 128). In `EvtCodec` every two
consecutive events lie less than a period apart, which the formats cannot do
without, and the low part changes with the high part: `EvtCodec_same_low` drops the latter.
The theorems below cover every size and any number of writes.
`EvtSeek` has up to four writes, segments of two words (2^16 in the code) and
targets before, in and behind the recording; its encoder's steps are 0 and 3.
`EvtSeek_same_time` needs one step of 0 only, two columns and two targets.

**Bounds of EventStreams.** Three events and triggers (`MaxItems`) in chunks of up
to two (`MaxChunk`) and one empty chunk (`MaxBlanks`), steps of 0, 1 and 3 with windows of 2: a window may be empty,
end at a tie, or span chunks. A queue of one is full as soon as the consumer
holds a window. Larger numbers repeat these cases, and the theorems below cover
them all.

**Bounds of Decoders.** Three events and triggers, written in batches of up to
two, read in chunks of two or, by a hint, one. The times begin at 5 and a clock
of 32 bits has 8 values, so that it wraps in most recordings. The csv blocks (3
bytes, refilled below 2) are shorter than two rows, and rows have two lengths,
so that the buffer ends within a row. `Starts`, `TOffsets`, `SeekTimes` and
`MsRanges` lie before, within and behind the recording; `MaxHeaders` bounds a
second `init` of csv.

**Fairness.** `Accumulator`, `EvtCodec` and `EvtSeek` have no liveness and none.
`EventStreams!Spec` is weakly fair to the worker thread, which the operating
system runs, and to the consumer, which goes on asking unless it abandons the
generator (nothing forces it to ask, but `BothEnd` says only what
happens to one that does). `Decoders!Spec` is weakly fair to the steps of a call
that was made, and to nothing the user decides. `Prefetch!FairSpec` is weakly fair to the worker and to
each user thread inside a call: the operating system runs every thread, `queue.put` has a
timeout and the source returns from each `next`. Whether to call at all is the
user's choice and has no fairness. `EventReader!FairSpec` is weakly fair to the
steps of a call that was entered, and strongly fair to the loop that iterates
the reader: the body of a `for` may call the reader itself, and does so finitely
often before it asks for the next window. A body that resets or repositions the
reader for ever makes the loop endless, which `IterationEnds` excepts.

## What the runs show to be otherwise

- `parse_step_delta_t` skips the events of the padded tail that lie behind the
  window it is filling (`_evt.py:564`, run `EventReader_tail_lost`).
- The EVT3 encoder leaves out `TIME_LOW` when the low bits repeat although the
  high part changed, and the decoder sets the time at `TIME_LOW` alone: such an
  event gets its predecessor's time (`_evt.py:912`, run `EvtCodec_same_low`).
- `close()` waits five seconds for the worker and then releases the reader
  whether or not the worker has left the decoder: a `read()` decodes beside it
  (`_prefetch.py:133`, run `Prefetch_join_times_out`).
- A time seek skips events at exactly the target's time when a `TIME_HIGH` word
  stands between them, for it starts from the bookmark behind it (`_index.py:242`,
  run `EvtSeek_same_time`).
- An AEDAT batch without events, read without triggers, is an empty chunk in the
  middle of the file; `read_all`, `EventStreamer` and the reader take it for the
  end (`_aedat.py:544`, run `Decoders_trigger_packet`). A batch of nothing but
  frames or other records in AEDAT 2 does the same.

Seen while modelling, and shown by no run: what the properties say leaves these
cases out, as their comments and the notes of the hazards in `PROJECT.json` say.

In the reader and the prefetcher:

- The ring of `prefetch_depth + 2` buffers protects the window received last;
  the documentation promises it for `prefetch_depth` further windows
  (`_event_reader.py:82`). After a `close()` not even that: the worker may decode
  one window more.
- With `max_events` up to 64, the EVT3 window parser has no room for a single
  event and iterating never ends (`csrc/evt3.c:273`).
- A second linear seek discards what was staged and then counts as if it had not:
  it comes down behind its target (`_event_reader.py:1210`).
- `_read_n_events_readchunk` takes the landing of a seek for the start of the
  recording when the counter is 0, as it is after a time seek in a CSV file
  (`_event_reader.py:545`).
- `reset()` empties a CSV reader over a pipe (`_csv.py:323`); `read_all` normalizes
  by the first event it returns (`_event_reader.py:1038`); a count-capped EVT3
  window keeps its time window while the accumulator path, which a comment
  likens it to, moves on to the next event (`_event_reader.py:783`); `_finish` may
  call back twice when two threads finish an iterator together
  (`_prefetch.py:137`).

In the Prophesee formats:

- After a seek in EVT3 the parser's row is 0 until the next row word, which the
  encoder writes only when the row changes (`_evt.py:760`).
- A silent gap longer than a clock's period loses the periods: the formats have
  no other way to say it.
- The flush of the padded tail ends at a stray `VECT_8` and drops what follows
  (`_native_core.py:226`).
- A mask word of EVT4 whose top bits are those of `TIME_HIGH` is taken for one by
  the search for a segment's start (`_index.py:153`, `_evt.py:439`).
- `seek` corrects the times of events, not those of triggers (`_evt.py:491`), and
  `seek(n)` past the end reports the index asked for (`_evt.py:772`).

In the other formats:

- A time seek in csv misses the last event when its line is longer than the one
  before (`_csv.py:292`); `seek(n)` counts blank lines, and reports the index asked
  for past the end; `is_eof()` is true while rows are still buffered
  (`_csv.py:151`).
- DAT takes any step back for a wrap of 2^32 (`csrc/dat.c:45`), where AEDAT asks
  for half the period; a negative target lands at the end (`_dat.py:247`); the
  docstring still "Assumes" no wrap (`_dat.py:227`). A first time of 2^32 or more
  loses its base.
- `read(start_ms, end_ms)` of hdf5 ignores `t_offset` (`_hdf5.py:198`).
- A `write` that raises half way leaves npz and hdf5 columns of different
  lengths and an AEDAT 4 file that holds the events but not the triggers, so
  that a retry writes them twice; `init()` of csv writes its header again, and
  reads it back as an event (`_csv.py:364`); a writer that was never written to
  leaves an empty file although a comment promises a header
  (`_event_writer.py:224`); npz keeps everything to itself until `close`; a killed
  csv writer may leave half a row.

In the stream generators:

- A consumer that abandons `stream_async` leaves its thread blocked for good
  (`chunking.py:323`), and an exception loses what a cutting stage held.
- With triggers the windows of `stream_delta_t` begin at the first event of the
  chunks so far, or at a trigger when there is none, and `stream_n_events` cuts
  triggers at the first chunk with enough events: both depend on how the file
  was read.
- `stream_skip_to_time` drops the triggers of a chunk that has no event late
  enough (`chunking.py:266`), `stream_skip_to_event(0)` a chunk of triggers
  (`chunking.py:292`).

## Proofs

`PrefetchProofs` proves for every number of chunks, queue depth and set of user
threads:

| Theorem | States |
|---|---|
| `TypeCorrect` | `Spec => []TypeOK` |
| `SameChunks` | `Spec => []SameChunksInOrder` |
| `WindowIntact` | `Spec => []CurrentWindowIntact` |
| `DecoderIsExclusive` | `Spec => []ExclusiveUntilClosed` |
| `PrefetchImplementsPlain` | `Spec => IteratesLikeSource`, assuming a single user thread |

The extra assumption is needed: two threads that share an iterator may end it in
both ways at once, which plain iteration cannot.

None of the properties is inductive. `OrderInv` strengthens the first two
invariants: the received chunks are increasing (`GotInv`), the queue continues
them (`QueueInv`), the item in the worker's hand continues the queue
(`LinkInv`), nothing waits once the worker is done (`WaitInv`), and as long as
nobody closes there is no gap between any two of them (`GapInv`, `DrainInv`). From
`OrderInv` follows that the window received last lies at most `Depth + 1` windows
before the one being decoded, and `DistinctSlots` (two numbers less than `n`
apart differ modulo `n`) gives `CurrentWindowIntact`. `GuardInv` says that the
guard is down, or a thread about to lower it, only when the worker is done, until
somebody calls `close()`.
`PlainInv` ties the end of the iteration to the end of the source: `exc` is what
the source did, the sentinel is the last thing in the queue, and a user about to
finish by `next` has received everything.

`AccumulatorProofs` proves for every capacity, ratio, set of headrooms and chunk
lengths and any number of elements:

| Theorem | States |
|---|---|
| `AccumulatorTypeCorrect` | `Spec => []TypeOK` |
| `AccumulatorGivesRoom` | `Spec => []PrepareGivesRoom` |
| `AccumulatorHoldsNewest` | `Spec => []HoldsNewest` |
| `AccumulatorGrowsOnlyIfNeeded` | `Spec => GrowsOnlyIfNeeded` |
| `AccumulatorIsTwoQueues` | `Spec => IsTwoQueues` |

Here `TypeOK`, `PrepareGivesRoom` and `HoldsNewest` together are inductive. The
argument is about one array: `FrontFacts` and `GrowFacts` say that moving and
reallocating keep the unconsumed elements, `RoomFacts` that they find the room
and when they reallocate, `WriteFacts` and `ConsumeFacts` that writing extends
and consuming shortens the queue. `PrepareFacts`, `AppendFacts`, `SliceFacts`
and `ResetFacts` compose them for the two arrays, and `StepFacts` is the step
of the refinement.

`EventReaderProofs` proves for every recording, kind of decoder, argument, size
of a step, reserve and padding, and every sequence of calls and overrides:

| Theorem | States | Also assumes |
|---|---|---|
| `ReaderTypeCorrect` | `Spec => []TypeOK` | |
| `ReaderLossless` | `Spec => []Lossless` | `SteadySources` |
| `ReaderWindowExact` | `Spec => []WindowExact` | `SteadySources` |
| `ReaderClockBehindCursor` | `Spec => []ClockBehindCursor` | `SteadySources` |
| `ReaderEofComplete` | `Spec => []EofComplete` | `SteadySources` |
| `ReaderCounterIsCursor` | `Spec => []CounterIsCursor` | |
| `ReaderKeepsOrigin` | `Spec => []SeeksKeepOrigin` | |
| `ReaderIsCursor` | `Spec => ReadsLikeCursor`, the refinement of `EventCursor` | `SteadySources` |

All of them assume `QuietTails`: in mode `delta_t` the last `Pad` words of an EVT3
recording carry no events. Without it `EofComplete` is false, as the run
`EventReader_tail_lost` shows; real recordings end with other words, but nothing
in the code makes sure of it. `SteadySources` says that nobody
resets a reader of a csv file that cannot seek: the source is read once more,
from where it is, and nothing is left of it. Every other reader over such a
source is covered, also one that seeks by reading; `base` is then where the seek
came down, which may be behind its target (see above).

The inductive invariant `Inv` rests on one observation, `BufferInv`: each of the
three buffers (`acc`, `carry`, `out`) holds the last events that were decoded, and
at most one of them holds any; which one depends on where the call is. So the
events decoded and not handed out are numbered from `Here` on, and a read that
moves events from the decoder to a buffer, from one buffer to another, or to the
user, is an equation between runs of numbers (`RunConcat`, `RunCut`). `GotInv` ties
what the user got to `Here`, `CounterInv` the counter, `ClockInv` the clock,
`EofInv` the end, `OriginInv` the normalization; `FillInv` bounds the window a
parser is filling and `WindowInv` is `WindowExact` for the window handed out last;
`PathInv` says which decoders take which path. Each action is proved on its own,
and `CursorStep` maps it to a step of the cursor.

`EventStreamsProofs` proves, with no assumption beyond those on the constants
(`StreamsAssumption`), for every file and chunking, duration, number of events,
place to skip to, size of the queue and pipeline:

| Theorem | States |
|---|---|
| `StreamsLoseNothing` | `Spec => []NothingLost` |
| `StreamsEndIsTrue` | `Spec => []EndIsTrue` |
| `StreamsCutPerfect` | `Spec => []WindowsPerfect` |

What the worker has put or is putting is a sequence of chunks (`Flight`), and the
parts of the invariant are predicates on sequences of chunks, so that a lemma
about them holds wherever the chunks are. `StreamsCore` proves the first four:
`TypeInv`; `EndInv`, who runs when and that only the sentinel follows an error
in the queue; `OrderInv`, that everything on its way comes from the file and what
is in flight follows, in time, what is in front of it; `KeptInv`, that what comes
through is the file from the place on where a skipping stage stopped. `TimeInv`
and `CountInv` are about the windows: those handed out, what waits to be cut,
and, for the next window to be right, that nothing in flight lies in front of
its beginning. That is so because the file has come as far as that (`Reached`)
and what is decoded later follows it. `Spec`'s fairness is not used.

`DecodersProofs` proves, for every format but those of the Prophesee family (which
are `EvtCodec`), every batch, step of time, number of writes and place of a kill:

| Theorem | States |
|---|---|
| `FileAlwaysHoldsAll` | `Spec => []FileHoldsAll` |

`WInv` is about the writer, whom no call of a decoder disturbs (`WriterRests`).
`Numbered` says that what is given is numbered from one, `ColumnsInv` and
`RecordsInv` that the columns, or the records of the file, hold exactly those
numbers as long as no write failed half way; `SafeInv` ties what has left the
process to what `flush` promised, and `KilledInv` says what is left of the file
after a kill. The last one is the hard one: an operating system may have written
any part of the buffer, and a record may be cut in two, so `CutHeld` and
`KilledHeld` follow the events through a cut at any place. The proof needs of the
constants what `WriterAssumption` says; a clock that wraps has two values at
least.

`EvtCodecProofs` proves, for each of the four formats, every size of the clock
and of a vector, headroom, padding, buffer, set of addresses, of columns and of
steps of time, and any number of writes of an encoder or a camera:

| Theorem | States | Also assumes |
|---|---|---|
| `CodecTypeCorrect` | `Spec => []TypeOK`, with `WithinCapacity` | |
| `CodecRoundtrip` | `Spec => [](OnTime(fmt, camera) => Faithful)` | |
| `CodecFaithful` | `Spec => []Faithful` | `LowMoves` |
| `CodecComplete` | `Spec => [](OnTime(fmt, camera) => Complete)` | |
| `CodecEmptyMeansEnd` | `Spec => EmptyMeansEnd` | |

`LowMoves` says that no time between two events given to the encoder is a
multiple of the range of the low part; the run `EvtCodec_same_low` shows that
the evt3 encoder needs it. `OnTime` asks it of that encoder alone: of the three
other formats and of a camera, `Faithful` and `Complete` hold without it. What
`CodecAssumption` says of times is what the formats can say: from one to the
next it is at most a period less one turn of the low part.

The argument has three parts. The first is about the parsers. `IsReading` is a
reading of a recording that nobody has cut into calls: a set of points, each
with the position, the parser's state and what was found up to it, in which
one word, or one group of words that a parser takes together, leads from one to
the next (`Reads`). `ParseStepFacts` says that `parse_step`, called at a
point with room for the headroom and the columns of a padding of words, moves
forward, stays within its buffers, adds to them what the reading finds, and
stops at a point again, also where the output is full, the words run dry
within a group, or the tail is flushed from the padded copy. The second is
about the writers: `Recorded` says that what was written so far can be read with
exactly `truth` and `truthTr` as the result, that the parser's clock then shows
the writer's (`Clocked`), and in evt3 which row and which low part the parser knows
(`Kept`); every write of an encoder or a camera keeps it. The third is the
decoder: `Standing` says that it is at a point, and that what it handed out,
followed by what its buffers hold, is what the reading found up to there. Opening
turns `Recorded` into `Readable`, a call, a turn of a loop, a return and a reset
keep `Standing`, and `Faithful`, `Complete` and `EmptyMeansEnd` follow.

What a function does to all of its arguments is not in this prover's reach by
the library's induction theorems. `ArrayLemmas` has the argument they would
replace, a least counterexample (`LeastNumber`), and uses it for `Flat`, whose
recursion is over the length of a sequence: `FlatOne`, `FlatConcat`,
`FlatSingles` and `FlatMember` are what the proofs need of it. `BeforeFacts`
says that the `CHOOSE` of `Before` has something to choose when the array is in
time order.

Model-checked only: the properties of `EvtSeek`, whose index is built by parsers
that look at one segment at a time, and the others of `Decoders`;
`ChunksDoNotMatter`, which compares a stream with a loop over the whole file; the
liveness of `Prefetch`, `EventReader`, `EventStreams` and
`Decoders`, which is outside what the prover does.

## Not modelled

- Byte sources and compression: files, pipes and decompressors. Whether a source
  can seek is in `EventReader`; a source that cannot is not in `Decoders`.
- The Metavision sidecar of `_index.py`, a file of another program, whose
  bookmarks the code takes as approximate.
- `stream_paced_playback` and the pacing of the reader: wall-clock time.
- Header texts, geometry, digits, polarity, compression inside files, warnings.
- What h5py does in a crash; `close` of decoders; the `bin` format, which raises
  `NotImplementedError`.
- Containers, transforms, filters, dense representations, plots and torch: pure
  functions of arrays, nothing that an interleaving or a long run can break.

## Plan

1. `Decoders`: `TimesTrue`, from an invariant on what a decoder has left to read.
2. `EvtSeek`: that a bookmark is a point of the reading of `EvtCodecProofs`, with
   a clock that is wrong by whole periods, hence `IndexExact` and `ResumesExactly`.
3. Triggers, batch mode and the buffer ring across resets in `EventReader`, and
   its composition with `Prefetch`.
