------------------------------ MODULE EvtCodec ------------------------------
(***************************************************************************)
(* A recording in one of the Prophesee formats is written by the encoder   *)
(* (EventEncoder_EVT) or by a camera, and read back by the decoder         *)
(* (EventDecoder_EVT) in chunks or at once.  The camera is external: it    *)
(* sends a time word whenever its clock moved, vectors, triggers, time     *)
(* words that repeat the last one, words the parser ignores and, in evt3,  *)
(* vector words out of place; its file may begin in the middle of a group  *)
(* and end in one.  truth and truthTr are what the file says.              *)
(***************************************************************************)
EXTENDS EvtFormats

CONSTANTS
  Deltas,     \* time between two events given to the encoder
  CamDeltas,  \* time between two words of the camera
  Xs, Ys,     \* addresses
  Masks,      \* columns of a vector
  LowAgain,   \* whether a low part follows a repeated high part (evt3)
  Noise,      \* other words of the camera: "other", "v8" (out of place)
  Caps,       \* chunk_size of the decoder
  Wants,      \* read_external_triggers
  TCap,       \* capacity of its trigger buffer
  Grow,       \* least room decode_all_soa has before it parses
  Start,      \* the recording begins here, in the first period of its clock
  MaxWrites   \* bound of the model: writes of the encoder or the camera

ASSUME CodecAssumption ==
  /\ Deltas \cup CamDeltas \subseteq 0 .. (H - 1) * L
  /\ Xs \cup Ys \subseteq Nat
  /\ \A m \in Masks : m \subseteq 0 .. 3 * V - 1 /\ m # {}
  \* (128 is the least chunk_size, and the least room decode_all_soa makes)
  /\ Caps \subseteq Nat /\ \A c \in Caps : c >= Reserve + Pad * V
  /\ LowAgain \cup Wants \subseteq BOOLEAN
  /\ TCap \in Nat /\ TCap >= Pad
  /\ Grow \in Nat /\ Grow >= Reserve + Pad * V
  /\ Start \in Nat /\ \A d \in Deltas \cup CamDeltas : Start + d < Period
  /\ MaxWrites \in Nat

None == -1

VARIABLES
  fmt,      \* _format (never changes)
  camera,   \* whether a camera writes, or the encoder (never changes)
  now,      \* time of the last event
  writes,   \* how often something was written
  enc,      \* _last_upper12_ts / _last_ts_high, _last_lower12_ts, _last_y
  file,     \* the words
  truth, truthTr,
  opt,      \* chunk_size and read_external_triggers of the decoder
  start,    \* _start_offset
  off,      \* _offset
  st,       \* _parser
  corr,     \* _seek_correction (0 until a seek, see EvtSeek)
  pc,       \* "write", then "idle" between the calls of the decoder
  ev, tr,   \* the buffers of the call in progress
  got, gotTr  \* what the decoder handed out since it was opened or reset

wvars == <<fmt, camera, now, writes, enc, file, truth, truthTr>>
rvars == <<opt, start, off, st, corr, pc, ev, tr, got, gotTr>>
vars == <<wvars, rvars>>

Init ==
  /\ fmt \in Formats /\ camera \in BOOLEAN
  /\ now = Start /\ writes = 0
  /\ enc = [high |-> None, low |-> None, y |-> None]
  /\ file \in {<<>>} \cup
       (IF ~camera THEN {}
        ELSE IF fmt = "evt3" THEN {<<[k |-> "v8", bits |-> {0}], [k |-> "x", x |-> 1]>>}
        ELSE {<<[k |-> "cd", low |-> 1, x |-> 0, y |-> 0, bits |-> {0}]>>})
  /\ truth = <<>> /\ truthTr = <<>>
  /\ opt = [cap |-> 0, want |-> FALSE, all |-> FALSE]
  /\ start = 0 /\ off = 0 /\ st = ParserInit /\ corr = 0 /\ pc = "write"
  /\ ev = <<>> /\ tr = <<>> /\ got = <<>> /\ gotTr = <<>>

Writing == pc = "write" /\ writes < MaxWrites /\ writes' = writes + 1

If(c, words) == IF c THEN words ELSE <<>>

-----------------------------------------------------------------------------
(* The encoder.  The loop over the events of one write() hands its state   *)
(* on exactly as one write() to the next.                                  *)

High(v) == <<[k |-> "high", v |-> v]>>
Low(v) == <<[k |-> "low", v |-> v]>>
RowWord(y) == <<[k |-> "y", y |-> y]>>

\* get_raw_evt3_buffer
EncodeEvt3(e) ==
  /\ file' = file
       \o If(HighOf(e.t) # enc.high, High(HighOf(e.t)))
       \o If(LowOf(e.t) # enc.low, Low(LowOf(e.t)))
       \o If(e.y # enc.y, RowWord(e.y))
       \o <<[k |-> "x", x |-> e.x]>>
  /\ enc' = [high |-> HighOf(e.t), low |-> LowOf(e.t), y |-> e.y]

CdWord(e) == [k |-> "cd", low |-> LowOf(e.t), x |-> e.x, y |-> e.y]
MaskedWord(e, bits) ==
  [k |-> "cd", low |-> LowOf(e.t), x |-> e.x, y |-> e.y, bits |-> bits]

\* Mutant of Timed: the high part is only written when the clock wraps.
Timed_LateHigh(e, word) ==
  /\ file' = file \o If(HighOf(e.t) < enc.high \/ enc.high = None, High(HighOf(e.t)))
               \o <<word>>
  /\ enc' = [enc EXCEPT !.high = HighOf(e.t)]

\* A time word if the high part changed, then the event.
Timed(e, word) ==
  /\ file' = file \o If(HighOf(e.t) # enc.high, High(HighOf(e.t))) \o <<word>>
  /\ enc' = [enc EXCEPT !.high = HighOf(e.t)]

\* get_raw_evt2_buffer; get_raw_evt4_buffer has other codes for the same
\* fields, and get_raw_evt21_buffer a mask of one column.
EncodeEvt2(e) == Timed(e, CdWord(e))
EncodeEvt4(e) == Timed(e, CdWord(e))
EncodeEvt21(e) == Timed(e, MaskedWord(e, {0}))

Encode ==
  /\ Writing /\ ~camera
  /\ \E d \in Deltas, x \in Xs, y \in Ys :
       LET e == [t |-> now + d, x |-> x, y |-> y] IN
       /\ \/ fmt = "evt2" /\ EncodeEvt2(e)
          \/ fmt = "evt21" /\ EncodeEvt21(e)
          \/ fmt = "evt3" /\ EncodeEvt3(e)
          \/ fmt = "evt4" /\ EncodeEvt4(e)
       /\ now' = e.t
       /\ truth' = Append(truth, e)
  /\ UNCHANGED <<fmt, camera, truthTr, rvars>>

-----------------------------------------------------------------------------
(* The camera.                                                             *)

CamTime ==
  /\ Writing /\ camera
  /\ \E d \in CamDeltas, low \in LowAgain :
       LET t == now + d IN
       /\ now' = t
       /\ file' = file
            \o If(d = 0 \/ HighOf(t) # enc.high, High(HighOf(t)))
            \o If(fmt = "evt3" /\ (d > 0 \/ low \/ enc.high = None), Low(LowOf(t)))
       /\ enc' = [enc EXCEPT !.high = HighOf(t)]
  /\ UNCHANGED <<fmt, camera, truth, truthTr, rvars>>

Part(bits, j) == {b \in 0 .. V - 1 : j * V + b \in bits}

\* The words for the columns `bits` of one row, from column x.
CamWords(x, y, bits) ==
  CASE fmt = "evt3" ->
         If(y # enc.y, RowWord(y)) \o
         (IF bits = {0} THEN <<[k |-> "x", x |-> x]>>
          ELSE <<[k |-> "base", x |-> x],
                 [k |-> "v12", bits |-> Part(bits, 0)],
                 [k |-> "v12", bits |-> Part(bits, 1)],
                 [k |-> "v8", bits |-> Part(bits, 2)]>>)
    [] fmt = "evt4" /\ bits # {0} ->
         <<[k |-> "vec", low |-> LowOf(now), x |-> x, y |-> y],
           [k |-> "mask", bits |-> bits]>>
    [] fmt = "evt21" -> <<MaskedWord([t |-> now, x |-> x, y |-> y], bits)>>
    [] OTHER -> <<CdWord([t |-> now, x |-> x, y |-> y])>>

CamEvents ==
  /\ Writing /\ camera /\ enc.high # None
  /\ \E x \in Xs, y \in Ys :
     \E bits \in IF fmt = "evt2" THEN {{0}} ELSE Masks :
       /\ file' = file \o CamWords(x, y, bits)
       /\ truth' = truth \o Columns(now, x, y, bits)
       /\ enc' = [enc EXCEPT !.y = y]
  /\ UNCHANGED <<fmt, camera, now, truthTr, rvars>>

CamTrigger ==
  /\ Writing /\ camera /\ enc.high # None
  /\ LET id == Len(truthTr) IN
     /\ file' = Append(file, [k |-> "trig", low |-> LowOf(now), id |-> id])
     /\ truthTr' = Append(truthTr, [t |-> now, id |-> id])
  /\ UNCHANGED <<fmt, camera, now, enc, truth, rvars>>

CamNoise ==
  /\ Writing /\ camera
  /\ \E kind \in Noise \cap (IF fmt = "evt3" THEN {"other", "v8"} ELSE {"other"}) :
       file' = Append(file, [k |-> kind, bits |-> {0}])
  /\ UNCHANGED <<fmt, camera, now, enc, truth, truthTr, rvars>>

-----------------------------------------------------------------------------
(* The decoder.                                                            *)

NW == Len(file)

\* Decoding begins at the first TIME_HIGH word.
FirstTimeHigh(ws) == HighFrom(ws, 0, 0)

\* init(); the recording may end between the two words of an evt4 vector.
Open ==
  /\ pc = "write" /\ (enc.high # None \/ file = <<>>)
  /\ file' \in {file} \cup
       (IF camera /\ fmt = "evt4"
        THEN {Append(file, [k |-> "vec", low |-> 0, x |-> 0, y |-> 0])} ELSE {})
  /\ \E c \in Caps, w \in Wants : opt' = [cap |-> c, want |-> w, all |-> FALSE]
  /\ start' = FirstTimeHigh(file') /\ off' = start'
  /\ pc' = "idle"
  /\ UNCHANGED <<fmt, camera, now, writes, enc, truth, truthTr,
                 st, corr, ev, tr, got, gotTr>>

\* read_chunk() clears the buffers, read_all() makes its own.
Call ==
  /\ pc = "idle" /\ off < NW
  /\ \E all \in IF opt.want THEN {FALSE} ELSE BOOLEAN : opt' = [opt EXCEPT !.all = all]
  /\ ev' = <<>> /\ tr' = <<>>
  /\ pc' = "loop"
  /\ UNCHANGED <<wvars, start, off, st, corr, got, gotTr>>

ParseInto(s0, cap, tcap) == ParseStep(fmt, file, s0, cap, tcap, TailPad(fmt))

\* parse_step restores the wraps a seek has lost, for events.
Shift(events) == [i \in DOMAIN events |-> [events[i] EXCEPT !.t = @ + corr]]

Finish(events, triggers) ==
  /\ got' = got \o events
  /\ gotTr' = IF opt.want THEN gotTr \o triggers ELSE gotTr
  /\ ev' = <<>> /\ tr' = <<>>
  /\ pc' = "idle"

\* Mutant of ChunkStep: triggers nobody asked for pile up in the buffer.
ChunkStep_KeepTriggers ==
  /\ pc = "loop" /\ ~opt.all
  /\ off < NW /\ ev = <<>> /\ ~(opt.want /\ tr # <<>>)
  /\ \E s \in {ParseInto(ParseFrom(off, st, ev, tr), opt.cap, TCap)} :
     /\ off' = s.pos /\ st' = s.st
     /\ IF s.ev = <<>> /\ s.pos = off
        THEN Finish(s.ev, s.tr)
        ELSE ev' = Shift(s.ev) /\ tr' = s.tr /\ UNCHANGED <<pc, got, gotTr>>
  /\ UNCHANGED <<wvars, opt, start, corr>>

\* One turn of read_chunk's loop, which gives up when nothing moves.
ChunkStep ==
  /\ pc = "loop" /\ ~opt.all
  /\ off < NW /\ ev = <<>> /\ ~(opt.want /\ tr # <<>>)
  /\ \E s \in {ParseInto(ParseFrom(off, st, ev, IF opt.want THEN tr ELSE <<>>),
                        opt.cap, TCap)} :
     /\ off' = s.pos /\ st' = s.st
     /\ IF s.ev = <<>> /\ s.pos = off
        THEN Finish(s.ev, s.tr)
        ELSE ev' = Shift(s.ev) /\ tr' = s.tr /\ UNCHANGED <<pc, got, gotTr>>
  /\ UNCHANGED <<wvars, opt, start, corr>>

ChunkReturn ==
  /\ pc = "loop" /\ ~opt.all
  /\ off = NW \/ ev # <<>> \/ (opt.want /\ tr # <<>>)
  /\ Finish(ev, tr)
  /\ UNCHANGED <<wvars, opt, start, off, st, corr>>

\* One turn of decode_all_soa's loop: its buffers grow before they are full.
AllStep ==
  /\ pc = "loop" /\ opt.all /\ off < NW
  /\ \E s \in {ParseInto(ParseFrom(off, st, ev, tr), Len(ev) + Grow, Len(tr) + Grow)} :
     /\ off' = s.pos /\ st' = s.st
     /\ ev' = s.ev /\ tr' = s.tr
  /\ UNCHANGED <<wvars, opt, start, corr, pc, got, gotTr>>

AllReturn ==
  /\ pc = "loop" /\ opt.all /\ off = NW
  /\ Finish(Shift(ev), tr)
  /\ UNCHANGED <<wvars, opt, start, off, st, corr>>

Reset ==
  /\ pc = "idle" /\ off > start
  /\ off' = start
  /\ st' = ParserInit
  /\ corr' = 0
  /\ got' = <<>> /\ gotTr' = <<>>
  /\ UNCHANGED <<wvars, opt, start, pc, ev, tr>>

Write == Encode \/ CamTime \/ CamEvents \/ CamTrigger \/ CamNoise
Inside == ChunkStep \/ ChunkReturn \/ AllStep \/ AllReturn
Next == Write \/ Open \/ Call \/ Inside \/ Reset

Spec == Init /\ [][Next]_vars

-----------------------------------------------------------------------------
(* Properties.                                                             *)

\* No parse writes beyond the end of a buffer of the chunked decoder.
WithinCapacity == ~opt.all => Len(ev) <= opt.cap /\ Len(tr) <= TCap

\* The types, and the room in the decoder's buffers.
TypeOK ==
  /\ fmt \in Formats /\ camera \in BOOLEAN /\ now \in Nat
  /\ DOMAIN enc = {"high", "low", "y"}
  /\ \A i \in 1 .. NW : file[i].k = "high" => file[i].v \in 0 .. H - 1
  /\ pc \in {"write", "idle", "loop"}
  /\ opt.cap \in Caps \cup {0} /\ opt.want \in BOOLEAN /\ opt.all \in BOOLEAN
  /\ start \in 0 .. NW /\ off \in start .. NW
  /\ st.high \in 0 .. H - 1 /\ st.hh % Period = 0
  /\ WithinCapacity

\* s is the beginning of t.
Begins(s, t) == Len(s) <= Len(t) /\ \A i \in 1 .. Len(s) : s[i] = t[i]

\* However the recording is cut into calls, what is decoded is the beginning
\* of what was written: every timestamp with the wraps of its clock, every
\* row and column, each event once and in order, and each trigger the caller
\* asked for too, however full its buffer gets (the roundtrip of
\* get_raw_*_buffer through *_parse_chunk_soa, parse_step and read_chunk).
Faithful ==
  /\ Begins(got \o ev, truth)
  /\ opt.want => Begins(gotTr \o tr, truthTr)

Strays == {i \in 3 .. NW : file[i].k = "v8" /\ file[i - 1].k # "v12"}

\* When the decoder stands at the end of the words everything was handed
\* out: neither the padding, nor a full buffer, nor a vector cut in two
\* loses an event or a trigger, unless a vector word is out of place: the
\* call it interrupts goes on with what is left of its buffers, and a flush
\* of the tail ends there.
Complete ==
  pc = "idle" /\ off = NW /\ Strays = {} =>
    got = truth /\ (opt.want => gotTr = truthTr)

\* read_chunk() returns an empty chunk only at the end of the recording:
\* callers such as EventStreamer take an empty chunk for the end.
EmptyMeansEnd ==
  [][pc = "loop" /\ pc' = "idle" =>
       got' # got \/ gotTr' # gotTr \/ off' = NW]_vars
=============================================================================
