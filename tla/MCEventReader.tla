---------------------------- MODULE MCEventReader ---------------------------
(***************************************************************************)
(* Small recordings and readers for EventReader.                           *)
(***************************************************************************)
EXTENDS EventReader

\* A recording given by its words: the timestamp after the word and the
\* number of events it decodes to.
Words(ws) ==
  LET cum[w \in 0 .. Len(ws)] == IF w = 0 THEN 0 ELSE cum[w - 1] + ws[w][2]
      tick == [w \in 0 .. Len(ws) |-> IF w = 0 THEN 0 ELSE ws[w][1]]
  IN  [nw |-> Len(ws), cum |-> cum, tick |-> tick,
       ts |-> [i \in 1 .. cum[Len(ws)] |->
                 tick[CHOOSE w \in 1 .. Len(ws) : cum[w - 1] < i /\ i <= cum[w]]]]

\* One event per word: ties, a silent gap, and a tie at the end.
Rows == Words(<< <<1, 1>>, <<1, 1>>, <<2, 1>>, <<5, 1>>, <<5, 1>> >>)
\* Timing words between events, as EVT2 has, the last of them trailing.
Scalar == Words(<< <<1, 0>>, <<1, 1>>, <<2, 1>>, <<2, 0>>, <<2, 1>>, <<5, 1>>, <<5, 0>> >>)
\* Words that decode to two events.
Vectors == Words(<< <<1, 0>>, <<1, 2>>, <<2, 1>>, <<5, 2>> >>)
\* EVT3: only timing words change the clock.  The last two words, which the
\* parser leaves to its tail handling, carry no events ...
Evt3Quiet == Words(<< <<1, 0>>, <<1, 1>>, <<1, 2>>, <<2, 0>>, <<2, 1>>, <<5, 0>>,
                     <<5, 1>>, <<5, 0>>, <<5, 0>> >>)
\* ... or they do, at the time of the word before, or later.
Evt3Tail == Words(<< <<1, 0>>, <<1, 1>>, <<4, 0>>, <<4, 1>> >>)
\* Nothing to decode.
Empty == Words(<<>>)
Silent == Words(<< <<1, 0>>, <<1, 0>> >>)

\* The arguments of a reader: each mode with both limits, and what "auto"
\* makes of one of them or of none.
Ask(mode, dt, ne) == [mode |-> mode, dt |-> dt, ne |-> ne]

Asked ==
  {Ask("delta_t", DefaultDeltaT, DefaultNEvents), Ask("n_events", DefaultDeltaT, DefaultNEvents),
   Ask("all", None, None), Ask("auto", None, None), Ask("auto", DefaultDeltaT, None),
   Ask("auto", None, DefaultNEvents)}

Readers(kinds, args, recs, pipes) ==
  [kind : kinds, asked : args, rec : recs, pipe : pipes]

\* Every kind of decoder on a seekable source, EVT3 with a quiet tail.
QuietConfigs ==
  Readers({"npz", "csv", "hdf5", "evt2"}, Asked, {Rows, Empty}, {FALSE})
  \cup Readers({"evt2"}, Asked, {Scalar, Silent}, {FALSE, TRUE})
  \cup Readers({"evt21"}, Asked, {Vectors, Silent}, {FALSE})
  \cup Readers({"evt3"}, Asked, {Evt3Quiet, Silent}, {FALSE})

TailConfigs == Readers({"evt3"}, {Ask("delta_t", DefaultDeltaT, DefaultNEvents)}, {Evt3Tail}, {FALSE})
\* Sources that cannot seek; a rewound pipe is read anew by these decoders.
RowPipeConfigs ==
  Readers({"npz", "hdf5"}, {a \in Asked : a.mode # "auto"}, {Rows, Empty}, {TRUE})
ReaderConfigs == QuietConfigs \cup RowPipeConfigs

MCShifts == {-1}
=============================================================================
