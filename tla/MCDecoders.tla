----------------------------- MODULE MCDecoders -----------------------------
(***************************************************************************)
(* Constants of Decoders for TLC that a configuration cannot express.      *)
(***************************************************************************)
EXTENDS Decoders

MCHints == {None, 1}
MCMsRanges == [start : 0 .. 5, end : {None} \cup 0 .. 6]
=============================================================================
