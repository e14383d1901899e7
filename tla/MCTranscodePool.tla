-------------------------- MODULE MCTranscodePool --------------------------
(***************************************************************************)
(* Instances of TranscodePool for TLC.                                     *)
(***************************************************************************)
EXTENDS TranscodePool

CONSTANTS i1, i2, i3, w1, w2, file, url

MCItems   == {i1, i2, i3}
MCWorkers == {w1, w2}
=============================================================================
