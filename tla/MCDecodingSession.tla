------------------------- MODULE MCDecodingSession -------------------------
(* A small decoder for TLC: three measurements, five detectors that need   *)
(* none, one, two or all of them.                                          *)
EXTENDS DecodingSession

ReadyOrder == <<{}, {0}, {0, 1}, {1, 2}, {2}>>
=============================================================================
