-------------------------- MODULE MCSegmentFraming --------------------------
(* SegmentFraming for TLC.                                                 *)
EXTENDS SegmentFraming, TLC
=============================================================================
