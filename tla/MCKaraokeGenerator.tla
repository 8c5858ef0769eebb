------------------------- MODULE MCKaraokeGenerator -------------------------
(* KaraokeGenerator for TLC.                                               *)
EXTENDS KaraokeGenerator
=============================================================================
