----------------------------- MODULE MCMixCoder -----------------------------
(* MixCoder for TLC.                                                       *)
EXTENDS MixCoder, TLC
=============================================================================
