---------------------------- MODULE MCMediaPath ----------------------------
(* What happens to media on its way, for TLC: its tags on their three ways, *)
(* and inside mix_coder the resampler of one stream, the mixer of pictures  *)
(* and the mixer of audio.  They share no state, so each behaviour follows  *)
(* one of them.                                                             *)
EXTENDS AudioResampler, Mixing, FLVTags, TLC

VARIABLE part

Init ==
  /\ part \in {"tags", "resampler", "pictures", "audio"}
  /\ TagsInit /\ ResamplerInit /\ MixingInit
  /\ part # "tags" => way = "mixed"

Next ==
  \/ part = "tags" /\ TagsNext /\ UNCHANGED <<part, resamplerVars, mixingVars>>
  \/ part = "resampler" /\ ResamplerNext /\ UNCHANGED <<part, mixingVars, tagVars>>
  \/ part = "pictures" /\ PicturesNext /\ UNCHANGED <<part, resamplerVars, tagVars>>
  \/ part = "audio" /\ AudioNext /\ UNCHANGED <<part, resamplerVars, tagVars>>

Spec == Init /\ [][Next]_<<part, resamplerVars, mixingVars, tagVars>>
=============================================================================
