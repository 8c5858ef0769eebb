------------------------------- MODULE Mixing -------------------------------
(***************************************************************************)
(* prog/VideoMixer.cpp and prog/AudioMixer.cpp as MixCoder.getOutput calls *)
(* them: which picture goes where in the one picture everybody sees, and   *)
(* whom every listener hears.  The streams that are valid change from one  *)
(* call to the next; the scalers of the pictures are kept across calls.    *)
(*                                                                         *)
(* Input pictures have the one size VideoMixer.h names; samples are left   *)
(* out, a mix is the set of the streams in it.                             *)
(***************************************************************************)
EXTENDS Integers, FiniteSets

CONSTANTS
  MAX_XCODING_INSTANCES,
  AllIn,             \* the listener that is no participant (0xffffffff)
  None

ASSUME InstancesAssumption == MAX_XCODING_INSTANCES \in Nat \ {0}
ASSUME ListenerAssumption == AllIn \notin Nat /\ None \notin Nat

Slots == 0 .. MAX_XCODING_INSTANCES - 1

(* The loops over the slots number those that count from 1, in their order.  *)
Rank(slots, s) == Cardinality({r \in slots : r <= s})

outputWidth == 640
outputHeight == 480
Area == outputWidth * outputHeight

VARIABLES
  swsCtx,            \* slot -> width its scaler was made for, None without one
  totalStreams,      \* number of pictures mixed last
  valid,             \* the streams of the last mix
  pictures,          \* where it has them, if it was one of pictures
  heard              \* listener -> streams in its mix, if it was one of audio

mixingVars == <<swsCtx, totalStreams, valid, pictures, heard>>

Nobody == [l \in {} |-> {}]

MixingInit ==
  /\ swsCtx = [s \in Slots |-> None] /\ totalStreams = 0
  /\ valid = {} /\ pictures = {} /\ heard = Nobody

-----------------------------------------------------------------------------
(* VideoMixer.                                                               *)
mappingToScalingWidth(t) == IF t = 1 THEN 640 ELSE 320
mappingToScalingHeight(t) == IF t = 1 THEN 480 ELSE 240

(* Mutated form: the scalers are never given back.                           *)
Kept_Always(t) == Slots

(* The slots whose scaler survives a call with t streams.                    *)
Kept(t) == IF mappingToScalingWidth(totalStreams) # mappingToScalingWidth(t) THEN {} ELSE Slots

tryToInitSws(rawData) ==
  LET t == Cardinality(rawData)
  IN  /\ swsCtx' = [s \in Slots |->
           CASE s \in Kept(t) /\ swsCtx[s] # None -> swsCtx[s]
             [] s \in rawData /\ ~(s \in Kept(t) /\ swsCtx[s] # None) -> mappingToScalingWidth(t)
             [] OTHER -> None]
      /\ totalStreams' = t

(* The offsets of picture k of t in the planes: one alone, two beside each   *)
(* other, one above two, two above two.                                      *)
InSecondRow(t, k) == t > 2 /\ k > t - 2
Column(t, k) == IF InSecondRow(t, k) THEN k - t + 1 ELSE k - 1

startingOffsetY(t, k) ==
  LET sw == mappingToScalingWidth(t)
  IN  (IF InSecondRow(t, k) THEN Area \div 2 ELSE 0)
      + (IF t = 3 /\ k = 1 THEN sw \div 2 ELSE sw * Column(t, k))

(* Mutated form: the second row of the chroma begins where the first ends.   *)
startingOffsetUV_NextLine(t, k) ==
  LET sw == mappingToScalingWidth(t)
  IN  (IF InSecondRow(t, k) THEN Area \div 4 ELSE 0)
      + (IF t = 3 /\ k = 1 THEN sw \div 4 ELSE (sw \div 2) * Column(t, k))

startingOffsetUV(t, k) ==
  LET sw == mappingToScalingWidth(t)
  IN  (IF InSecondRow(t, k) THEN Area \div 8 ELSE 0)
      + (IF t = 3 /\ k = 1 THEN sw \div 4 ELSE (sw \div 2) * Column(t, k))

(* The rectangle that the participant is told of, and the offsets in the      *)
(* output buffer at which the three planes of the picture are copied.         *)
picture(slot, t, k) ==
  LET Y  == startingOffsetY(t, k)
      UV == startingOffsetUV(t, k)
  IN  [slot |-> slot,
       x |-> Y % outputWidth,
       y |-> IF t = 2 THEN outputHeight \div 4 ELSE Y \div outputWidth,
       width |-> mappingToScalingWidth(t), height |-> mappingToScalingHeight(t),
       offsetY |-> (IF t = 2 THEN Area \div 4 ELSE 0) + Y,
       offsetU |-> (IF t = 2 THEN (Area * 17) \div 16 ELSE Area) + UV,
       offsetV |-> (IF t = 2 THEN (Area * 21) \div 16 ELSE (Area * 5) \div 4) + UV]

(* mixStreams: with five streams or more nothing is copied (the TODO of       *)
(* VideoMixer.cpp:282).                                                       *)
mixPictures(rawData) ==
  /\ rawData # {} /\ valid' = rawData
  /\ tryToInitSws(rawData)
  /\ LET t == Cardinality(rawData)
     IN  pictures' = IF t > 4 THEN {} ELSE {picture(s, t, Rank(rawData, s)) : s \in rawData}
  /\ heard' = Nobody

-----------------------------------------------------------------------------
(* AudioMixer.                                                                *)
(* Mutated form: the listener is not left out.                                *)
findIndexes_Everybody(rawData, excludeStreamId) == rawData

findIndexes(rawData, excludeStreamId) == rawData \ {excludeStreamId}

FirstOf(indexes, n) == {s \in indexes : Rank(indexes, s) <= n}

(* The sets of streams a mix for a listener may be of.  The four indexes of   *)
(* the mix of all are written into an array of two, so that any may be lost;  *)
(* with five streams or more nothing is written to the mix at all.            *)
Mixes(rawData, excludeStreamId) ==
  LET t == Cardinality(rawData)
      indexes == findIndexes(rawData, excludeStreamId)
      participant == excludeStreamId # AllIn
  IN  CASE t = 1 /\ participant          -> {{}}       \* white noise
        [] t = 1 /\ ~participant         -> {FirstOf(indexes, 1)}
        [] t \in {2, 3, 4} /\ participant -> {FirstOf(indexes, t - 1)}
        [] t \in {2, 3} /\ ~participant  -> {FirstOf(indexes, t)}
        [] t = 4 /\ ~participant         -> SUBSET rawData
        [] OTHER                         -> {{}}

(* A mix for every participant with a mobile client, and one of everybody.    *)
mixAudio(rawData, mobile) ==
  /\ rawData # {} /\ mobile \subseteq rawData /\ valid' = rawData
  /\ pictures' = {}
  /\ \E all \in Mixes(rawData, AllIn) :
       heard' = [l \in mobile \cup {AllIn} |->
                   IF l = AllIn THEN all ELSE CHOOSE m \in Mixes(rawData, l) : TRUE]
  /\ UNCHANGED <<swsCtx, totalStreams>>

-----------------------------------------------------------------------------
PicturesNext == \E rawData \in SUBSET Slots : mixPictures(rawData)
AudioNext == \E rawData \in SUBSET Slots : \E mobile \in SUBSET rawData : mixAudio(rawData, mobile)
MixingSpec == MixingInit /\ [][PicturesNext \/ AudioNext]_mixingVars

-----------------------------------------------------------------------------
MixingTypeOK ==
  /\ swsCtx \in [Slots -> {320, 640, None}]
  /\ totalStreams \in 0 .. MAX_XCODING_INSTANCES
  /\ valid \subseteq Slots
  /\ \A p \in pictures : p.slot \in valid
  /\ \A l \in DOMAIN heard : l \in valid \cup {AllIn} /\ heard[l] \subseteq Slots

(* A scaler writes pictures of the size it was made for into buffers of the    *)
(* size the number of streams asks for: the two agree for every stream that    *)
(* is mixed, whoever came and went before (VideoMixer.cpp:38-54, 301-327).     *)
ScalersFit ==
  pictures # {} => \A s \in valid : swsCtx[s] = mappingToScalingWidth(Cardinality(valid))

(* The inductive strengthening: every scaler there is, also that of a stream  *)
(* that is not mixed now, was made for the number of pictures mixed last.    *)
ScalersKept ==
  \A s \in Slots : swsCtx[s] # None => swsCtx[s] = mappingToScalingWidth(totalStreams)

(* Up to four streams each have a picture inside the frame, no two share a     *)
(* pixel, and all three planes are where the rectangle that the participant    *)
(* is told of says (VideoMixer.cpp:69-280).                                    *)
PicturesFit ==
  pictures # {} =>
    /\ {p.slot : p \in pictures} = valid
    /\ \A p \in pictures :
         /\ p.x + p.width <= outputWidth /\ p.y + p.height <= outputHeight
         /\ p.offsetY = p.y * outputWidth + p.x
         /\ LET chroma == (p.y \div 2) * (outputWidth \div 2) + p.x \div 2
            IN  p.offsetU = Area + chroma /\ p.offsetV = Area + Area \div 4 + chroma
    /\ \A p, q \in pictures : p # q =>
         \/ p.x + p.width <= q.x  \/ q.x + q.width <= p.x
         \/ p.y + p.height <= q.y \/ q.y + q.height <= p.y

(* "the mobile viewer should not hear his own voice from the mixing"           *)
(* (MixCoder.h:65), but hears everybody else, with up to four streams; the mix *)
(* of everybody has them all with up to three (AudioMixer.cpp:188-245).        *)
EverybodyElseIsHeard ==
  \A l \in DOMAIN heard :
    Cardinality(valid) <= (IF l = AllIn THEN 3 ELSE 4) => heard[l] = valid \ {l}
=============================================================================
