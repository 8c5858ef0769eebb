--------------------------- MODULE MediaPathProofs ---------------------------
(***************************************************************************)
(* Proofs about what happens to media on its way: Mixing, for any number of *)
(* slots and any order in which streams come, go and change their number;  *)
(* FLVTags, for any lengths of the fields and of the data and wherever the  *)
(* bytes are cut; AudioResampler, for any length of a frame and calls that *)
(* decode up to one.                                                       *)
(***************************************************************************)
EXTENDS Mixing, FLVTags, AudioResampler, NumberLemmas, SequenceTheorems, FiniteSetTheorems, TLAPS

-----------------------------------------------------------------------------
(* Mixing *)
(* The ranks of a finite set of slots: between 1 and its size, all different. *)
LEMMA Ranks ==
  ASSUME NEW S \in SUBSET Slots
  PROVE  /\ IsFiniteSet(S) /\ Cardinality(S) \in 0 .. MAX_XCODING_INSTANCES
         /\ \A s \in S : Rank(S, s) \in 1 .. Cardinality(S)
         /\ \A r, s \in S : r < s => Rank(S, r) < Rank(S, s)
<1>1. IsFiniteSet(Slots) /\ Cardinality(Slots) = MAX_XCODING_INSTANCES
  BY FS_Interval, InstancesAssumption DEF Slots
<1>2. /\ IsFiniteSet(S) /\ Cardinality(S) <= MAX_XCODING_INSTANCES
      /\ Cardinality(S) \in Nat
  BY <1>1, FS_Subset, FS_CardinalityType
<1> DEFINE upTo(s) == {r \in S : r <= s}
<1>3. ASSUME NEW s \in S
      PROVE  IsFiniteSet(upTo(s)) /\ Cardinality(upTo(s)) \in 1 .. Cardinality(S)
  <2>1. IsFiniteSet(upTo(s)) /\ Cardinality(upTo(s)) <= Cardinality(S)
    BY <1>2, FS_Subset
  <2>2. s \in upTo(s)
    BY InstancesAssumption DEF Slots
  <2>3. Cardinality(upTo(s)) # 0
    BY <2>1, <2>2, FS_EmptySet
  <2>4. Cardinality(upTo(s)) \in Nat
    BY <2>1, FS_CardinalityType
  <2>5. QED BY <1>2, <2>1, <2>3, <2>4
<1>4. ASSUME NEW r \in S, NEW s \in S, r < s
      PROVE  Cardinality(upTo(r)) < Cardinality(upTo(s))
  <2>1. upTo(r) \subseteq upTo(s) /\ upTo(r) # upTo(s)
    <3>1. \A x \in S : x \in Int
      BY InstancesAssumption DEF Slots
    <3>2. s \in upTo(s) /\ s \notin upTo(r)
      BY <1>4, <3>1
    <3>3. upTo(r) \subseteq upTo(s)
      BY <1>4, <3>1
    <3>4. QED BY <3>2, <3>3
  <2>2. IsFiniteSet(upTo(s)) /\ IsFiniteSet(upTo(r))
    BY <1>3
  <2> HIDE DEF upTo
  <2>3. Cardinality(upTo(r)) <= Cardinality(upTo(s)) /\ Cardinality(upTo(r)) # Cardinality(upTo(s))
    BY <2>1, <2>2, FS_Subset
  <2>4. Cardinality(upTo(r)) \in Nat /\ Cardinality(upTo(s)) \in Nat
    BY <2>2, FS_CardinalityType
  <2>5. QED BY <2>3, <2>4
<1>5. QED BY <1>2, <1>3, <1>4 DEF Rank

LEMMA TwoSlots ==
  ASSUME NEW S \in SUBSET Slots, NEW r \in S, NEW s \in S, r # s
  PROVE  Rank(S, r) # Rank(S, s)
<1>1. r \in Int /\ s \in Int
  BY InstancesAssumption DEF Slots
<1>2. r < s \/ s < r
  BY <1>1
<1>3. /\ r < s => Rank(S, r) < Rank(S, s)
      /\ s < r => Rank(S, s) < Rank(S, r)
      /\ Rank(S, r) \in Int /\ Rank(S, s) \in Int
  <2> HIDE DEF Slots
  <2>1. Cardinality(S) \in Nat
    BY Ranks
  <2>2. QED BY <2>1, Ranks
<1>4. QED BY <1>2, <1>3

(* As many places as the set has members take it whole.                     *)
LEMMA AllOfThem ==
  ASSUME NEW S \in SUBSET Slots
  PROVE  FirstOf(S, Cardinality(S)) = S
<1>1. Cardinality(S) \in Nat /\ \A s \in S : Rank(S, s) \in 1 .. Cardinality(S)
  BY Ranks
<1>2. QED BY <1>1 DEF FirstOf

(***************************************************************************)
(* The geometry of up to four pictures.                                    *)
(***************************************************************************)
Inside(p) ==
  /\ p.x + p.width <= outputWidth /\ p.y + p.height <= outputHeight
  /\ p.offsetY = p.y * outputWidth + p.x
  /\ LET chroma == (p.y \div 2) * (outputWidth \div 2) + p.x \div 2
     IN  p.offsetU = Area + chroma /\ p.offsetV = Area + Area \div 4 + chroma

Apart(p, q) ==
  \/ p.x + p.width <= q.x  \/ q.x + q.width <= p.x
  \/ p.y + p.height <= q.y \/ q.y + q.height <= p.y

PlaceX(t, k) ==
  IF t = 3 /\ k = 1 THEN 160
  ELSE IF t > 2 /\ k > t - 2 THEN 320 * (k - t + 1) ELSE 320 * (k - 1)
PlaceY(t, k) ==
  IF t = 2 THEN 120 ELSE IF t > 2 /\ k > t - 2 THEN 240 ELSE 0

PlacedRight(slot, t, k) ==
  LET p == picture(slot, t, k)
  IN  /\ p.slot = slot /\ p.x = PlaceX(t, k) /\ p.y = PlaceY(t, k)
      /\ p.width = (IF t = 1 THEN 640 ELSE 320)
      /\ p.height = (IF t = 1 THEN 480 ELSE 240)
      /\ Inside(p)

LEMMA Placed ==
  ASSUME NEW slot, NEW t \in 1 .. 4, NEW k \in 1 .. t
  PROVE  PlacedRight(slot, t, k)
<1> USE DEF outputWidth, outputHeight, Area, mappingToScalingWidth, mappingToScalingHeight
<1>1. CASE t = 1 /\ k = 1
  <2>1. startingOffsetY(t, k) = 0 /\ startingOffsetUV(t, k) = 0
    BY <1>1 DEF startingOffsetY, startingOffsetUV, InSecondRow, Column
  <2>2. PlaceX(t, k) = 0 /\ PlaceY(t, k) = 0
    BY <1>1 DEF PlaceX, PlaceY
  <2>3. QED BY <1>1, <2>1, <2>2 DEF PlacedRight, picture, Inside
<1>2. CASE t = 2 /\ k = 1
  <2>1. startingOffsetY(t, k) = 0 /\ startingOffsetUV(t, k) = 0
    BY <1>2 DEF startingOffsetY, startingOffsetUV, InSecondRow, Column
  <2>2. PlaceX(t, k) = 0 /\ PlaceY(t, k) = 120
    BY <1>2 DEF PlaceX, PlaceY
  <2>3. QED BY <1>2, <2>1, <2>2 DEF PlacedRight, picture, Inside
<1>3. CASE t = 2 /\ k = 2
  <2>1. startingOffsetY(t, k) = 320 /\ startingOffsetUV(t, k) = 160
    BY <1>3 DEF startingOffsetY, startingOffsetUV, InSecondRow, Column
  <2>2. PlaceX(t, k) = 320 /\ PlaceY(t, k) = 120
    BY <1>3 DEF PlaceX, PlaceY
  <2>3. QED BY <1>3, <2>1, <2>2 DEF PlacedRight, picture, Inside
<1>4. CASE t = 3 /\ k = 1
  <2>1. startingOffsetY(t, k) = 160 /\ startingOffsetUV(t, k) = 80
    BY <1>4 DEF startingOffsetY, startingOffsetUV, InSecondRow, Column
  <2>2. PlaceX(t, k) = 160 /\ PlaceY(t, k) = 0
    BY <1>4 DEF PlaceX, PlaceY
  <2>3. QED BY <1>4, <2>1, <2>2 DEF PlacedRight, picture, Inside
<1>5. CASE t = 3 /\ k = 2
  <2>1. startingOffsetY(t, k) = 153600 /\ startingOffsetUV(t, k) = 38400
    BY <1>5 DEF startingOffsetY, startingOffsetUV, InSecondRow, Column
  <2>2. PlaceX(t, k) = 0 /\ PlaceY(t, k) = 240
    BY <1>5 DEF PlaceX, PlaceY
  <2>3. QED BY <1>5, <2>1, <2>2 DEF PlacedRight, picture, Inside
<1>6. CASE t = 3 /\ k = 3
  <2>1. startingOffsetY(t, k) = 153920 /\ startingOffsetUV(t, k) = 38560
    BY <1>6 DEF startingOffsetY, startingOffsetUV, InSecondRow, Column
  <2>2. PlaceX(t, k) = 320 /\ PlaceY(t, k) = 240
    BY <1>6 DEF PlaceX, PlaceY
  <2>3. QED BY <1>6, <2>1, <2>2 DEF PlacedRight, picture, Inside
<1>7. CASE t = 4 /\ k = 1
  <2>1. startingOffsetY(t, k) = 0 /\ startingOffsetUV(t, k) = 0
    BY <1>7 DEF startingOffsetY, startingOffsetUV, InSecondRow, Column
  <2>2. PlaceX(t, k) = 0 /\ PlaceY(t, k) = 0
    BY <1>7 DEF PlaceX, PlaceY
  <2>3. QED BY <1>7, <2>1, <2>2 DEF PlacedRight, picture, Inside
<1>8. CASE t = 4 /\ k = 2
  <2>1. startingOffsetY(t, k) = 320 /\ startingOffsetUV(t, k) = 160
    BY <1>8 DEF startingOffsetY, startingOffsetUV, InSecondRow, Column
  <2>2. PlaceX(t, k) = 320 /\ PlaceY(t, k) = 0
    BY <1>8 DEF PlaceX, PlaceY
  <2>3. QED BY <1>8, <2>1, <2>2 DEF PlacedRight, picture, Inside
<1>9. CASE t = 4 /\ k = 3
  <2>1. startingOffsetY(t, k) = 153600 /\ startingOffsetUV(t, k) = 38400
    BY <1>9 DEF startingOffsetY, startingOffsetUV, InSecondRow, Column
  <2>2. PlaceX(t, k) = 0 /\ PlaceY(t, k) = 240
    BY <1>9 DEF PlaceX, PlaceY
  <2>3. QED BY <1>9, <2>1, <2>2 DEF PlacedRight, picture, Inside
<1>10. CASE t = 4 /\ k = 4
  <2>1. startingOffsetY(t, k) = 153920 /\ startingOffsetUV(t, k) = 38560
    BY <1>10 DEF startingOffsetY, startingOffsetUV, InSecondRow, Column
  <2>2. PlaceX(t, k) = 320 /\ PlaceY(t, k) = 240
    BY <1>10 DEF PlaceX, PlaceY
  <2>3. QED BY <1>10, <2>1, <2>2 DEF PlacedRight, picture, Inside
<1> HIDE DEF outputWidth, outputHeight, Area, mappingToScalingWidth, mappingToScalingHeight
<1>11. QED
  BY <1>1, <1>2, <1>3, <1>4, <1>5, <1>6, <1>7, <1>8, <1>9, <1>10

LEMMA PlacedApart ==
  ASSUME NEW r, NEW s, NEW t \in 1 .. 4, NEW j \in 1 .. t, NEW k \in 1 .. t, j # k
  PROVE  Apart(picture(r, t, j), picture(s, t, k))
<1> DEFINE p == picture(r, t, j)
           q == picture(s, t, k)
<1>1. /\ p.x = PlaceX(t, j) /\ p.y = PlaceY(t, j) /\ q.x = PlaceX(t, k) /\ q.y = PlaceY(t, k)
      /\ {p.width, q.width} = {320} /\ {p.height, q.height} = {240}
  BY Placed DEF PlacedRight
<1> HIDE DEF p, q
<1>2. \/ PlaceX(t, j) + 320 <= PlaceX(t, k) \/ PlaceX(t, k) + 320 <= PlaceX(t, j)
      \/ PlaceY(t, j) + 240 <= PlaceY(t, k) \/ PlaceY(t, k) + 240 <= PlaceY(t, j)
  <2>1. CASE t = 2 BY <2>1 DEF PlaceX, PlaceY
  <2>2. CASE t = 3 BY <2>2 DEF PlaceX, PlaceY
  <2>3. CASE t = 4 BY <2>3 DEF PlaceX, PlaceY
  <2>4. QED BY <2>1, <2>2, <2>3
<1>3. p.width = 320 /\ q.width = 320 /\ p.height = 240 /\ q.height = 240
  BY <1>1
<1>4. Apart(p, q)
  BY <1>1, <1>2, <1>3 DEF Apart
<1>5. QED BY <1>4 DEF p, q

(***************************************************************************)
(* The invariant.                                                          *)
(***************************************************************************)
MixingInv == MixingTypeOK /\ ScalersKept /\ ScalersFit /\ PicturesFit /\ EverybodyElseIsHeard

(* A mix of pictures: the scalers of another size are given back before new   *)
(* ones are made, and the places are those of the ranks.                    *)
LEMMA PicturesPreserve ==
  ASSUME MixingInv, NEW rawData \in SUBSET Slots, mixPictures(rawData)
  PROVE  MixingInv'
<1> DEFINE t == Cardinality(rawData)
<1>1. /\ t \in 1 .. MAX_XCODING_INSTANCES /\ t \in Nat
      /\ \A s \in rawData : Rank(rawData, s) \in 1 .. t
  <2>1. IsFiniteSet(rawData) /\ t \in 0 .. MAX_XCODING_INSTANCES
    BY Ranks
  <2>2. t # 0
    BY <2>1, FS_EmptySet DEF mixPictures
  <2>3. QED BY <2>1, <2>2, Ranks, InstancesAssumption
<1> HIDE DEF t
<1>2. /\ valid' = rawData /\ heard' = Nobody /\ totalStreams' = t
      /\ pictures' = IF t > 4 THEN {} ELSE {picture(s, t, Rank(rawData, s)) : s \in rawData}
      /\ swsCtx' = [s \in Slots |->
           CASE s \in Kept(t) /\ swsCtx[s] # None -> swsCtx[s]
             [] s \in rawData /\ ~(s \in Kept(t) /\ swsCtx[s] # None) -> mappingToScalingWidth(t)
             [] OTHER -> None]
  BY DEF mixPictures, tryToInitSws, t
<1>3. \A s \in Slots : /\ swsCtx'[s] # None => swsCtx'[s] = mappingToScalingWidth(t)
                       /\ s \in rawData => swsCtx'[s] = mappingToScalingWidth(t)
  <2> TAKE s \in Slots
  <2>1. CASE s \in Kept(t) /\ swsCtx[s] # None
    <3>1. mappingToScalingWidth(totalStreams) = mappingToScalingWidth(t)
      BY <2>1 DEF Kept
    <3>2. swsCtx'[s] = swsCtx[s]
      BY <1>2, <2>1
    <3>3. QED BY <2>1, <3>1, <3>2 DEF MixingInv, ScalersKept
  <2>2. CASE s \in rawData /\ ~(s \in Kept(t) /\ swsCtx[s] # None)
    BY <1>2, <2>2
  <2>3. CASE s \notin rawData /\ ~(s \in Kept(t) /\ swsCtx[s] # None)
    BY <1>2, <2>3
  <2>4. QED BY <2>1, <2>2, <2>3
<1>4. ScalersKept' /\ ScalersFit'
  <2>1. ScalersKept'
    BY <1>2, <1>3 DEF ScalersKept
  <2>2. ScalersFit'
    BY <1>2, <1>3 DEF ScalersFit, t
  <2>3. QED BY <2>1, <2>2
<1>5. pictures' # {} => t \in 1 .. 4
  BY <1>1, <1>2
<1>6. \A p \in pictures' : \E s \in rawData :
        /\ p = picture(s, t, Rank(rawData, s)) /\ t \in 1 .. 4
        /\ Rank(rawData, s) \in 1 .. t /\ p.slot = s /\ Inside(p)
  <2> TAKE p \in pictures'
  <2>1. PICK s \in rawData : p = picture(s, t, Rank(rawData, s))
    BY <1>2
  <2>2. t \in 1 .. 4 /\ Rank(rawData, s) \in 1 .. t
    BY <1>1, <1>5
  <2>3. PlacedRight(s, t, Rank(rawData, s))
    BY <2>2, Placed
  <2>4. QED BY <2>1, <2>2, <2>3 DEF PlacedRight
<1>7. PicturesFit'
  <2> SUFFICES ASSUME pictures' # {}
               PROVE  /\ {p.slot : p \in pictures'} = valid'
                      /\ \A p \in pictures' : Inside(p)
                      /\ \A p, q \in pictures' : p # q => Apart(p, q)
    BY DEF PicturesFit, Inside, Apart
  <2>1. {p.slot : p \in pictures'} = valid'
    <3>1. \A s \in rawData : \E p \in pictures' : p.slot = s
      <4> TAKE s \in rawData
      <4>1. picture(s, t, Rank(rawData, s)) \in pictures'
        BY <1>2, <1>5
      <4>2. picture(s, t, Rank(rawData, s)).slot = s
        BY DEF picture
      <4>3. QED BY <4>1, <4>2
    <3>2. QED BY <1>2, <1>6, <3>1
  <2>2. ASSUME NEW p \in pictures', NEW q \in pictures', p # q
        PROVE  Apart(p, q)
    <3>1. PICK r \in rawData : /\ p = picture(r, t, Rank(rawData, r))
                               /\ t \in 1 .. 4 /\ Rank(rawData, r) \in 1 .. t
      BY <1>6
    <3>2. PICK s \in rawData : /\ q = picture(s, t, Rank(rawData, s))
                               /\ Rank(rawData, s) \in 1 .. t
      BY <1>6
    <3>3. Rank(rawData, r) # Rank(rawData, s)
      BY <2>2, <3>1, <3>2, TwoSlots
    <3>4. QED BY <3>1, <3>2, <3>3, PlacedApart
  <2>3. QED BY <1>6, <2>1, <2>2
<1>8. MixingTypeOK'
  <2>1. swsCtx' \in [Slots -> {320, 640, None}]
    <3>1. \A s \in Slots : swsCtx'[s] \in {320, 640, None}
      BY <1>3 DEF mappingToScalingWidth
    <3>2. QED BY <1>2, <3>1
  <2>2. totalStreams' \in 0 .. MAX_XCODING_INSTANCES
    BY <1>1, <1>2, InstancesAssumption
  <2>3. \A p \in pictures' : p.slot \in valid'
    BY <1>2, <1>6
  <2>4. DOMAIN heard' = {}
    BY <1>2 DEF Nobody
  <2>5. QED BY <1>2, <2>1, <2>2, <2>3, <2>4 DEF MixingTypeOK
<1>9. EverybodyElseIsHeard'
  <2>1. DOMAIN heard' = {}
    BY <1>2 DEF Nobody
  <2>2. QED BY <2>1 DEF EverybodyElseIsHeard
<1>10. QED BY <1>4, <1>7, <1>8, <1>9 DEF MixingInv

(* Nobody is the listener to everybody.                                       *)
LEMMA AllInIsNoSlot ==
  ASSUME NEW S \in SUBSET Slots
  PROVE  AllIn \notin S /\ S \ {AllIn} = S
<1>1. Slots \subseteq Nat
  BY InstancesAssumption DEF Slots
<1>2. AllIn \notin S
  BY <1>1, ListenerAssumption, Zenon
<1>3. QED BY <1>2, Zenon

(* The mixes of a participant are one, of everybody else, with four streams   *)
(* at most; that of everybody is one with three at most.                    *)
LEMMA MixOfParticipant ==
  ASSUME NEW rawData \in SUBSET Slots, NEW l \in rawData, Cardinality(rawData) <= 4
  PROVE  Mixes(rawData, l) = {rawData \ {l}}
<1> DEFINE t == Cardinality(rawData)
           others == rawData \ {l}
<1>1. IsFiniteSet(rawData) /\ t \in 0 .. MAX_XCODING_INSTANCES
  BY Ranks
<1>2. others \in SUBSET Slots /\ Cardinality(others) = t - 1
  BY <1>1, FS_RemoveElement
<1>3. Cardinality(others) \in 0 .. MAX_XCODING_INSTANCES /\ IsFiniteSet(others)
  BY <1>2, Ranks
<1>4. t \in {1, 2, 3, 4} /\ l # AllIn
  <2>1. l # AllIn
    BY ListenerAssumption, InstancesAssumption DEF Slots
  <2>2. QED BY <1>1, <1>2, <1>3, <2>1, InstancesAssumption
<1>5. FirstOf(others, t - 1) = others
  BY <1>2, AllOfThem
<1>6. t = 1 => others = {}
  BY <1>2, <1>3, FS_EmptySet
<1> HIDE DEF t
<1>7. Mixes(rawData, l) = (IF t = 1 THEN {{}} ELSE {FirstOf(others, t - 1)})
  <2>1. CASE t = 1 BY <1>4, <2>1 DEF Mixes, findIndexes, t
  <2>2. CASE t \in {2, 3, 4} BY <1>4, <2>2 DEF Mixes, findIndexes, t
  <2>3. QED BY <1>4, <2>1, <2>2
<1>8. QED BY <1>5, <1>6, <1>7

LEMMA MixOfAll ==
  ASSUME NEW rawData \in SUBSET Slots, rawData # {}, Cardinality(rawData) <= 3
  PROVE  Mixes(rawData, AllIn) = {rawData}
<1> DEFINE t == Cardinality(rawData)
<1>1. IsFiniteSet(rawData) /\ t \in 0 .. MAX_XCODING_INSTANCES
  BY Ranks
<1>2. t \in {1, 2, 3}
  BY <1>1, FS_EmptySet, InstancesAssumption
<1>3. rawData \ {AllIn} = rawData
  BY AllInIsNoSlot
<1>4. FirstOf(rawData, t) = rawData
  BY AllOfThem
<1> HIDE DEF t
<1>5. Mixes(rawData, AllIn) = {FirstOf(rawData, t)}
  <2>1. CASE t = 1 BY <1>3, <2>1 DEF Mixes, findIndexes, t
  <2>2. CASE t \in {2, 3} BY <1>3, <2>2 DEF Mixes, findIndexes, t
  <2>3. QED BY <1>2, <2>1, <2>2
<1>6. QED BY <1>4, <1>5

(* Whatever the number, a mix is of streams that are there.                   *)
LEMMA MixesOfStreams ==
  ASSUME NEW rawData \in SUBSET Slots, rawData # {}, NEW l \in rawData \cup {AllIn}
  PROVE  /\ Mixes(rawData, l) # {}
         /\ \A mix \in Mixes(rawData, l) : mix \subseteq rawData
<1> DEFINE t == Cardinality(rawData)
<1>1. IsFiniteSet(rawData) /\ t \in 0 .. MAX_XCODING_INSTANCES
  BY Ranks
<1>2. t \in Nat \ {0}
  BY <1>1, FS_EmptySet, InstancesAssumption
<1> HIDE DEF t
<1>3. CASE l = AllIn
  <2>1. CASE t = 1 BY <1>3, <2>1 DEF Mixes, findIndexes, FirstOf, t
  <2>2. CASE t \in {2, 3} BY <1>3, <2>2 DEF Mixes, findIndexes, FirstOf, t
  <2>3. CASE t = 4 BY <1>3, <2>3 DEF Mixes, t
  <2>4. CASE t > 4
    <3>1. Mixes(rawData, l) = {{}}
      BY <1>3, <1>2, <2>4 DEF Mixes, t
    <3>2. QED BY <3>1, Zenon
  <2>5. QED BY <1>2, <2>1, <2>2, <2>3, <2>4
<1>4. CASE l # AllIn
  <2>1. CASE t = 1
    <3>1. Mixes(rawData, l) = {{}}
      BY <1>4, <2>1 DEF Mixes, t
    <3>2. QED BY <3>1, Zenon
  <2>2. CASE t \in {2, 3, 4} BY <1>4, <2>2 DEF Mixes, findIndexes, FirstOf, t
  <2>3. CASE t > 4
    <3>1. Mixes(rawData, l) = {{}}
      BY <1>4, <1>2, <2>3 DEF Mixes, t
    <3>2. QED BY <3>1, Zenon
  <2>4. QED BY <1>2, <2>1, <2>2, <2>3
<1>5. QED BY <1>3, <1>4

(* A mix of audio.                                                            *)
LEMMA AudioPreserves ==
  ASSUME MixingInv, NEW rawData \in SUBSET Slots, NEW mobile \in SUBSET rawData,
         mixAudio(rawData, mobile)
  PROVE  MixingInv'
<1>1. /\ rawData # {} /\ valid' = rawData /\ pictures' = {}
      /\ swsCtx' = swsCtx /\ totalStreams' = totalStreams
  BY DEF mixAudio
<1>2. PICK all \in Mixes(rawData, AllIn) :
        heard' = [l \in mobile \cup {AllIn} |->
                    IF l = AllIn THEN all ELSE CHOOSE m \in Mixes(rawData, l) : TRUE]
  BY DEF mixAudio
<1>3. DOMAIN heard' = mobile \cup {AllIn}
  BY <1>2
<1>4. \A l \in DOMAIN heard' : l \in rawData \cup {AllIn} /\ heard'[l] \in Mixes(rawData, l)
  <2> TAKE l \in DOMAIN heard'
  <2>1. CASE l = AllIn BY <1>2, <2>1
  <2>2. CASE l # AllIn
    <3>1. l \in rawData
      BY <1>3, <2>2
    <3>2. Mixes(rawData, l) # {}
      BY <1>1, <3>1, MixesOfStreams
    <3>3. heard'[l] = CHOOSE m \in Mixes(rawData, l) : TRUE
      BY <1>2, <1>3, <2>2
    <3>4. QED BY <3>1, <3>2, <3>3
  <2>3. QED BY <2>1, <2>2
<1>5. MixingTypeOK'
  <2>1. \A l \in DOMAIN heard' : heard'[l] \subseteq rawData
    BY <1>1, <1>4, MixesOfStreams
  <2>2. QED BY <1>1, <1>4, <2>1 DEF MixingTypeOK, MixingInv
<1>6. ScalersKept' /\ ScalersFit' /\ PicturesFit'
  BY <1>1 DEF MixingInv, ScalersKept, ScalersFit, PicturesFit
<1>7. EverybodyElseIsHeard'
  <2> SUFFICES ASSUME NEW l \in DOMAIN heard',
                      Cardinality(rawData) <= (IF l = AllIn THEN 3 ELSE 4)
               PROVE  heard'[l] = rawData \ {l}
    BY <1>1 DEF EverybodyElseIsHeard
  <2>1. CASE l = AllIn
    <3>1. rawData \ {AllIn} = rawData
      BY AllInIsNoSlot
    <3>2. QED BY <1>1, <1>4, <2>1, <3>1, MixOfAll
  <2>2. CASE l # AllIn
    <3>1. l \in rawData /\ Cardinality(rawData) <= 4
      BY <1>4, <2>2
    <3>2. QED BY <1>4, <3>1, MixOfParticipant
  <2>3. QED BY <2>1, <2>2
<1>8. QED BY <1>5, <1>6, <1>7 DEF MixingInv

(* The invariant holds in every state of every sequence of mixes.            *)
THEOREM MixingInvariant == MixingSpec => []MixingInv
<1>1. MixingInit => MixingInv
  <2> SUFFICES ASSUME MixingInit PROVE MixingInv
    OBVIOUS
  <2>1. /\ swsCtx = [s \in Slots |-> None] /\ totalStreams = 0
        /\ valid = {} /\ pictures = {} /\ DOMAIN heard = {}
    BY DEF MixingInit, Nobody
  <2>2. QED BY <2>1, InstancesAssumption
            DEF MixingInv, MixingTypeOK, ScalersKept, ScalersFit, PicturesFit, EverybodyElseIsHeard
<1>2. MixingInv /\ [PicturesNext \/ AudioNext]_mixingVars => MixingInv'
  <2> SUFFICES ASSUME MixingInv, [PicturesNext \/ AudioNext]_mixingVars PROVE MixingInv'
    OBVIOUS
  <2>1. CASE PicturesNext
    BY <2>1, PicturesPreserve DEF PicturesNext
  <2>2. CASE AudioNext
    BY <2>2, AudioPreserves DEF AudioNext
  <2>3. CASE UNCHANGED mixingVars
    BY <2>3 DEF mixingVars, MixingInv, MixingTypeOK, ScalersKept, ScalersFit, PicturesFit,
                EverybodyElseIsHeard
  <2>4. QED BY <2>1, <2>2, <2>3
<1>3. QED BY <1>1, <1>2, PTL DEF MixingSpec

(* A scaler has a size that fits the frame, and a listener hears streams.       *)
THEOREM MixingTypeCorrect == MixingSpec => []MixingTypeOK
<1>1. MixingInv => MixingTypeOK
  BY DEF MixingInv
<1>2. QED BY <1>1, MixingInvariant, PTL

(* Whoever comes and goes, a stream that is mixed has a scaler of the size     *)
(* its place in the picture asks for.                                       *)
THEOREM ScalersAlwaysFit == MixingSpec => []ScalersFit
<1>1. MixingInv => ScalersFit
  BY DEF MixingInv
<1>2. QED BY <1>1, MixingInvariant, PTL

(* Up to four pictures never overlap nor leave the frame, in any plane.       *)
THEOREM PicturesAlwaysFit == MixingSpec => []PicturesFit
<1>1. MixingInv => PicturesFit
  BY DEF MixingInv
<1>2. QED BY <1>1, MixingInvariant, PTL

(* Nobody hears his own voice, and nobody else is missing from a mix.         *)
THEOREM OthersAlwaysHeard == MixingSpec => []EverybodyElseIsHeard
<1>1. MixingInv => EverybodyElseIsHeard
  BY DEF MixingInv
<1>2. QED BY <1>1, MixingInvariant, PTL

-----------------------------------------------------------------------------
(* FLVTags *)
(* A tag's bytes, one by one: byte i of tag n, of the given length and time.   *)
Field == {"signature", "size", "rest", "data", "prev"}
Byte == [field : Field, value : Nat]
Tag == [ts : Nat, data : Seq(Byte)]
TagLen(len) == SizeLen + RestLen + len + PrevLen
IsByte(b, i, n, len, ts) ==
  /\ i <= SizeLen => b = [field |-> "size", value |-> len]
  /\ SizeLen < i /\ i <= SizeLen + RestLen => b = [field |-> "rest", value |-> ts]
  /\ SizeLen + RestLen < i /\ i <= SizeLen + RestLen + len => b = [field |-> "data", value |-> n]
  /\ SizeLen + RestLen + len < i => b = [field |-> "prev", value |-> SizeLen + RestLen + len]
HasTag(buf, at, n, len, ts) ==
  /\ at + TagLen(len) <= Len(buf)
  /\ \A i \in 1 .. TagLen(len) : IsByte(buf[at + i], i, n, len, ts)

(* What was written, given the lengths L of the tags' data: where each tag    *)
(* begins among all the bytes, and what they are.                          *)
Moved == IF way = "karaoke" THEN AdjustPTS ELSE 0
IsStream(L, P, W) ==
  /\ P \in [0 .. Len(L) -> Nat] /\ P[0] = 0
  /\ \A n \in 1 .. Len(L) : P[n] = P[n - 1] + TagLen(L[n])
  /\ \A m, n \in 0 .. Len(L) : m <= n => P[m] <= P[n]
  /\ W \in Seq(Byte) /\ Len(W) = P[Len(L)]
  /\ \A n \in 1 .. Len(L) : HasTag(W, P[n - 1], n, L[n], n)

(* How far the parser has come: Parsed tags, and the bytes it keeps of the next. *)
Parsed == Len(handled) + Len(frames)
Taken(P) == P[Parsed] + Len(tagBuf)
IsRest(P, W) ==
  /\ Parsed \in 0 .. tags
  /\ Taken(P) + Len(chunk) + Len(bytes) = Len(W)
  /\ \A i \in 1 .. Len(chunk) : chunk[i] = W[Taken(P) + i]
  /\ \A i \in 1 .. Len(bytes) : bytes[i] = W[Taken(P) + Len(chunk) + i]
TagKept(L) ==
  /\ tagBuf # <<>> => Parsed < tags
  /\ scanState = "SCAN_HEADER" =>
       /\ Len(tagBuf) < TagHeaderLen
       /\ \A i \in 1 .. Len(tagBuf) : IsByte(tagBuf[i], i, Parsed + 1, L[Parsed + 1], Parsed + 1)
  /\ scanState = "SCAN_REMAINING_TAG" =>
       /\ TagHeaderLen <= Len(tagBuf) /\ Len(tagBuf) < TagSize /\ TagSize = TagLen(L[Parsed + 1])
       /\ \A i \in 1 .. Len(tagBuf) : IsByte(tagBuf[i], i, Parsed + 1, L[Parsed + 1], Parsed + 1 + Moved)

(* What is on the way to onFrameGenerated: a karaoke tag each, or a mixed frame. *)
KaraokeFrames(L) ==
  /\ way = "publisher" => frames = <<>>
  /\ \A j \in 1 .. Len(frames) :
       LET n == Len(handled) + j
       IN  /\ Len(frames[j]) = TagLen(L[n])
           /\ HasTag(frames[j], 0, n, L[n], n + Moved)
  /\ \A n \in 1 .. tags : expected[n] = TagOf(n, L[n], n + Moved)
  /\ Len(expected) = tags /\ curIndex = 0

HeaderLen(L, n) == IF n = 1 THEN SignatureLen + TagLen(L[1]) ELSE 0
MixedFrames(L) ==
  /\ flvHeaderSent <=> tags > 0
  /\ \A j \in 1 .. Len(frames) :
       LET n == tags - Len(frames) + j
       IN  /\ Len(frames[j]) = HeaderLen(L, n) + TagLen(L[n])
           /\ HasTag(frames[j], HeaderLen(L, n), n, L[n], n)
           /\ n = 1 => frames[j][1].field = "signature" /\ HasTag(frames[j], SignatureLen, 0, L[n], 0)
  /\ Len(expected) = IF tags = 0 THEN 0 ELSE tags + 1
  /\ tags > 0 => expected[1] = TagOf(0, L[1], 0)
  /\ \A n \in 1 .. tags : expected[n + 1] = TagOf(n, L[n], n)
  /\ \/ Len(frames) = tags /\ curIndex = 0 /\ Len(handled) = 0
     \/ Len(frames) = tags /\ tags > 0 /\ curIndex = HeaderLen(L, 1) /\ Len(handled) = 1
     \/ Len(frames) < tags /\ curIndex = 0 /\ Len(handled) = tags - Len(frames) + 1

TagTypes ==
  /\ way \in {"publisher", "karaoke", "mixed"} /\ tags \in Nat /\ flvHeaderSent \in BOOLEAN
  /\ bytes \in Seq(Byte) /\ chunk \in Seq(Byte) /\ tagBuf \in Seq(Byte)
  /\ scanState \in {"SCAN_HEADER", "SCAN_REMAINING_TAG"} /\ curFlvTagSize \in Nat
  /\ frames \in Seq(Seq(Byte)) /\ curIndex \in Nat
  /\ expected \in Seq(Tag) /\ handled \in Seq(Tag)
HandedOn == /\ Len(handled) <= Len(expected)
            /\ \A i \in 1 .. Len(handled) : handled[i] = expected[i]

TagsFollow(L) ==
  /\ L \in Seq(TagLens) /\ Len(L) = tags
  /\ IF way = "mixed"
     THEN MixedFrames(L) /\ bytes = <<>> /\ chunk = <<>> /\ tagBuf = <<>> /\ scanState = "SCAN_HEADER"
     ELSE KaraokeFrames(L) /\ \E P, W : IsStream(L, P, W) /\ IsRest(P, W) /\ TagKept(L)
TagsInv == TagTypes /\ HandedOn /\ \E L : TagsFollow(L)

-----------------------------------------------------------------------------
LEMMA Lens ==
  /\ SizeLen \in Nat \ {0} /\ RestLen \in Nat \ {0} /\ PrevLen \in Nat \ {0}
  /\ SignatureLen \in Nat \ {0} /\ ChunkLen \in Nat \ {0} /\ AdjustPTS \in Nat
  /\ \A len \in TagLens : len \in Nat \ {0} /\ TagLen(len) \in Nat \ {0}
<1>1. /\ SizeLen \in Nat \ {0} /\ RestLen \in Nat \ {0} /\ PrevLen \in Nat \ {0}
      /\ SignatureLen \in Nat \ {0} /\ ChunkLen \in Nat \ {0} /\ AdjustPTS \in Nat
      /\ \A len \in TagLens : len \in Nat \ {0}
  BY TagsAssumption
<1>2. QED BY <1>1 DEF TagLen

LEMMA JoinedLens ==
  ASSUME NEW B, NEW s \in Seq(B), NEW t \in Seq(B), NEW m, NEW k, Len(s) = m, Len(t) = k
  PROVE  /\ s \o t \in Seq(B) /\ Len(s \o t) = m + k
         /\ \A x \in 1 .. m : (s \o t)[x] = s[x]
         /\ \A x \in 1 .. k : (s \o t)[m + x] = t[x]
<1>1. /\ s \o t \in Seq(B) /\ Len(s \o t) = Len(s) + Len(t)
      /\ \A x \in 1 .. Len(s) : (s \o t)[x] = s[x]
      /\ \A x \in 1 .. Len(t) : (s \o t)[Len(s) + x] = t[x]
  BY ONLY s \in Seq(B), t \in Seq(B), Joined
<1>2. QED BY ONLY <1>1, Len(s) = m, Len(t) = k

LEMMA BytesOfField ==
  ASSUME NEW field \in Field, NEW len \in Nat, NEW value \in Nat
  PROVE  /\ BytesOf(field, len, value) \in Seq(Byte) /\ Len(BytesOf(field, len, value)) = len
         /\ \A i \in 1 .. len : BytesOf(field, len, value)[i] = [field |-> field, value |-> value]
<1>1. [field |-> field, value |-> value] \in Byte
  BY DEF Byte
<1>2. QED BY <1>1 DEF BytesOf

(* The bytes that are written for a tag are those of the tag.                  *)
LEMMA TagBytesAre ==
  ASSUME NEW n \in Nat, NEW len \in TagLens
  PROVE  /\ TagBytes(n, len) \in Seq(Byte) /\ Len(TagBytes(n, len)) = TagLen(len)
         /\ HasTag(TagBytes(n, len), 0, n, len, n)
<1> DEFINE A == BytesOf("size", SizeLen, len)
           B == BytesOf("rest", RestLen, n)
           C == BytesOf("data", len, n)
           D == BytesOf("prev", PrevLen, SizeLen + RestLen + len)
<1>1. /\ SizeLen \in Nat \ {0} /\ RestLen \in Nat \ {0} /\ PrevLen \in Nat \ {0} /\ len \in Nat \ {0}
      /\ SizeLen + RestLen + len \in Nat
  BY Lens
<1>2. /\ A \in Seq(Byte) /\ Len(A) = SizeLen
      /\ \A i \in 1 .. SizeLen : A[i] = [field |-> "size", value |-> len]
  <2>1. "size" \in Field /\ SizeLen \in Nat /\ len \in Nat
    BY <1>1 DEF Field
  <2>2. QED BY ONLY <2>1, BytesOfField
<1>3. /\ B \in Seq(Byte) /\ Len(B) = RestLen
      /\ \A i \in 1 .. RestLen : B[i] = [field |-> "rest", value |-> n]
  <2>1. "rest" \in Field /\ RestLen \in Nat /\ n \in Nat
    BY <1>1 DEF Field
  <2>2. QED BY ONLY <2>1, BytesOfField
<1>4. /\ C \in Seq(Byte) /\ Len(C) = len
      /\ \A i \in 1 .. len : C[i] = [field |-> "data", value |-> n]
  <2>1. "data" \in Field /\ len \in Nat /\ n \in Nat
    BY <1>1 DEF Field
  <2>2. QED BY ONLY <2>1, BytesOfField
<1>5. /\ D \in Seq(Byte) /\ Len(D) = PrevLen
      /\ \A i \in 1 .. PrevLen : D[i] = [field |-> "prev", value |-> SizeLen + RestLen + len]
  <2>1. "prev" \in Field /\ PrevLen \in Nat /\ SizeLen + RestLen + len \in Nat
    BY <1>1 DEF Field
  <2>2. QED BY ONLY <2>1, BytesOfField
<1> DEFINE E == A \o B
           F == E \o C
           T == F \o D
<1>6. TagBytes(n, len) = T
  BY DEF TagBytes
<1> HIDE DEF A, B, C, D
<1>7. /\ E \in Seq(Byte) /\ Len(E) = SizeLen + RestLen
      /\ \A i \in 1 .. SizeLen : E[i] = A[i]
      /\ \A i \in 1 .. RestLen : E[SizeLen + i] = B[i]
  BY ONLY <1>2, <1>3, JoinedLens
<1> HIDE DEF E
<1>8. /\ F \in Seq(Byte) /\ Len(F) = SizeLen + RestLen + len
      /\ \A i \in 1 .. SizeLen + RestLen : F[i] = E[i]
      /\ \A i \in 1 .. len : F[SizeLen + RestLen + i] = C[i]
  BY ONLY <1>4, <1>7, JoinedLens
<1> HIDE DEF F
<1>9. /\ T \in Seq(Byte) /\ Len(T) = SizeLen + RestLen + len + PrevLen
      /\ \A i \in 1 .. SizeLen + RestLen + len : T[i] = F[i]
      /\ \A i \in 1 .. PrevLen : T[SizeLen + RestLen + len + i] = D[i]
  BY ONLY <1>5, <1>8, JoinedLens
<1> HIDE DEF T
<1>10. ASSUME NEW i \in 1 .. TagLen(len) PROVE IsByte(T[i], i, n, len, n)
  <2>1. i \in Nat \ {0} /\ i <= SizeLen + RestLen + len + PrevLen
    BY <1>1 DEF TagLen
  <2>2. i <= SizeLen => T[i] = [field |-> "size", value |-> len]
    <3>1. i <= SizeLen => i \in 1 .. SizeLen + RestLen + len /\ i \in 1 .. SizeLen + RestLen /\ i \in 1 .. SizeLen
      BY <1>1, <2>1
    <3>2. QED BY <3>1, <1>2, <1>7, <1>8, <1>9
  <2>3. SizeLen < i /\ i <= SizeLen + RestLen => T[i] = [field |-> "rest", value |-> n]
    <3>1. SizeLen < i /\ i <= SizeLen + RestLen =>
            /\ i \in 1 .. SizeLen + RestLen + len /\ i \in 1 .. SizeLen + RestLen
            /\ i - SizeLen \in 1 .. RestLen /\ SizeLen + (i - SizeLen) = i
      BY <1>1, <2>1
    <3> SUFFICES ASSUME SizeLen < i, i <= SizeLen + RestLen PROVE T[i] = [field |-> "rest", value |-> n]
      OBVIOUS
    <3>2. T[i] = E[i] /\ E[i] = B[i - SizeLen]
      BY <3>1, <1>7, <1>8, <1>9
    <3>3. QED BY <3>1, <3>2, <1>3
  <2>4. SizeLen + RestLen < i /\ i <= SizeLen + RestLen + len => T[i] = [field |-> "data", value |-> n]
    <3>1. SizeLen + RestLen < i /\ i <= SizeLen + RestLen + len =>
            /\ i \in 1 .. SizeLen + RestLen + len
            /\ i - (SizeLen + RestLen) \in 1 .. len /\ SizeLen + RestLen + (i - (SizeLen + RestLen)) = i
      BY <1>1, <2>1
    <3>2. QED BY <3>1, <1>4, <1>8, <1>9
  <2>5. SizeLen + RestLen + len < i => T[i] = [field |-> "prev", value |-> SizeLen + RestLen + len]
    <3>1. SizeLen + RestLen + len < i =>
            /\ i - (SizeLen + RestLen + len) \in 1 .. PrevLen
            /\ SizeLen + RestLen + len + (i - (SizeLen + RestLen + len)) = i
      BY <1>1, <2>1
    <3>2. QED BY <3>1, <1>5, <1>9
  <2>6. QED BY <2>2, <2>3, <2>4, <2>5 DEF IsByte
<1>11. Len(T) = TagLen(len) /\ 0 + TagLen(len) <= Len(T)
  BY <1>1, <1>9 DEF TagLen
<1>12. \A i \in 1 .. TagLen(len) : IsByte(T[0 + i], i, n, len, n)
  BY <1>1, <1>10 DEF TagLen
<1>13. QED BY <1>6, <1>9, <1>11, <1>12 DEF HasTag

(* onFrameGenerated and the parsers read out of a tag's bytes what was written. *)
LEMMA TagTaken ==
  ASSUME NEW buf \in Seq(Byte), NEW at \in Nat, NEW n \in Nat, NEW len \in TagLens, NEW ts \in Nat,
         HasTag(buf, at, n, len, ts)
  PROVE  /\ TagAt(buf, at) = TagOf(n, len, ts) /\ TagOf(n, len, ts) \in Tag
         /\ FieldAt(buf, at + 1, "size") = len /\ buf[at + 1].field = "size"
<1>1. /\ SizeLen \in Nat \ {0} /\ RestLen \in Nat \ {0} /\ PrevLen \in Nat \ {0} /\ len \in Nat \ {0}
      /\ Len(buf) \in Nat /\ at + SizeLen + RestLen + len + PrevLen <= Len(buf)
  BY Lens DEF HasTag, TagLen
<1>2. ASSUME NEW i \in 1 .. SizeLen + RestLen + len + PrevLen
      PROVE  IsByte(buf[at + i], i, n, len, ts) /\ at + i \in 1 .. Len(buf) /\ at + i \in DOMAIN buf
  <2>1. i \in 1 .. TagLen(len)
    BY <1>1 DEF TagLen
  <2>2. at + i \in 1 .. Len(buf)
    BY <1>1
  <2>3. QED BY <2>1, <2>2 DEF HasTag
<1>3. buf[at + 1] = [field |-> "size", value |-> len] /\ at + 1 \in DOMAIN buf
  <2>1. 1 \in 1 .. SizeLen + RestLen + len + PrevLen /\ 1 <= SizeLen
    BY <1>1
  <2>2. QED BY <1>2, <2>1 DEF IsByte
<1>4. FieldAt(buf, at + 1, "size") = len
  BY <1>3 DEF FieldAt
<1>5. buf[at + SizeLen + 1] = [field |-> "rest", value |-> ts] /\ at + SizeLen + 1 \in DOMAIN buf
  <2>1. /\ SizeLen + 1 \in 1 .. SizeLen + RestLen + len + PrevLen
        /\ SizeLen < SizeLen + 1 /\ SizeLen + 1 <= SizeLen + RestLen
        /\ at + (SizeLen + 1) = at + SizeLen + 1
    BY <1>1
  <2>2. QED BY <1>2, <2>1 DEF IsByte
<1>6. FieldAt(buf, at + SizeLen + 1, "rest") = ts
  BY <1>5 DEF FieldAt
<1> DEFINE a == at + SizeLen + RestLen
           S == SubSeq(buf, a + 1, a + len)
           C == BytesOf("data", len, n)
<1>7. a \in Nat /\ a + len <= Len(buf)
  BY <1>1
<1>8. S \in Seq(Byte) /\ Len(S) = len /\ \A i \in 1 .. len : S[i] = buf[a + i]
  <2>1. a + 1 \in Int /\ a + len \in Int /\ \A i \in (a + 1) .. (a + len) : buf[i] \in Byte
    BY <1>1, <1>7
  <2> HIDE DEF a
  <2>2. /\ S \in Seq(Byte) /\ Len(S) = IF a + 1 <= a + len THEN (a + len) - (a + 1) + 1 ELSE 0
        /\ \A i \in 1 .. (a + len) - (a + 1) + 1 : S[i] = buf[(a + 1) + i - 1]
    BY <2>1, SubSeqProperties
  <2>3. /\ a + 1 <= a + len /\ (a + len) - (a + 1) + 1 = len
        /\ \A i \in 1 .. len : (a + 1) + i - 1 = a + i
    BY <1>1, <1>7
  <2> HIDE DEF S
  <2>4. QED BY ONLY <2>2, <2>3
<1>9. C \in Seq(Byte) /\ Len(C) = len /\ \A i \in 1 .. len : C[i] = [field |-> "data", value |-> n]
  <2>1. "data" \in Field /\ len \in Nat /\ n \in Nat
    BY <1>1 DEF Field
  <2>2. QED BY ONLY <2>1, BytesOfField
<1>10. \A i \in 1 .. len : buf[a + i] = [field |-> "data", value |-> n]
  <2> TAKE i \in 1 .. len
  <2>1. /\ SizeLen + RestLen + i \in 1 .. SizeLen + RestLen + len + PrevLen
        /\ SizeLen + RestLen < SizeLen + RestLen + i /\ SizeLen + RestLen + i <= SizeLen + RestLen + len
        /\ at + (SizeLen + RestLen + i) = a + i
    BY <1>1
  <2> HIDE DEF a
  <2>2. QED BY <1>2, <2>1 DEF IsByte
<1>11. S = C
  <2> HIDE DEF S, C, a
  <2>1. QED BY <1>8, <1>9, <1>10, SeqEqual
<1>12. TagAt(buf, at) = TagOf(n, len, ts)
  <2>1. TagAt(buf, at) = [ts |-> ts, data |-> S]
    BY <1>4, <1>6 DEF TagAt
  <2>2. TagOf(n, len, ts) = [ts |-> ts, data |-> C]
    BY DEF TagOf
  <2>3. QED BY <1>11, <2>1, <2>2
<1>13. TagOf(n, len, ts) \in Tag
  BY <1>9 DEF TagOf, Tag
<1>14. QED BY <1>3, <1>4, <1>12, <1>13

LEMMA Appended ==
  ASSUME NEW B, NEW s \in Seq(B), NEW e \in B
  PROVE  /\ Append(s, e) \in Seq(B) /\ Len(Append(s, e)) = Len(s) + 1
         /\ \A i \in 1 .. Len(s) : Append(s, e)[i] = s[i]
         /\ Append(s, e)[Len(s) + 1] = e
<1>1. Append(s, e) \in Seq(B) /\ Len(Append(s, e)) = Len(s) + 1
  OBVIOUS
<1>2. \A i \in 1 .. Len(s) : Append(s, e)[i] = s[i]
  OBVIOUS
<1>3. Append(s, e)[Len(s) + 1] = e
  OBVIOUS
<1>4. QED BY <1>1, <1>2, <1>3

LEMMA InitTags == TagsInit => TagsInv
<1> SUFFICES ASSUME TagsInit PROVE TagsInv
  OBVIOUS
<1>1. /\ Len(<<>>) = 0 /\ <<>> \in Seq(Byte) /\ <<>> \in Seq(Seq(Byte)) /\ <<>> \in Seq(Tag)
      /\ <<>> \in Seq(TagLens)
  OBVIOUS
<1>2. TagTypes /\ HandedOn
  <2>1. /\ way \in {"publisher", "karaoke", "mixed"} /\ tags \in Nat /\ flvHeaderSent \in BOOLEAN
        /\ bytes \in Seq(Byte) /\ chunk \in Seq(Byte) /\ tagBuf \in Seq(Byte)
    BY <1>1 DEF TagsInit
  <2>2. /\ scanState \in {"SCAN_HEADER", "SCAN_REMAINING_TAG"} /\ curFlvTagSize \in Nat
        /\ frames \in Seq(Seq(Byte)) /\ curIndex \in Nat
    BY <1>1 DEF TagsInit
  <2>3. expected \in Seq(Tag) /\ handled \in Seq(Tag) /\ Len(handled) = 0 /\ Len(expected) = 0
    BY <1>1 DEF TagsInit
  <2>4. QED BY <2>1, <2>2, <2>3 DEF TagTypes, HandedOn
<1>3. way = "mixed" => MixedFrames(<<>>)
  BY <1>1 DEF TagsInit, MixedFrames
<1>4. way # "mixed" => KaraokeFrames(<<>>)
  BY <1>1 DEF TagsInit, KaraokeFrames
<1> DEFINE P == [n \in 0 .. 0 |-> 0]
<1>5. IsStream(<<>>, P, <<>>)
  <2>1. P \in [0 .. 0 -> Nat] /\ P[0] = 0
    OBVIOUS
  <2> HIDE DEF P
  <2>2. \A m, n \in 0 .. 0 : m <= n => P[m] <= P[n]
    <3>1. \A m, n \in 0 .. 0 : m = 0 /\ n = 0
      OBVIOUS
    <3>2. QED BY <2>1, <3>1
  <2>3. QED BY <1>1, <2>1, <2>2 DEF IsStream
<1>6. IsRest(P, <<>>) /\ TagKept(<<>>)
  <2>1. P[0] = 0
    OBVIOUS
  <2>2. TagHeaderLen \in Nat \ {0}
    BY Lens DEF TagHeaderLen
  <2> HIDE DEF P
  <2>3. Parsed = 0 /\ tags = 0 /\ tagBuf = <<>> /\ chunk = <<>> /\ bytes = <<>> /\ scanState = "SCAN_HEADER"
    BY <1>1 DEF TagsInit, Parsed
  <2>4. QED BY <1>1, <2>1, <2>2, <2>3 DEF IsRest, Taken, TagKept
<1>7. TagsFollow(<<>>)
  BY <1>1, <1>3, <1>4, <1>5, <1>6 DEF TagsInit, TagsFollow
<1>8. QED BY <1>2, <1>7 DEF TagsInv

(* Writing a tag extends the stream.                                           *)
LEMMA StreamGrows ==
  ASSUME NEW L \in Seq(TagLens), NEW P, NEW W, IsStream(L, P, W), NEW len \in TagLens
  PROVE  \E Q :
           /\ IsStream(Append(L, len), Q, W \o TagBytes(Len(L) + 1, len))
           /\ \A n \in 0 .. Len(L) : Q[n] = P[n]
<1> DEFINE N == Len(L)
           T == TagBytes(N + 1, len)
           Q == [n \in 0 .. N + 1 |-> IF n = N + 1 THEN P[N] + TagLen(len) ELSE P[n]]
           M == Append(L, len)
           V == W \o T
<1>1. N \in Nat /\ TagLen(len) \in Nat \ {0}
  BY Lens
<1>2. M \in Seq(TagLens) /\ Len(M) = N + 1 /\ M[N + 1] = len /\ \A n \in 1 .. N : M[n] = L[n]
  BY Appended
<1>3. T \in Seq(Byte) /\ Len(T) = TagLen(len) /\ HasTag(T, 0, N + 1, len, N + 1)
  BY <1>1, TagBytesAre
<1>4. /\ P \in [0 .. N -> Nat] /\ P[0] = 0
      /\ \A n \in 1 .. N : P[n] = P[n - 1] + TagLen(L[n])
      /\ \A m, n \in 0 .. N : m <= n => P[m] <= P[n]
      /\ W \in Seq(Byte) /\ Len(W) = P[N]
      /\ \A n \in 1 .. N : HasTag(W, P[n - 1], n, L[n], n)
  BY DEF IsStream
<1> HIDE DEF T, M, N
<1>5. /\ V \in Seq(Byte) /\ Len(V) = P[N] + TagLen(len)
      /\ \A i \in 1 .. P[N] : V[i] = W[i]
      /\ \A i \in 1 .. TagLen(len) : V[P[N] + i] = T[i]
  <2>1. T \in Seq(Byte) /\ W \in Seq(Byte)
    BY <1>3, <1>4
  <2>2. /\ V \in Seq(Byte) /\ Len(V) = Len(W) + Len(T)
        /\ \A i \in 1 .. Len(W) : V[i] = W[i]
        /\ \A i \in 1 .. Len(T) : V[Len(W) + i] = T[i]
    BY ONLY <2>1, Joined
  <2>3. Len(T) = TagLen(len) /\ Len(W) = P[N]
    BY <1>3, <1>4
  <2> HIDE DEF V
  <2>4. QED BY ONLY <2>2, <2>3
<1>6. /\ \A n \in 0 .. N : Q[n] = P[n]
      /\ Q[N + 1] = P[N] + TagLen(len) /\ P[N] \in Nat /\ Q \in [0 .. N + 1 -> Nat]
  <2>1. P[N] \in Nat /\ P[N] + TagLen(len) \in Nat
    BY <1>1, <1>4
  <2>2. \A n \in 0 .. N : n # N + 1 /\ P[n] \in Nat
    BY <1>1, <1>4
  <2>3. QED BY <1>1, <2>1, <2>2
<1> HIDE DEF V, Q
<1>7. Q[0] = 0 /\ \A n \in 1 .. N + 1 : Q[n] = Q[n - 1] + TagLen(M[n])
  <2>1. Q[0] = 0
    BY <1>1, <1>4, <1>6
  <2>2. ASSUME NEW n \in 1 .. N + 1 PROVE Q[n] = Q[n - 1] + TagLen(M[n])
    <3>1. CASE n = N + 1
      <4>1. n - 1 \in 0 .. N /\ n - 1 = N
        BY <1>1, <3>1
      <4>2. QED BY <1>2, <1>6, <3>1, <4>1
    <3>2. CASE n # N + 1
      <4>1. n \in 1 .. N /\ n \in 0 .. N /\ n - 1 \in 0 .. N
        BY <1>1, <3>2
      <4>2. QED BY <1>2, <1>4, <1>6, <4>1
    <3>3. QED BY <3>1, <3>2
  <2>3. QED BY <2>1, <2>2
<1>8. ASSUME NEW m \in 0 .. N + 1, NEW n \in 0 .. N + 1, m <= n PROVE Q[m] <= Q[n]
  <2>1. CASE n = N + 1 /\ m = N + 1
    BY <1>1, <1>6, <2>1
  <2>2. CASE n = N + 1 /\ m # N + 1
    <3>1. m \in 0 .. N /\ N \in 0 .. N /\ m <= N
      BY <1>1, <2>2
    <3>2. Q[m] = P[m] /\ P[m] <= P[N] /\ P[m] \in Nat
      BY <1>4, <1>6, <3>1
    <3>3. QED BY <1>1, <1>6, <2>2, <3>2
  <2>3. CASE n # N + 1
    <3>1. n \in 0 .. N /\ m \in 0 .. N
      BY <1>1, <1>8, <2>3
    <3>2. QED BY <1>4, <1>6, <1>8, <3>1
  <2>4. QED BY <2>1, <2>2, <2>3
<1>9. ASSUME NEW n \in 1 .. N + 1 PROVE HasTag(V, Q[n - 1], n, M[n], n)
  <2>1. CASE n = N + 1
    <3>1. Q[n - 1] = P[N] /\ M[n] = len
      BY <1>1, <1>2, <1>6, <2>1
    <3>2. ASSUME NEW i \in 1 .. TagLen(len) PROVE IsByte(V[P[N] + i], i, n, len, n)
      <4>1. IsByte(T[0 + i], i, n, len, n) /\ 0 + i = i
        BY <1>1, <1>3, <2>1 DEF HasTag
      <4>2. QED BY <1>5, <4>1
    <3>3. P[N] + TagLen(len) <= Len(V)
      BY <1>1, <1>5, <1>6
    <3>4. QED BY <3>1, <3>2, <3>3 DEF HasTag
  <2>2. CASE n # N + 1
    <3>1. n \in 1 .. N /\ n - 1 \in 0 .. N /\ n \in 0 .. N
      BY <1>1, <2>2
    <3>2. HasTag(W, P[n - 1], n, L[n], n) /\ M[n] = L[n] /\ Q[n - 1] = P[n - 1]
      BY <1>2, <1>4, <1>6, <3>1
    <3>3. /\ P[n - 1] \in Nat /\ TagLen(L[n]) \in Nat
          /\ P[n - 1] + TagLen(L[n]) <= P[N]
      <4>1. L[n] \in TagLens
        BY <3>1 DEF N
      <4>2. QED BY <1>4, <3>1, <3>2, <4>1, Lens DEF HasTag
    <3>4. ASSUME NEW i \in 1 .. TagLen(L[n]) PROVE IsByte(V[P[n - 1] + i], i, n, L[n], n)
      <4>1. P[n - 1] + i \in 1 .. P[N]
        BY <1>6, <3>3
      <4>2. QED BY <1>5, <3>2, <4>1 DEF HasTag
    <3>5. P[n - 1] + TagLen(L[n]) <= Len(V)
      BY <1>1, <1>5, <1>6, <3>3
    <3>6. QED BY <3>2, <3>4, <3>5 DEF HasTag
  <2>3. QED BY <2>1, <2>2
<1>10. IsStream(M, Q, V)
  BY <1>2, <1>5, <1>6, <1>7, <1>8, <1>9 DEF IsStream
<1>11. IsStream(Append(L, len), Q, W \o TagBytes(Len(L) + 1, len)) /\ \A n \in 0 .. Len(L) : Q[n] = P[n]
  BY <1>6, <1>10 DEF M, V, T, N
<1>12. QED BY <1>11

(* What the types say of a tag about to be written.                            *)
LEMMA TagOfType ==
  ASSUME NEW n \in Nat, NEW len \in TagLens, NEW ts \in Nat
  PROVE  TagOf(n, len, ts) \in Tag
<1>1. BytesOf("data", len, n) \in Seq(Byte)
  <2>1. "data" \in Field /\ len \in Nat /\ n \in Nat
    BY Lens DEF Field
  <2>2. QED BY ONLY <2>1, BytesOfField
<1>2. QED BY <1>1 DEF TagOf, Tag

LEMMA MovedType == Moved \in Nat /\ (way # "karaoke" => Moved = 0)
BY Lens DEF Moved

LEMMA TagAppended ==
  ASSUME TagsInv, appendTag
  PROVE  TagsInv'
<1>1. PICK L : TagsFollow(L)
  BY DEF TagsInv
<1>2. /\ way # "mixed" /\ L \in Seq(TagLens) /\ Len(L) = tags /\ KaraokeFrames(L) /\ tags \in Nat
      /\ \E P, W : IsStream(L, P, W) /\ IsRest(P, W) /\ TagKept(L)
  BY <1>1 DEF appendTag, TagsFollow, TagsInv, TagTypes
<1>3. PICK P, W : IsStream(L, P, W) /\ IsRest(P, W) /\ TagKept(L)
  BY <1>2
<1>4. PICK len \in TagLens :
        /\ tags' = tags + 1
        /\ expected' = Append(expected, TagOf(tags + 1, len, tags + 1 + Moved))
        /\ bytes' = bytes \o TagBytes(tags + 1, len)
  BY DEF appendTag, Writes, Moved
<1>5. UNCHANGED <<way, flvHeaderSent, chunk, scanState, tagBuf, curFlvTagSize, frames, curIndex, handled>>
  BY DEF appendTag
<1>6. /\ tags + 1 \in Nat /\ TagOf(tags + 1, len, tags + 1 + Moved) \in Tag
      /\ TagBytes(tags + 1, len) \in Seq(Byte) /\ Len(TagBytes(tags + 1, len)) = TagLen(len)
  BY <1>2, MovedType, TagOfType, TagBytesAre
<1>7. /\ bytes \in Seq(Byte) /\ expected \in Seq(Tag) /\ Len(bytes) \in Nat /\ Len(handled) \in Nat
      /\ Len(frames) \in Nat /\ Len(tagBuf) \in Nat /\ Len(chunk) \in Nat
  BY DEF TagsInv, TagTypes
<1>8. /\ expected' \in Seq(Tag) /\ Len(expected') = Len(expected) + 1
      /\ \A n \in 1 .. Len(expected) : expected'[n] = expected[n]
      /\ expected'[Len(expected) + 1] = TagOf(tags + 1, len, tags + 1 + Moved)
  <2> DEFINE e == TagOf(tags + 1, len, tags + 1 + Moved)
  <2>1. e \in Tag /\ expected' = Append(expected, e) /\ expected \in Seq(Tag)
    BY <1>4, <1>6, <1>7
  <2> HIDE DEF e
  <2>2. /\ Append(expected, e) \in Seq(Tag) /\ Len(Append(expected, e)) = Len(expected) + 1
        /\ \A n \in 1 .. Len(expected) : Append(expected, e)[n] = expected[n]
        /\ Append(expected, e)[Len(expected) + 1] = e
    BY <2>1, Appended
  <2>3. /\ expected' \in Seq(Tag) /\ Len(expected') = Len(expected) + 1
        /\ \A n \in 1 .. Len(expected) : expected'[n] = expected[n]
        /\ expected'[Len(expected) + 1] = e
    BY ONLY <2>1, <2>2
  <2>4. QED BY <2>3 DEF e
<1>9. /\ bytes' \in Seq(Byte) /\ Len(bytes') = Len(bytes) + TagLen(len)
      /\ \A i \in 1 .. Len(bytes) : bytes'[i] = bytes[i]
      /\ \A i \in 1 .. TagLen(len) : bytes'[Len(bytes) + i] = TagBytes(tags + 1, len)[i]
  <2> DEFINE T == TagBytes(tags + 1, len)
  <2>1. T \in Seq(Byte) /\ Len(T) = TagLen(len) /\ bytes \in Seq(Byte) /\ bytes' = bytes \o T
    BY <1>4, <1>6, <1>7
  <2> HIDE DEF T
  <2>2. /\ bytes \o T \in Seq(Byte) /\ Len(bytes \o T) = Len(bytes) + TagLen(len)
        /\ \A i \in 1 .. Len(bytes) : (bytes \o T)[i] = bytes[i]
        /\ \A i \in 1 .. TagLen(len) : (bytes \o T)[Len(bytes) + i] = T[i]
    <3>1. /\ bytes \o T \in Seq(Byte) /\ Len(bytes \o T) = Len(bytes) + Len(T)
          /\ \A i \in 1 .. Len(bytes) : (bytes \o T)[i] = bytes[i]
          /\ \A i \in 1 .. Len(T) : (bytes \o T)[Len(bytes) + i] = T[i]
      <4>1. bytes \in Seq(Byte) /\ T \in Seq(Byte)
        BY <2>1
      <4>2. QED BY ONLY <4>1, Joined
    <3>2. QED BY ONLY <2>1, <3>1
  <2>3. /\ bytes' \in Seq(Byte) /\ Len(bytes') = Len(bytes) + TagLen(len)
        /\ \A i \in 1 .. Len(bytes) : bytes'[i] = bytes[i]
        /\ \A i \in 1 .. TagLen(len) : bytes'[Len(bytes) + i] = T[i]
    BY ONLY <2>1, <2>2
  <2>4. QED BY <2>3 DEF T
<1>10. TagTypes'
  <2>1. tags' \in Nat
    BY <1>4, <1>6
  <2>2. QED BY <1>5, <1>8, <1>9, <2>1 DEF TagsInv, TagTypes
<1>11. HandedOn'
  BY <1>5, <1>7, <1>8 DEF TagsInv, HandedOn
<1>a. PICK M : M = Append(L, len)
  OBVIOUS
<1>b. PICK V : V = W \o TagBytes(tags + 1, len)
  OBVIOUS
<1>12. M \in Seq(TagLens) /\ Len(M) = tags + 1 /\ M[tags + 1] = len /\ \A n \in 1 .. tags : M[n] = L[n]
  BY <1>2, <1>a, Appended
<1>13. PICK Q : IsStream(M, Q, V) /\ \A n \in 0 .. tags : Q[n] = P[n]
  <2>1. \E Q : IsStream(Append(L, len), Q, W \o TagBytes(Len(L) + 1, len))
               /\ \A n \in 0 .. Len(L) : Q[n] = P[n]
    BY <1>2, <1>3, StreamGrows
  <2>2. QED BY <1>2, <1>a, <1>b, <2>1
<1>14. /\ W \in Seq(Byte) /\ Len(W) \in Nat /\ Len(V) = Len(W) + TagLen(len)
       /\ \A i \in 1 .. Len(W) : V[i] = W[i]
       /\ \A i \in 1 .. TagLen(len) : V[Len(W) + i] = TagBytes(tags + 1, len)[i]
  <2>1. W \in Seq(Byte)
    BY <1>3 DEF IsStream
  <2>2. QED BY <1>6, <1>b, <2>1, JoinedLens
<1>15. KaraokeFrames(M)'
  <2>1. ASSUME NEW j \in 1 .. Len(frames')
        PROVE  LET n == Len(handled') + j
               IN  Len(frames'[j]) = TagLen(M[n]) /\ HasTag(frames'[j], 0, n, M[n], n + Moved')
    <3> DEFINE n == Len(handled) + j
    <3>1. n \in 1 .. tags
      BY <1>2, <1>3, <1>5, <1>7 DEF IsRest, Parsed
    <3>2. Len(frames[j]) = TagLen(L[n]) /\ HasTag(frames[j], 0, n, L[n], n + Moved)
      BY <1>2, <1>5 DEF KaraokeFrames
    <3>3. M[n] = L[n] /\ Moved' = Moved /\ frames' = frames /\ handled' = handled
      BY <1>5, <1>12, <3>1 DEF Moved
    <3>4. QED BY <3>2, <3>3
  <2>2. ASSUME NEW n \in 1 .. tags'
        PROVE  expected'[n] = TagOf(n, M[n], n + Moved')
    <3>1. Moved' = Moved /\ Len(expected) = tags
      BY <1>2, <1>5 DEF Moved, KaraokeFrames
    <3>2. CASE n = tags + 1
      BY <1>8, <1>12, <3>1, <3>2
    <3>3. CASE n # tags + 1
      <4>1. n \in 1 .. tags
        BY <1>2, <1>4, <3>3
      <4>2. expected[n] = TagOf(n, L[n], n + Moved)
        BY <1>2, <4>1 DEF KaraokeFrames
      <4>3. QED BY <1>8, <1>12, <3>1, <4>1, <4>2
    <3>4. QED BY <3>2, <3>3
  <2>3. Len(expected') = tags' /\ curIndex' = 0 /\ (way' = "publisher" => frames' = <<>>)
    BY <1>2, <1>4, <1>5, <1>8 DEF KaraokeFrames
  <2>4. QED BY <2>1, <2>2, <2>3 DEF KaraokeFrames
<1>16. IsRest(Q, V)'
  <2> DEFINE c == Taken(P)
  <2>1. /\ Parsed \in 0 .. tags /\ c + Len(chunk) + Len(bytes) = Len(W)
        /\ \A i \in 1 .. Len(chunk) : chunk[i] = W[c + i]
        /\ \A i \in 1 .. Len(bytes) : bytes[i] = W[c + Len(chunk) + i]
    BY <1>3 DEF IsRest
  <2>2. Parsed' = Parsed /\ Taken(Q)' = c /\ c \in Nat
    <3>1. Parsed' = Parsed
      BY <1>5 DEF Parsed
    <3>2. Q[Parsed] = P[Parsed]
      BY <1>13, <2>1
    <3>3. P[Parsed] \in Nat
      BY <1>2, <1>3, <2>1 DEF IsStream
    <3>4. QED BY <1>5, <1>7, <3>1, <3>2, <3>3 DEF Taken
  <2> HIDE DEF c
  <2>3. /\ c + Len(chunk) + Len(bytes) = Len(W) /\ c \in Nat /\ Len(chunk) \in Nat /\ Len(bytes) \in Nat
        /\ TagLen(len) \in Nat /\ Len(bytes') = Len(bytes) + TagLen(len)
        /\ Len(V) = Len(W) + TagLen(len) /\ Len(chunk') = Len(chunk) /\ chunk' = chunk
    BY <1>5, <1>7, <1>9, <1>14, <2>1, <2>2, Lens
  <2>4. Parsed' \in 0 .. tags' /\ c + Len(chunk') + Len(bytes') = Len(V)
    <3>1. Parsed' \in 0 .. tags'
      BY <1>2, <1>4, <2>1, <2>2
    <3>2. c + Len(chunk') + Len(bytes') = Len(V)
      <4>1. (c + Len(chunk) + Len(bytes)) + TagLen(len) = c + Len(chunk) + (Len(bytes) + TagLen(len))
        BY <2>3
      <4>2. QED BY ONLY <2>3, <4>1, Zenon
    <3>3. QED BY <3>1, <3>2
  <2>5. ASSUME NEW i \in 1 .. Len(chunk') PROVE chunk'[i] = V[c + i]
    <3>1. i \in 1 .. Len(chunk) /\ c + i \in 1 .. Len(W)
      BY ONLY <2>3, i \in 1 .. Len(chunk')
    <3>2. QED BY <1>5, <1>14, <2>1, <3>1
  <2>6. ASSUME NEW i \in 1 .. Len(bytes') PROVE bytes'[i] = V[c + Len(chunk') + i]
    <3>1. CASE i <= Len(bytes)
      <4>1. i \in 1 .. Len(bytes) /\ c + Len(chunk) + i \in 1 .. Len(W)
        BY ONLY <2>3, <3>1, i \in 1 .. Len(bytes')
      <4>2. QED BY <1>5, <1>9, <1>14, <2>1, <4>1
    <3>2. CASE ~(i <= Len(bytes))
      <4>1. i - Len(bytes) \in 1 .. TagLen(len) /\ Len(bytes) + (i - Len(bytes)) = i
            /\ c + Len(chunk) + i = Len(W) + (i - Len(bytes))
        BY ONLY <2>3, <3>2, i \in 1 .. Len(bytes')
      <4>2. bytes'[i] = TagBytes(tags + 1, len)[i - Len(bytes)]
        BY <1>9, <4>1
      <4>3. V[c + Len(chunk) + i] = TagBytes(tags + 1, len)[i - Len(bytes)]
        BY <1>14, <4>1
      <4>4. QED BY <1>5, <4>2, <4>3
    <3>3. QED BY <3>1, <3>2
  <2>7. QED BY <2>2, <2>4, <2>5, <2>6 DEF IsRest
<1>17. TagKept(M)'
  <2>1. Parsed' = Parsed /\ Moved' = Moved /\ TagSize' = TagSize /\ TagHeaderLen' = TagHeaderLen
        /\ Parsed \in 0 .. tags /\ TagHeaderLen \in Nat \ {0}
    BY <1>3, <1>5, Lens DEF Parsed, Moved, TagSize, TagHeaderLen, IsRest
  <2>2. CASE tagBuf = <<>>
    <3>1. Len(tagBuf) = 0
      BY <2>2
    <3>2. scanState # "SCAN_REMAINING_TAG"
      BY <1>3, <2>1, <3>1 DEF TagKept
    <3>3. QED BY <1>5, <2>1, <2>2, <3>1, <3>2 DEF TagKept
  <2>3. CASE tagBuf # <<>>
    <3>1. Parsed < tags
      BY <1>3, <2>3 DEF TagKept
    <3>2. Parsed + 1 \in 1 .. tags /\ Parsed < tags'
      BY <1>2, <1>4, <2>1, <3>1
    <3>3. M[Parsed + 1] = L[Parsed + 1]
      BY <1>12, <3>2
    <3>4. QED BY <1>3, <1>5, <2>1, <3>2, <3>3 DEF TagKept
  <2>4. QED BY <2>2, <2>3
<1>18. TagsFollow(M)'
  <2>1. M \in Seq(TagLens) /\ Len(M) = tags' /\ way' # "mixed"
    BY <1>2, <1>4, <1>5, <1>12
  <2>2. IsStream(M, Q, V) /\ IsRest(Q, V)' /\ TagKept(M)'
    BY <1>13, <1>16, <1>17
  <2>3. QED BY <1>15, <2>1, <2>2 DEF TagsFollow
<1>19. QED BY <1>10, <1>11, <1>18 DEF TagsInv

(* What a parser that is at work knows.                                        *)
LEMMA AtWork ==
  ASSUME TagsInv, bytes # <<>> \/ chunk # <<>>
  PROVE  /\ way \in {"publisher", "karaoke"}
         /\ \E L, P, W : /\ L \in Seq(TagLens) /\ Len(L) = tags /\ KaraokeFrames(L)
                         /\ IsStream(L, P, W) /\ IsRest(P, W) /\ TagKept(L)
<1>1. PICK L : TagsFollow(L)
  BY DEF TagsInv
<1>2. way # "mixed"
  BY <1>1 DEF TagsFollow
<1>3. way \in {"publisher", "karaoke"}
  BY <1>2 DEF TagsInv, TagTypes
<1>4. QED BY <1>1, <1>2, <1>3 DEF TagsFollow

LEMMA TagInts ==
  ASSUME TagsInv
  PROVE  /\ tags \in Nat /\ bytes \in Seq(Byte) /\ chunk \in Seq(Byte) /\ tagBuf \in Seq(Byte)
         /\ Len(bytes) \in Nat /\ Len(chunk) \in Nat /\ Len(tagBuf) \in Nat
         /\ Len(handled) \in Nat /\ Len(frames) \in Nat /\ Len(expected) \in Nat
         /\ Parsed \in Nat /\ curFlvTagSize \in Nat
<1>1. /\ tags \in Nat /\ bytes \in Seq(Byte) /\ chunk \in Seq(Byte) /\ tagBuf \in Seq(Byte)
      /\ handled \in Seq(Tag) /\ frames \in Seq(Seq(Byte)) /\ expected \in Seq(Tag) /\ curFlvTagSize \in Nat
  BY DEF TagsInv, TagTypes
<1>2. /\ Len(bytes) \in Nat /\ Len(chunk) \in Nat /\ Len(tagBuf) \in Nat
      /\ Len(handled) \in Nat /\ Len(frames) \in Nat /\ Len(expected) \in Nat
  BY <1>1
<1>3. QED BY <1>1, <1>2 DEF Parsed

(* Whatever else a step does, what is left to be parsed is the end of the       *)
(* stream after the k bytes that were taken.                               *)
LEMMA RestFollows ==
  ASSUME TagsInv, NEW P, NEW W, IsRest(P, W), P[Parsed] \in Nat, NEW k \in 0 .. Len(chunk),
         chunk' = SubSeq(chunk, k + 1, Len(chunk)), bytes' = bytes, tags' = tags,
         Taken(P)' = Taken(P) + k, Parsed' \in 0 .. tags
  PROVE  IsRest(P, W)'
<1> DEFINE c == Taken(P)
<1>1. /\ c + Len(chunk) + Len(bytes) = Len(W)
      /\ \A i \in 1 .. Len(chunk) : chunk[i] = W[c + i]
      /\ \A i \in 1 .. Len(bytes) : bytes[i] = W[c + Len(chunk) + i]
  BY DEF IsRest
<1>2. /\ Len(chunk) \in Nat /\ Len(bytes) \in Nat /\ c \in Nat /\ k \in 0 .. Len(chunk) /\ chunk \in Seq(Byte)
  <2>1. Len(chunk) \in Nat /\ Len(bytes) \in Nat /\ Len(tagBuf) \in Nat /\ chunk \in Seq(Byte)
    BY TagInts
  <2>2. Taken(P) = P[Parsed] + Len(tagBuf)
    BY DEF Taken
  <2>3. c \in Nat
    BY ONLY <2>1, <2>2, P[Parsed] \in Nat
  <2>4. QED BY <2>1, <2>3
<1>3. Taken(P)' = c + k
  OBVIOUS
<1> HIDE DEF c
<1>4. Len(chunk') = Len(chunk) - k /\ \A i \in 1 .. Len(chunk) - k : chunk'[i] = chunk[k + i]
  BY <1>2, Cut
<1>5. /\ (c + k) + (Len(chunk) - k) + Len(bytes) = c + Len(chunk) + Len(bytes)
      /\ (c + k) + (Len(chunk) - k) = c + Len(chunk)
  BY <1>2
<1>6. (c + k) + Len(chunk') + Len(bytes') = Len(W)
  BY ONLY <1>1, <1>4, <1>5, bytes' = bytes, Zenon
<1>7. ASSUME NEW i \in 1 .. Len(chunk') PROVE chunk'[i] = W[(c + k) + i]
  <2>1. i \in 1 .. Len(chunk) - k /\ k + i \in 1 .. Len(chunk) /\ c + (k + i) = (c + k) + i
    <3>1. i \in 1 .. Len(chunk) - k
      BY <1>4
    <3>2. QED BY ONLY <1>2, <3>1
  <2>2. QED BY <1>1, <1>4, <2>1
<1>8. ASSUME NEW i \in 1 .. Len(bytes') PROVE bytes'[i] = W[(c + k) + Len(chunk') + i]
  <2>1. (c + k) + Len(chunk') = c + Len(chunk)
    BY ONLY <1>4, <1>5, Zenon
  <2>2. QED BY <1>1, <2>1
<1>9. QED BY <1>3, <1>6, <1>7, <1>8 DEF IsRest

(* A piece is the beginning of what is on the way.                             *)
LEMMA PieceRead ==
  ASSUME TagsInv, readChunk
  PROVE  TagsInv'
<1>1. /\ chunk = <<>>
      /\ UNCHANGED <<way, tags, flvHeaderSent, scanState, tagBuf, curFlvTagSize, frames, curIndex,
                     expected, handled>>
  BY DEF readChunk
<1>2. PICK n \in 1 .. ChunkLen :
        /\ n <= Len(bytes)
        /\ chunk' = SubSeq(bytes, 1, n) /\ bytes' = SubSeq(bytes, n + 1, Len(bytes))
  BY DEF readChunk
<1>3. /\ n \in 0 .. Len(bytes) /\ n \in Nat \ {0} /\ Len(bytes) \in Nat /\ bytes \in Seq(Byte)
      /\ Len(chunk) = 0
  BY <1>1, <1>2, TagInts, Lens
<1>4. bytes # <<>>
  BY <1>3
<1>5. PICK L, P, W : /\ L \in Seq(TagLens) /\ Len(L) = tags /\ KaraokeFrames(L)
                     /\ IsStream(L, P, W) /\ IsRest(P, W) /\ TagKept(L)
  BY <1>4, AtWork
<1>6. /\ chunk' \in Seq(Byte) /\ Len(chunk') = n /\ \A i \in 1 .. n : chunk'[i] = bytes[i]
      /\ bytes' \in Seq(Byte) /\ Len(bytes') = Len(bytes) - n
      /\ \A i \in 1 .. Len(bytes) - n : bytes'[i] = bytes[n + i]
  BY <1>2, <1>3, Cut
<1>7. TagTypes' /\ HandedOn'
  BY <1>1, <1>6 DEF TagsInv, TagTypes, HandedOn
<1>8. KaraokeFrames(L)' /\ TagKept(L)'
  BY <1>1, <1>5 DEF KaraokeFrames, TagKept, Parsed, Moved, TagSize, TagHeaderLen
<1>9. IsRest(P, W)'
  <2>1. /\ Parsed \in 0 .. tags /\ Taken(P) + Len(chunk) + Len(bytes) = Len(W)
        /\ \A i \in 1 .. Len(bytes) : bytes[i] = W[Taken(P) + Len(chunk) + i]
    BY <1>5 DEF IsRest
  <2>2. Taken(P) \in Nat
    <3>1. P[Parsed] \in Nat
      BY <1>5, <2>1 DEF IsStream
    <3>2. QED BY <3>1, TagInts DEF Taken
  <2>3. Taken(P)' = Taken(P) /\ Parsed' = Parsed
    BY <1>1 DEF Taken, Parsed
  <2> DEFINE c == Taken(P)
  <2>4. /\ c \in Nat /\ c + Len(bytes) = Len(W) /\ \A i \in 1 .. Len(bytes) : bytes[i] = W[c + i]
    BY <1>3, <2>1, <2>2
  <2>5. Taken(P)' = c
    BY <2>3
  <2> HIDE DEF c
  <2>6. c + Len(chunk') + Len(bytes') = Len(W)
    <3>1. c + n + (Len(bytes) - n) = c + Len(bytes)
      BY <1>3, <2>4
    <3>2. QED BY ONLY <1>6, <2>4, <3>1, Zenon
  <2>7. ASSUME NEW i \in 1 .. Len(chunk') PROVE chunk'[i] = W[c + i]
    <3>1. i \in 1 .. n /\ i \in 1 .. Len(bytes)
      BY <1>3, <1>6
    <3>2. QED BY <1>6, <2>4, <3>1
  <2>8. ASSUME NEW i \in 1 .. Len(bytes') PROVE bytes'[i] = W[c + Len(chunk') + i]
    <3>1. i \in 1 .. Len(bytes) - n /\ n + i \in 1 .. Len(bytes) /\ c + (n + i) = c + n + i
      BY <1>3, <1>6, <2>4
    <3>2. QED BY <1>6, <2>4, <3>1
  <2>9. Parsed' \in 0 .. tags'
    BY <1>1, <2>1, <2>3
  <2>10. QED BY <2>5, <2>6, <2>7, <2>8, <2>9 DEF IsRest
<1>10. TagsFollow(L)'
  <2>1. Len(L) = tags' /\ way' # "mixed"
    BY <1>1, <1>4, <1>5, AtWork
  <2>2. QED BY <1>5, <1>8, <1>9, <2>1 DEF TagsFollow
<1>11. QED BY <1>7, <1>10 DEF TagsInv

(* Copying from a piece, up to size bytes, adds the next bytes of the same tag. *)
LEMMA Collected ==
  ASSUME TagsInv, chunk # <<>>,
         NEW L, L \in Seq(TagLens), Len(L) = tags,
         NEW P, NEW W, IsStream(L, P, W), IsRest(P, W),
         NEW size \in Nat, Len(tagBuf) < size,
         Parsed < tags => size <= TagLen(L[Parsed + 1])
  PROVE  /\ Parsed + 1 \in 1 .. tags /\ L[Parsed + 1] \in TagLens /\ P[Parsed] \in Nat
         /\ P[Parsed + 1] = P[Parsed] + TagLen(L[Parsed + 1])
         /\ copied(size) \in 0 .. Len(chunk) /\ Grown(size) \in Seq(Byte) /\ Grown(size) # <<>>
         /\ Len(Grown(size)) = Len(tagBuf) + copied(size) /\ Len(Grown(size)) <= size
         /\ \A i \in 1 .. Len(tagBuf) : Grown(size)[i] = tagBuf[i]
         /\ \A i \in 1 .. Len(Grown(size)) :
              i > Len(tagBuf) => IsByte(Grown(size)[i], i, Parsed + 1, L[Parsed + 1], Parsed + 1)
<1>0. PICK G, k : G = Grown(size) /\ k = copied(size)
  OBVIOUS
<1>1. /\ chunk \in Seq(Byte) /\ tagBuf \in Seq(Byte) /\ Len(chunk) \in Nat \ {0} /\ Len(tagBuf) \in Nat
      /\ Len(bytes) \in Nat /\ Parsed \in Nat /\ tags \in Nat
  BY TagInts, EmptySeq
<1>2. /\ Parsed \in 0 .. tags /\ Taken(P) + Len(chunk) + Len(bytes) = Len(W)
      /\ \A i \in 1 .. Len(chunk) : chunk[i] = W[Taken(P) + i]
  BY DEF IsRest
<1>3. /\ P \in [0 .. tags -> Nat] /\ Len(W) = P[tags]
      /\ \A n \in 1 .. tags : P[n] = P[n - 1] + TagLen(L[n])
      /\ \A n \in 1 .. tags : HasTag(W, P[n - 1], n, L[n], n)
  BY DEF IsStream
<1>4. P[Parsed] \in Nat
  BY <1>2, <1>3
<1>5. Parsed # tags
  <2>1. P[Parsed] + Len(tagBuf) + Len(chunk) + Len(bytes) = P[tags]
    BY <1>2, <1>3 DEF Taken
  <2>2. QED BY <1>1, <1>4, <2>1
<1>6. Parsed + 1 \in 1 .. tags /\ (Parsed + 1) - 1 = Parsed /\ Parsed < tags
  BY <1>1, <1>2, <1>5
<1> DEFINE n == Parsed + 1
           len == L[n]
<1>7. /\ len \in TagLens /\ TagLen(len) \in Nat /\ size <= TagLen(len)
      /\ P[n] = P[Parsed] + TagLen(len) /\ HasTag(W, P[Parsed], n, len, n)
  BY <1>3, <1>6, Lens
<1>8. k \in 1 .. Len(chunk) /\ Len(tagBuf) + k <= size /\ k \in Nat
  <2>1. k = IF Len(chunk) < size - Len(tagBuf) THEN Len(chunk) ELSE size - Len(tagBuf)
    BY <1>0 DEF copied
  <2>2. size \in Nat /\ Len(tagBuf) < size
    OBVIOUS
  <2>3. CASE Len(chunk) < size - Len(tagBuf)
    <3>1. k = Len(chunk)
      BY <2>1, <2>3
    <3>2. QED BY ONLY <1>1, <2>2, <2>3, <3>1
  <2>4. CASE ~(Len(chunk) < size - Len(tagBuf))
    <3>1. k = size - Len(tagBuf)
      BY <2>1, <2>4
    <3>2. QED BY ONLY <1>1, <2>2, <2>4, <3>1
  <2>5. QED BY <2>3, <2>4
<1>9. /\ SubSeq(chunk, 1, k) \in Seq(Byte) /\ Len(SubSeq(chunk, 1, k)) = k
      /\ \A i \in 1 .. k : SubSeq(chunk, 1, k)[i] = chunk[i]
  <2>1. k \in 0 .. Len(chunk)
    BY <1>1, <1>8
  <2>2. QED BY <1>1, <2>1, Cut
<1>10. /\ G \in Seq(Byte) /\ Len(G) = Len(tagBuf) + k
       /\ \A i \in 1 .. Len(tagBuf) : G[i] = tagBuf[i]
       /\ \A i \in 1 .. k : G[Len(tagBuf) + i] = SubSeq(chunk, 1, k)[i]
  <2> DEFINE S == SubSeq(chunk, 1, k)
  <2>1. S \in Seq(Byte) /\ Len(S) = k /\ tagBuf \in Seq(Byte) /\ G = tagBuf \o S
    BY <1>0, <1>1, <1>9 DEF Grown
  <2> HIDE DEF S
  <2>2. /\ tagBuf \o S \in Seq(Byte) /\ Len(tagBuf \o S) = Len(tagBuf) + Len(S)
        /\ \A i \in 1 .. Len(tagBuf) : (tagBuf \o S)[i] = tagBuf[i]
        /\ \A i \in 1 .. Len(S) : (tagBuf \o S)[Len(tagBuf) + i] = S[i]
    <3>1. S \in Seq(Byte) /\ tagBuf \in Seq(Byte)
      BY <2>1
    <3>2. QED BY ONLY <3>1, Joined
  <2>3. QED BY ONLY <2>1, <2>2 DEF S
<1>11. ASSUME NEW i \in 1 .. Len(G), i > Len(tagBuf)
       PROVE  IsByte(G[i], i, n, len, n)
  <2> DEFINE j == i - Len(tagBuf)
  <2>1. j \in 1 .. k /\ Len(tagBuf) + j = i /\ j \in 1 .. Len(chunk) /\ i \in 1 .. TagLen(len)
    BY <1>1, <1>7, <1>8, <1>10, <1>11
  <2>2. G[i] = chunk[j]
    BY <1>9, <1>10, <2>1
  <2>3. chunk[j] = W[Taken(P) + j]
    BY <1>2, <2>1
  <2>4. Taken(P) + j = P[Parsed] + i
    BY <1>1, <1>4, <2>1 DEF Taken
  <2>5. IsByte(W[P[Parsed] + i], i, n, len, n)
    BY <1>7, <2>1 DEF HasTag
  <2>6. QED BY ONLY <2>2, <2>3, <2>4, <2>5
<1>12. Len(G) <= size /\ G # <<>> /\ k \in 0 .. Len(chunk)
  BY <1>1, <1>8, <1>10
<1>13. /\ k \in 0 .. Len(chunk) /\ G \in Seq(Byte) /\ G # <<>>
       /\ Len(G) = Len(tagBuf) + k /\ Len(G) <= size
       /\ \A i \in 1 .. Len(tagBuf) : G[i] = tagBuf[i]
       /\ \A i \in 1 .. Len(G) : i > Len(tagBuf) => IsByte(G[i], i, n, len, n)
  BY <1>10, <1>11, <1>12
<1>14. QED BY ONLY <1>0, <1>4, <1>6, <1>7, <1>13

(* The timestamp of a song's tag is moved where it is.                         *)
LEMMA AdjustedIs ==
  ASSUME way \in {"publisher", "karaoke"}, NEW n \in Nat, NEW len \in TagLens, NEW G \in Seq(Byte),
         Len(G) = TagHeaderLen, \A i \in 1 .. Len(G) : IsByte(G[i], i, n, len, n)
  PROVE  /\ Adjusted(G) \in Seq(Byte) /\ Len(Adjusted(G)) = Len(G)
         /\ \A i \in 1 .. Len(G) : IsByte(Adjusted(G)[i], i, n, len, n + Moved)
<1>1. /\ SizeLen \in Nat \ {0} /\ RestLen \in Nat \ {0} /\ AdjustPTS \in Nat /\ Len(G) \in Nat
      /\ len \in Nat \ {0} /\ n + 0 = n
  BY Lens
<1>2. CASE way = "publisher"
  <2>1. Moved = 0
    BY <1>2 DEF Moved
  <2>2. Adjusted(G) = G
    <3>1. Adjusted(G) = [i \in 1 .. Len(G) |-> G[i]]
      BY <1>2 DEF Adjusted
    <3>2. QED BY <3>1
  <2>3. QED BY <1>1, <2>1, <2>2
<1>3. CASE way = "karaoke"
  <2>1. Len(G) = SizeLen + RestLen /\ Moved = AdjustPTS
    BY <1>3 DEF TagHeaderLen, Moved
  <2>2. ASSUME NEW i \in 1 .. Len(G)
        PROVE  /\ Adjusted(G)[i] \in Byte
               /\ IsByte(Adjusted(G)[i], i, n, len, n + AdjustPTS)
    <3>1. CASE i <= SizeLen
      <4>1. Adjusted(G)[i] = G[i] /\ G[i] = [field |-> "size", value |-> len] /\ G[i] \in Byte
        BY <1>1, <3>1 DEF Adjusted, IsByte
      <4>2. ~(SizeLen < i) /\ ~(SizeLen + RestLen < i) /\ ~(SizeLen + RestLen + len < i)
        BY <1>1, <3>1
      <4>3. QED BY <4>1, <4>2 DEF IsByte
    <3>2. CASE i > SizeLen
      <4>1. G[i] = [field |-> "rest", value |-> n]
        BY <1>1, <2>1, <3>2 DEF IsByte
      <4>2. Adjusted(G)[i] = [G[i] EXCEPT !.value = @ + AdjustPTS]
        BY <1>3, <3>2 DEF Adjusted
      <4>3. Adjusted(G)[i] = [field |-> "rest", value |-> n + AdjustPTS]
        BY ONLY <4>1, <4>2
      <4>4. ~(i <= SizeLen) /\ ~(SizeLen + RestLen < i) /\ ~(SizeLen + RestLen + len < i)
        BY <1>1, <2>1, <3>2
      <4>5. n + AdjustPTS \in Nat
        BY <1>1
      <4>6. Adjusted(G)[i] \in Byte
        BY <4>3, <4>5 DEF Byte, Field
      <4>7. QED BY <4>3, <4>4, <4>6 DEF IsByte
    <3>3. QED BY <1>1, <3>1, <3>2
  <2> DEFINE A == Adjusted(G)
  <2>3. A \in [1 .. Len(G) -> Byte]
    <3>1. DOMAIN A = 1 .. Len(G) /\ A = [i \in DOMAIN A |-> A[i]]
      BY DEF Adjusted
    <3>2. \A i \in 1 .. Len(G) : A[i] \in Byte
      BY <2>2
    <3> HIDE DEF A
    <3>3. QED BY <3>1, <3>2
  <2> HIDE DEF A
  <2>4. A \in Seq(Byte) /\ Len(A) = Len(G)
    BY <1>1, <2>3
  <2>5. QED BY <2>1, <2>2, <2>4 DEF A
<1>4. QED BY <1>2, <1>3

LEMMA HeaderScanned ==
  ASSUME TagsInv, scanHeader
  PROVE  TagsInv'
<1>1. /\ scanState = "SCAN_HEADER" /\ chunk # <<>>
      /\ chunk' = SubSeq(chunk, copied(TagHeaderLen) + 1, Len(chunk))
      /\ UNCHANGED <<way, tags, flvHeaderSent, bytes, curIndex, expected, frames, handled>>
  BY DEF scanHeader, Scan
<1>2. PICK L, P, W : /\ L \in Seq(TagLens) /\ Len(L) = tags /\ KaraokeFrames(L)
                     /\ IsStream(L, P, W) /\ IsRest(P, W) /\ TagKept(L)
  BY <1>1, AtWork
<1>3. way \in {"publisher", "karaoke"}
  BY <1>1, AtWork
<1>4. /\ SizeLen \in Nat \ {0} /\ RestLen \in Nat \ {0} /\ PrevLen \in Nat \ {0}
      /\ TagHeaderLen \in Nat \ {0} /\ TagHeaderLen <= SizeLen + RestLen /\ TagHeaderLen >= SizeLen
  BY Lens DEF TagHeaderLen
<1>5. Len(tagBuf) < TagHeaderLen /\ Len(tagBuf) \in Nat /\ chunk \in Seq(Byte) /\ Parsed \in Nat /\ tags \in Nat
      /\ \A i \in 1 .. Len(tagBuf) : IsByte(tagBuf[i], i, Parsed + 1, L[Parsed + 1], Parsed + 1)
  BY <1>1, <1>2, TagInts DEF TagKept
<1>6. Parsed < tags => TagHeaderLen <= TagLen(L[Parsed + 1])
  <2>1. Parsed < tags => L[Parsed + 1] \in TagLens
    BY <1>2, <1>5
  <2>2. \A l \in TagLens : TagHeaderLen <= TagLen(l)
    <3> TAKE l \in TagLens
    <3>1. l \in Nat
      BY Lens
    <3>2. QED BY <1>4, <3>1 DEF TagLen
  <2>3. QED BY <2>1, <2>2
<1>7. PICK G, k, size, n : G = Grown(size) /\ k = copied(size) /\ size = TagHeaderLen /\ n = Parsed + 1
  OBVIOUS
<1>8. /\ n \in 1 .. tags /\ L[n] \in TagLens /\ P[Parsed] \in Nat
      /\ k \in 0 .. Len(chunk)
      /\ G \in Seq(Byte) /\ Len(G) = Len(tagBuf) + k /\ Len(G) <= size /\ G # <<>>
      /\ \A i \in 1 .. Len(tagBuf) : G[i] = tagBuf[i]
      /\ \A i \in 1 .. Len(G) : i > Len(tagBuf) => IsByte(G[i], i, n, L[n], n)
  <2>1. size \in Nat /\ Len(tagBuf) < size /\ (Parsed < tags => size <= TagLen(L[Parsed + 1]))
    BY <1>4, <1>5, <1>6, <1>7
  <2>2. /\ Parsed + 1 \in 1 .. tags /\ L[Parsed + 1] \in TagLens /\ P[Parsed] \in Nat
        /\ copied(size) \in 0 .. Len(chunk) /\ Grown(size) \in Seq(Byte) /\ Grown(size) # <<>>
        /\ Len(Grown(size)) = Len(tagBuf) + copied(size) /\ Len(Grown(size)) <= size
        /\ \A i \in 1 .. Len(tagBuf) : Grown(size)[i] = tagBuf[i]
        /\ \A i \in 1 .. Len(Grown(size)) :
             i > Len(tagBuf) => IsByte(Grown(size)[i], i, Parsed + 1, L[Parsed + 1], Parsed + 1)
    <3>1. /\ chunk # <<>> /\ L \in Seq(TagLens) /\ Len(L) = tags /\ IsStream(L, P, W) /\ IsRest(P, W)
      BY <1>1, <1>2
    <3>2. QED BY ONLY TagsInv, <3>1, <2>1, Collected
  <2>3. QED BY ONLY <1>7, <2>2
<1>9. \A i \in 1 .. Len(G) : IsByte(G[i], i, n, L[n], n)
  <2> TAKE i \in 1 .. Len(G)
  <2>1. CASE i > Len(tagBuf)
    BY <1>8, <2>1
  <2>2. CASE ~(i > Len(tagBuf))
    <3>1. i \in 1 .. Len(tagBuf)
      BY <1>5, <1>8, <2>2
    <3>2. QED BY <1>5, <1>7, <1>8, <3>1
  <2>3. QED BY <2>1, <2>2
<1>10. Parsed' = Parsed /\ TagHeaderLen' = TagHeaderLen /\ Moved' = Moved
  BY <1>1 DEF Parsed, TagHeaderLen, Moved
<1>11. /\ tagBuf' \in Seq(Byte) /\ Len(tagBuf') = Len(G) /\ scanState' \in {"SCAN_HEADER", "SCAN_REMAINING_TAG"}
       /\ curFlvTagSize' \in Nat /\ TagKept(L)'
  <2>1. Parsed < tags /\ n = Parsed' + 1 /\ Parsed' < tags'
    BY <1>1, <1>5, <1>7, <1>8, <1>10
  <2>2. CASE Len(G) >= TagHeaderLen
    <3>1. /\ scanState' = "SCAN_REMAINING_TAG" /\ tagBuf' = Adjusted(G)
          /\ curFlvTagSize' = FieldAt(G, 1, "size") + PrevLen + (IF way = "karaoke" THEN 0 ELSE RestLen)
      BY <1>7, <2>2 DEF scanHeader
    <3>2. Len(G) = TagHeaderLen /\ Len(G) \in Nat
      BY <1>4, <1>7, <1>8, <2>2
    <3>3. n \in Nat
      BY <1>8
    <3>4. /\ Adjusted(G) \in Seq(Byte) /\ Len(Adjusted(G)) = Len(G)
          /\ \A i \in 1 .. Len(G) : IsByte(Adjusted(G)[i], i, n, L[n], n + Moved)
      BY <1>3, <1>8, <1>9, <3>2, <3>3, AdjustedIs
    <3>5. FieldAt(G, 1, "size") = L[n] /\ L[n] \in Nat \ {0}
      <4>1. 1 \in 1 .. Len(G) /\ 1 <= SizeLen /\ 1 \in DOMAIN G
        BY <1>4, <1>8, <3>2
      <4>2. G[1] = [field |-> "size", value |-> L[n]]
        BY <1>9, <4>1 DEF IsByte
      <4>3. QED BY <1>8, <4>1, <4>2, Lens DEF FieldAt
    <3>6. /\ curFlvTagSize' \in Nat \ {0} /\ TagHeaderLen + curFlvTagSize' = TagLen(L[n])
      BY <1>3, <1>4, <3>1, <3>5 DEF TagLen, TagHeaderLen
    <3>7. TagSize' = TagLen(L[n]) /\ Len(tagBuf') < TagSize' /\ TagHeaderLen' <= Len(tagBuf')
      BY <1>4, <1>10, <3>1, <3>2, <3>4, <3>6 DEF TagSize
    <3>8. \A i \in 1 .. Len(tagBuf') : IsByte(tagBuf'[i], i, Parsed' + 1, L[Parsed' + 1], Parsed' + 1 + Moved')
      BY <1>7, <1>10, <3>1, <3>4
    <3>9. TagSize' = TagLen(L[Parsed' + 1])
      BY <2>1, <3>7
    <3>10. TagKept(L)'
      BY <2>1, <3>1, <3>7, <3>8, <3>9 DEF TagKept
    <3>11. QED BY <3>1, <3>4, <3>6, <3>10
  <2>3. CASE ~(Len(G) >= TagHeaderLen)
    <3>1. tagBuf' = G /\ scanState' = "SCAN_HEADER" /\ curFlvTagSize' = curFlvTagSize
      BY <1>1, <1>7, <2>3 DEF scanHeader
    <3>2. Len(G) < TagHeaderLen'
      BY <1>4, <1>5, <1>8, <1>10, <2>3
    <3>3. \A i \in 1 .. Len(tagBuf') : IsByte(tagBuf'[i], i, Parsed' + 1, L[Parsed' + 1], Parsed' + 1)
      BY <1>7, <1>9, <1>10, <3>1
    <3>4. TagKept(L)'
      BY <2>1, <3>1, <3>2, <3>3 DEF TagKept
    <3>5. QED BY <1>8, <3>1, <3>4, TagInts
  <2>4. QED BY <2>2, <2>3
<1>12. TagTypes' /\ HandedOn'
  <2>1. chunk' \in Seq(Byte)
    BY <1>1, <1>5, <1>7, <1>8, Cut
  <2>2. QED BY <1>1, <1>11, <2>1 DEF TagsInv, TagTypes, HandedOn
<1>13. KaraokeFrames(L)'
  BY <1>1, <1>2, <1>10 DEF KaraokeFrames
<1>14. IsRest(P, W)'
  <2>1. Taken(P)' = Taken(P) + k
    BY <1>5, <1>8, <1>10, <1>11 DEF Taken
  <2>2. Parsed' \in 0 .. tags
    BY <1>2, <1>10 DEF IsRest
  <2>3. chunk' = SubSeq(chunk, k + 1, Len(chunk)) /\ bytes' = bytes /\ tags' = tags
    BY <1>1, <1>7
  <2>4. QED BY <1>2, <1>8, <2>1, <2>2, <2>3, RestFollows
<1>15. TagsFollow(L)'
  <2>1. Len(L) = tags' /\ way' # "mixed"
    BY <1>1, <1>2, <1>3
  <2>2. QED BY <1>2, <1>11, <1>13, <1>14, <2>1 DEF TagsFollow
<1>16. QED BY <1>12, <1>15 DEF TagsInv

(* Behind its header a tag's bytes do not depend on its timestamp.              *)
LEMMA BehindTheHeader ==
  ASSUME NEW b, NEW i \in Nat, NEW n, NEW len \in TagLens, NEW ts, NEW other,
         IsByte(b, i, n, len, ts), i > SizeLen + RestLen \/ other = ts
  PROVE  IsByte(b, i, n, len, other)
<1>1. SizeLen \in Nat /\ RestLen \in Nat
  BY Lens
<1>2. CASE other = ts
  BY <1>2
<1>3. CASE i > SizeLen + RestLen
  <2>1. ~(i <= SizeLen) /\ ~(i <= SizeLen + RestLen)
    BY <1>1, <1>3
  <2>2. QED BY <2>1 DEF IsByte
<1>4. QED BY <1>2, <1>3

(* A tag that is complete is handed on, the karaoke's as the frame it arrived in. *)
LEMMA TagScanned ==
  ASSUME TagsInv, scanRemainingTag
  PROVE  TagsInv'
<1>1. /\ scanState = "SCAN_REMAINING_TAG" /\ chunk # <<>>
      /\ chunk' = SubSeq(chunk, copied(TagSize) + 1, Len(chunk))
      /\ UNCHANGED <<way, tags, flvHeaderSent, bytes, curIndex, expected>>
  BY DEF scanRemainingTag, Scan
<1>2. PICK L, P, W : /\ L \in Seq(TagLens) /\ Len(L) = tags /\ KaraokeFrames(L)
                     /\ IsStream(L, P, W) /\ IsRest(P, W) /\ TagKept(L)
  BY <1>1, AtWork
<1>3. way \in {"publisher", "karaoke"}
  BY <1>1, AtWork
<1>4. /\ SizeLen \in Nat \ {0} /\ RestLen \in Nat \ {0} /\ TagHeaderLen \in Nat \ {0}
      /\ (way = "karaoke" => TagHeaderLen = SizeLen + RestLen)
  BY Lens DEF TagHeaderLen
<1>5. /\ TagHeaderLen <= Len(tagBuf) /\ Len(tagBuf) < TagSize /\ TagSize = TagLen(L[Parsed + 1])
      /\ Len(tagBuf) \in Nat /\ chunk \in Seq(Byte) /\ Parsed \in Nat /\ tags \in Nat /\ TagSize \in Nat
      /\ Parsed = Len(handled) + Len(frames) /\ Len(handled) \in Nat /\ Len(frames) \in Nat
      /\ \A i \in 1 .. Len(tagBuf) :
           IsByte(tagBuf[i], i, Parsed + 1, L[Parsed + 1], Parsed + 1 + Moved)
  BY <1>1, <1>2, <1>4, TagInts DEF TagKept, TagSize, Parsed
<1>6. PICK G, k, size, n : G = Grown(size) /\ k = copied(size) /\ size = TagSize /\ n = Parsed + 1
  OBVIOUS
<1>7. /\ n \in 1 .. tags /\ L[n] \in TagLens /\ P[Parsed] \in Nat
      /\ P[n] = P[Parsed] + TagLen(L[n])
      /\ k \in 0 .. Len(chunk)
      /\ G \in Seq(Byte) /\ Len(G) = Len(tagBuf) + k /\ Len(G) <= size /\ G # <<>>
      /\ \A i \in 1 .. Len(tagBuf) : G[i] = tagBuf[i]
      /\ \A i \in 1 .. Len(G) : i > Len(tagBuf) => IsByte(G[i], i, n, L[n], n)
  <2>1. size \in Nat /\ Len(tagBuf) < size /\ (Parsed < tags => size <= TagLen(L[Parsed + 1]))
    BY <1>5, <1>6
  <2>2. /\ Parsed + 1 \in 1 .. tags /\ L[Parsed + 1] \in TagLens /\ P[Parsed] \in Nat
        /\ P[Parsed + 1] = P[Parsed] + TagLen(L[Parsed + 1])
        /\ copied(size) \in 0 .. Len(chunk) /\ Grown(size) \in Seq(Byte) /\ Grown(size) # <<>>
        /\ Len(Grown(size)) = Len(tagBuf) + copied(size) /\ Len(Grown(size)) <= size
        /\ \A i \in 1 .. Len(tagBuf) : Grown(size)[i] = tagBuf[i]
        /\ \A i \in 1 .. Len(Grown(size)) :
             i > Len(tagBuf) => IsByte(Grown(size)[i], i, Parsed + 1, L[Parsed + 1], Parsed + 1)
    <3>1. /\ chunk # <<>> /\ L \in Seq(TagLens) /\ Len(L) = tags /\ IsStream(L, P, W) /\ IsRest(P, W)
      BY <1>1, <1>2
    <3>2. QED BY ONLY TagsInv, <3>1, <2>1, Collected
  <2>3. QED BY ONLY <1>6, <2>2
<1>8. \A i \in 1 .. Len(G) : IsByte(G[i], i, n, L[n], n + Moved)
  <2> TAKE i \in 1 .. Len(G)
  <2>1. CASE i > Len(tagBuf)
    <3>1. IsByte(G[i], i, n, L[n], n) /\ i \in Nat
      BY <1>7, <2>1
    <3>2. i > SizeLen + RestLen \/ n + Moved = n
      <4>1. CASE way = "karaoke"
        BY <1>4, <1>5, <2>1, <3>1, <4>1
      <4>2. CASE way # "karaoke"
        BY <1>5, <1>6, <4>2, MovedType
      <4>3. QED BY <4>1, <4>2
    <3>3. QED BY <1>7, <3>1, <3>2, BehindTheHeader
  <2>2. CASE ~(i > Len(tagBuf))
    <3>1. i \in 1 .. Len(tagBuf)
      BY <1>5, <1>7, <2>2
    <3>2. QED BY <1>5, <1>6, <1>7, <3>1
  <2>3. QED BY <2>1, <2>2
<1>9. Moved' = Moved /\ TagHeaderLen' = TagHeaderLen /\ chunk' \in Seq(Byte)
  <2>1. Moved' = Moved /\ TagHeaderLen' = TagHeaderLen
    BY <1>1 DEF Moved, TagHeaderLen
  <2>2. chunk' = SubSeq(chunk, k + 1, Len(chunk))
    BY <1>1, <1>6
  <2>3. QED BY <1>5, <1>7, <2>1, <2>2, Cut
<1>10. CASE Len(G) >= TagSize
  <2>1. /\ scanState' = "SCAN_HEADER" /\ tagBuf' = <<>> /\ curFlvTagSize' = 0
        /\ IF way = "karaoke" THEN frames' = Append(frames, G) /\ handled' = handled
                              ELSE handled' = Append(handled, TagAt(G, 0)) /\ frames' = frames
    BY <1>6, <1>10 DEF scanRemainingTag
  <2>2. Len(G) = TagLen(L[n]) /\ TagLen(L[n]) \in Nat /\ Len(G) \in Nat
    BY <1>5, <1>6, <1>7, <1>10
  <2>3. HasTag(G, 0, n, L[n], n + Moved)
    <3>1. \A i \in 1 .. TagLen(L[n]) : 0 + i = i
      BY <2>2
    <3>2. QED BY <1>8, <2>2, <3>1 DEF HasTag
  <2>4. TagAt(G, 0) = TagOf(n, L[n], n + Moved) /\ TagAt(G, 0) \in Tag
    <3>1. n \in Nat /\ n + Moved \in Nat
      BY <1>7, MovedType
    <3>2. L[n] \in TagLens /\ G \in Seq(Byte) /\ 0 \in Nat
      BY <1>7
    <3>3. PICK ts : ts = n + Moved
      OBVIOUS
    <3>4. n \in Nat /\ ts \in Nat /\ HasTag(G, 0, n, L[n], ts)
      BY <2>3, <3>1, <3>3
    <3>5. TagAt(G, 0) = TagOf(n, L[n], ts) /\ TagOf(n, L[n], ts) \in Tag
      BY ONLY <3>2, <3>4, TagTaken
    <3>6. QED BY ONLY <3>3, <3>5
  <2>5. expected[n] = TagOf(n, L[n], n + Moved) /\ Len(expected) = tags
    BY <1>2, <1>7 DEF KaraokeFrames
  <2>6. frames \in Seq(Seq(Byte)) /\ handled \in Seq(Tag)
    BY DEF TagsInv, TagTypes
  <2>7. /\ Parsed' = n /\ frames' \in Seq(Seq(Byte)) /\ handled' \in Seq(Tag)
        /\ HandedOn' /\ KaraokeFrames(L)'
    <3>1. CASE way = "karaoke"
      <4>1. handled' = handled /\ frames' = Append(frames, G)
        BY <2>1, <3>1
      <4>2. /\ frames' \in Seq(Seq(Byte)) /\ Len(frames') = Len(frames) + 1
            /\ \A i \in 1 .. Len(frames) : frames'[i] = frames[i]
            /\ frames'[Len(frames) + 1] = G
        <5>1. /\ Append(frames, G) \in Seq(Seq(Byte)) /\ Len(Append(frames, G)) = Len(frames) + 1
              /\ \A i \in 1 .. Len(frames) : Append(frames, G)[i] = frames[i]
              /\ Append(frames, G)[Len(frames) + 1] = G
          <6>1. G \in Seq(Byte) /\ frames \in Seq(Seq(Byte))
            BY <1>7, <2>6
          <6>2. QED BY ONLY <6>1, Appended
        <5>2. QED BY ONLY <4>1, <5>1
      <4>3. Parsed' = n
        BY <1>5, <1>6, <4>1, <4>2 DEF Parsed
      <4>4. HandedOn'
        BY <1>1, <4>1 DEF TagsInv, HandedOn
      <4>5. ASSUME NEW j \in 1 .. Len(frames')
            PROVE  LET m == Len(handled') + j
                   IN  Len(frames'[j]) = TagLen(L[m]) /\ HasTag(frames'[j], 0, m, L[m], m + Moved')
        <5>1. CASE j = Len(frames) + 1
          <6>1. Len(handled') + j = n /\ frames'[j] = G
            BY <1>5, <1>6, <4>1, <4>2, <5>1
          <6>2. QED BY <1>9, <2>2, <2>3, <6>1
        <5>2. CASE j # Len(frames) + 1
          <6>1. j \in 1 .. Len(frames)
            BY <1>5, <4>2, <5>2
          <6>2. LET m == Len(handled) + j
                IN  Len(frames[j]) = TagLen(L[m]) /\ HasTag(frames[j], 0, m, L[m], m + Moved)
            BY <1>2, <6>1 DEF KaraokeFrames
          <6>3. QED BY <1>9, <4>1, <4>2, <6>1, <6>2
        <5>3. QED BY <5>1, <5>2
      <4>6. /\ way' = "karaoke" /\ Len(expected') = tags' /\ curIndex' = 0
            /\ \A m \in 1 .. tags' : expected'[m] = TagOf(m, L[m], m + Moved')
        BY <1>1, <1>2, <1>9, <3>1 DEF KaraokeFrames
      <4>7. KaraokeFrames(L)'
        BY <4>5, <4>6 DEF KaraokeFrames
      <4>8. QED BY <2>6, <4>1, <4>2, <4>3, <4>4, <4>7
    <3>2. CASE way # "karaoke"
      <4>1. handled' = Append(handled, TagAt(G, 0)) /\ frames' = frames /\ frames = <<>> /\ way = "publisher"
        BY <1>2, <1>3, <2>1, <3>2 DEF KaraokeFrames
      <4>2. PICK e : e = TagAt(G, 0)
        OBVIOUS
      <4>3. e \in Tag /\ e = expected[n] /\ handled' = Append(handled, e)
        BY <2>4, <2>5, <4>1, <4>2
      <4>4. /\ handled' \in Seq(Tag) /\ Len(handled') = Len(handled) + 1
            /\ \A i \in 1 .. Len(handled) : handled'[i] = handled[i]
            /\ handled'[Len(handled) + 1] = e
        <5>1. /\ Append(handled, e) \in Seq(Tag) /\ Len(Append(handled, e)) = Len(handled) + 1
              /\ \A i \in 1 .. Len(handled) : Append(handled, e)[i] = handled[i]
              /\ Append(handled, e)[Len(handled) + 1] = e
          BY ONLY <2>6, <4>3, Appended
        <5>2. QED BY ONLY <4>3, <5>1
      <4>5. Len(frames) = 0 /\ n = Len(handled) + 1
        BY <1>5, <1>6, <4>1
      <4>6. Parsed' = n
        BY <1>5, <4>1, <4>4, <4>5 DEF Parsed
      <4>7. HandedOn'
        <5>1. Len(handled') <= Len(expected')
          BY <1>1, <1>7, <2>5, <4>4, <4>5
        <5>2. ASSUME NEW i \in 1 .. Len(handled') PROVE handled'[i] = expected'[i]
          <6>1. CASE i = Len(handled) + 1
            BY <1>1, <4>3, <4>4, <4>5, <6>1
          <6>2. CASE i # Len(handled) + 1
            <7>1. i \in 1 .. Len(handled)
              BY <1>5, <4>4, <6>2
            <7>2. QED BY <1>1, <4>4, <7>1 DEF TagsInv, HandedOn
          <6>3. QED BY <6>1, <6>2
        <5>3. QED BY <5>1, <5>2 DEF HandedOn
      <4>8. KaraokeFrames(L)'
        <5>1. Len(frames') = 0 /\ frames' = <<>>
          BY <4>1, <4>5
        <5>2. /\ Len(expected') = tags' /\ curIndex' = 0
              /\ \A m \in 1 .. tags' : expected'[m] = TagOf(m, L[m], m + Moved')
          BY <1>1, <1>2, <1>9 DEF KaraokeFrames
        <5>3. QED BY <5>1, <5>2 DEF KaraokeFrames
      <4>9. QED BY <2>6, <4>1, <4>4, <4>6, <4>7, <4>8
    <3>3. QED BY <3>1, <3>2
  <2>8. TagKept(L)'
    <3>1. Len(<<>>) = 0
      OBVIOUS
    <3>2. QED BY <1>4, <1>9, <2>1, <3>1 DEF TagKept
  <2>9. IsRest(P, W)'
    <3>1. Taken(P)' = Taken(P) + k
      <4>1. Taken(P)' = P[n] + 0
        BY <2>1, <2>7 DEF Taken
      <4>2. P[n] = P[Parsed] + (Len(tagBuf) + k)
        BY <1>7, <2>2
      <4>3. QED BY <1>5, <1>7, <4>1, <4>2 DEF Taken
    <3>2. Parsed' \in 0 .. tags
      BY <1>7, <2>7
    <3>3. chunk' = SubSeq(chunk, k + 1, Len(chunk)) /\ bytes' = bytes /\ tags' = tags
      BY <1>1, <1>6
    <3>4. QED BY <1>2, <1>7, <3>1, <3>2, <3>3, RestFollows
  <2>10. TagTypes'
    <3>1. tagBuf' \in Seq(Byte) /\ curFlvTagSize' \in Nat /\ scanState' \in {"SCAN_HEADER", "SCAN_REMAINING_TAG"}
      BY <2>1
    <3>2. QED BY <1>1, <1>9, <2>7, <3>1 DEF TagsInv, TagTypes
  <2>11. TagsFollow(L)'
    <3>1. Len(L) = tags' /\ way' # "mixed"
      BY <1>1, <1>2, <1>3
    <3>2. QED BY <1>2, <2>7, <2>8, <2>9, <3>1 DEF TagsFollow
  <2>12. QED BY <2>7, <2>10, <2>11 DEF TagsInv
<1>11. CASE ~(Len(G) >= TagSize)
  <2>1. tagBuf' = G /\ UNCHANGED <<scanState, curFlvTagSize, frames, handled>>
    BY <1>6, <1>11 DEF scanRemainingTag
  <2>2. Parsed' = Parsed /\ TagSize' = TagSize
    BY <1>9, <2>1 DEF Parsed, TagSize
  <2>3. TagTypes' /\ HandedOn' /\ KaraokeFrames(L)'
    <3>1. TagTypes' /\ HandedOn'
      BY <1>1, <1>7, <1>9, <2>1 DEF TagsInv, TagTypes, HandedOn
    <3>2. KaraokeFrames(L)'
      BY <1>1, <1>2, <1>9, <2>1 DEF KaraokeFrames
    <3>3. QED BY <3>1, <3>2
  <2>4. TagKept(L)'
    <3>1. Parsed < tags /\ TagHeaderLen <= Len(G) /\ Len(G) < TagSize
      <4>1. Parsed < tags
        BY <1>5, <1>6, <1>7
      <4>2. /\ Len(G) = Len(tagBuf) + k /\ k \in Nat /\ Len(tagBuf) \in Nat /\ TagHeaderLen \in Nat
            /\ TagSize \in Nat /\ TagHeaderLen <= Len(tagBuf) /\ ~(Len(G) >= TagSize)
        BY <1>4, <1>5, <1>7, <1>11
      <4>3. TagHeaderLen <= Len(G) /\ Len(G) < TagSize
        BY ONLY <4>2
      <4>4. QED BY <4>1, <4>3
    <3>2. \A i \in 1 .. Len(tagBuf') :
            IsByte(tagBuf'[i], i, Parsed' + 1, L[Parsed' + 1], Parsed' + 1 + Moved')
      BY <1>6, <1>8, <1>9, <2>1, <2>2
    <3>3. /\ TagHeaderLen' <= Len(tagBuf') /\ Len(tagBuf') < TagSize'
          /\ TagSize' = TagLen(L[Parsed' + 1]) /\ Parsed' < tags' /\ scanState' = "SCAN_REMAINING_TAG"
      BY <1>1, <1>5, <1>9, <2>1, <2>2, <3>1
    <3>4. QED BY <3>2, <3>3 DEF TagKept
  <2>5. IsRest(P, W)'
    <3>1. Taken(P)' = Taken(P) + k
      <4>1. Taken(P)' = P[Parsed] + Len(G)
        BY <2>1, <2>2 DEF Taken
      <4>2. Len(G) = Len(tagBuf) + k /\ k \in Nat /\ Len(tagBuf) \in Nat /\ P[Parsed] \in Nat
        BY <1>5, <1>7
      <4>3. QED BY ONLY <4>1, <4>2 DEF Taken
    <3>2. Parsed' \in 0 .. tags
      BY <1>2, <2>2 DEF IsRest
    <3>3. chunk' = SubSeq(chunk, k + 1, Len(chunk)) /\ bytes' = bytes /\ tags' = tags
      BY <1>1, <1>6
    <3>4. QED BY <1>2, <1>7, <3>1, <3>2, <3>3, RestFollows
  <2>6. TagsFollow(L)'
    <3>1. Len(L) = tags' /\ way' # "mixed"
      BY <1>1, <1>2, <1>3
    <3>2. QED BY <1>2, <2>3, <2>4, <2>5, <3>1 DEF TagsFollow
  <2>7. QED BY <2>3, <2>6 DEF TagsInv
<1>12. QED BY <1>10, <1>11

(* A tag among other bytes.                                                    *)
LEMMA TagBehind ==
  ASSUME NEW s \in Seq(Byte), NEW t \in Seq(Byte), NEW n, NEW len \in TagLens, NEW ts, HasTag(t, 0, n, len, ts)
  PROVE  HasTag(s \o t, Len(s), n, len, ts)
<1>1. /\ s \o t \in Seq(Byte) /\ Len(s \o t) = Len(s) + Len(t)
      /\ \A i \in 1 .. Len(t) : (s \o t)[Len(s) + i] = t[i]
  BY Joined
<1>2. TagLen(len) \in Nat /\ Len(s) \in Nat /\ Len(t) \in Nat /\ TagLen(len) <= Len(t)
  BY Lens DEF HasTag
<1>3. ASSUME NEW i \in 1 .. TagLen(len) PROVE IsByte((s \o t)[Len(s) + i], i, n, len, ts)
  <2>1. i \in 1 .. Len(t) /\ 0 + i = i
    BY <1>2
  <2>2. IsByte(t[0 + i], i, n, len, ts)
    BY DEF HasTag
  <2>3. QED BY <1>1, <2>1, <2>2
<1>4. QED BY <1>1, <1>2, <1>3 DEF HasTag

LEMMA TagBefore ==
  ASSUME NEW s \in Seq(Byte), NEW t \in Seq(Byte), NEW at \in Nat, NEW n, NEW len \in TagLens, NEW ts,
         HasTag(s, at, n, len, ts)
  PROVE  HasTag(s \o t, at, n, len, ts)
<1>1. /\ s \o t \in Seq(Byte) /\ Len(s \o t) = Len(s) + Len(t)
      /\ \A i \in 1 .. Len(s) : (s \o t)[i] = s[i]
  BY Joined
<1>2. TagLen(len) \in Nat /\ Len(s) \in Nat /\ Len(t) \in Nat /\ at + TagLen(len) <= Len(s)
  BY Lens DEF HasTag
<1>3. ASSUME NEW i \in 1 .. TagLen(len) PROVE IsByte((s \o t)[at + i], i, n, len, ts)
  <2>1. at + i \in 1 .. Len(s)
    BY <1>2
  <2>2. QED BY <1>1, <2>1 DEF HasTag
<1>4. QED BY <1>1, <1>2, <1>3 DEF HasTag

LEMMA HeaderIs ==
  ASSUME NEW len \in TagLens
  PROVE  /\ newHeader(len) \in Seq(Byte) /\ Len(newHeader(len)) = SignatureLen + TagLen(len)
         /\ newHeader(len)[1].field = "signature" /\ HasTag(newHeader(len), SignatureLen, 0, len, 0)
<1> DEFINE S == BytesOf("signature", SignatureLen, 0)
           T == TagBytes(0, len)
           H == S \o T
<1>1. SignatureLen \in Nat \ {0}
  BY Lens
<1>2. /\ S \in Seq(Byte) /\ Len(S) = SignatureLen
      /\ \A i \in 1 .. SignatureLen : S[i] = [field |-> "signature", value |-> 0]
  <2>1. "signature" \in Field /\ SignatureLen \in Nat /\ 0 \in Nat
    BY <1>1 DEF Field
  <2>2. QED BY ONLY <2>1, BytesOfField
<1>3. T \in Seq(Byte) /\ Len(T) = TagLen(len) /\ HasTag(T, 0, 0, len, 0)
  BY TagBytesAre
<1>4. newHeader(len) = H
  BY DEF newHeader
<1> HIDE DEF S, T
<1>5. /\ H \in Seq(Byte) /\ Len(H) = SignatureLen + TagLen(len)
      /\ \A i \in 1 .. SignatureLen : H[i] = S[i]
  BY ONLY <1>2, <1>3, JoinedLens
<1>6. HasTag(H, SignatureLen, 0, len, 0)
  <2>1. HasTag(H, Len(S), 0, len, 0)
    BY <1>2, <1>3, TagBehind
  <2>2. QED BY <1>2, <2>1
<1> HIDE DEF H
<1>7. H[1].field = "signature"
  <2>1. H[1] = [field |-> "signature", value |-> 0]
    BY <1>1, <1>2, <1>5
  <2>2. QED BY <2>1
<1>8. QED BY <1>4, <1>5, <1>6, <1>7

(* The first frame of FLVOutput is the header and its metadata, and a tag; every *)
(* other is a tag.                                                           *)
LEMMA FramePackaged ==
  ASSUME TagsInv, packageFrame
  PROVE  TagsInv'
<1>1. /\ way = "mixed" /\ tags' = tags + 1 /\ flvHeaderSent' = TRUE
      /\ UNCHANGED <<way, bytes, chunk, scanState, tagBuf, curFlvTagSize, curIndex, handled>>
  BY DEF packageFrame, parserVars
<1>2. PICK L : TagsFollow(L)
  BY DEF TagsInv
<1>3. /\ L \in Seq(TagLens) /\ Len(L) = tags /\ MixedFrames(L) /\ bytes = <<>> /\ chunk = <<>> /\ tagBuf = <<>>
      /\ scanState = "SCAN_HEADER"
  BY <1>1, <1>2 DEF TagsFollow
<1>4. PICK len \in TagLens :
        /\ frames' = Append(frames, (IF flvHeaderSent THEN <<>> ELSE newHeader(len)) \o TagBytes(tags + 1, len))
        /\ expected' = expected \o (IF flvHeaderSent THEN <<>> ELSE <<TagOf(0, len, 0)>>)
                                \o <<TagOf(tags + 1, len, tags + 1)>>
  BY DEF packageFrame
<1>5. /\ tags \in Nat /\ frames \in Seq(Seq(Byte)) /\ expected \in Seq(Tag) /\ Len(frames) \in Nat
      /\ Len(handled) \in Nat /\ Len(expected) \in Nat /\ (flvHeaderSent <=> tags > 0)
      /\ Len(frames) <= tags
      /\ Len(expected) = IF tags = 0 THEN 0 ELSE tags + 1
  BY <1>3 DEF TagsInv, TagTypes, MixedFrames
<1>6. PICK M : M = Append(L, len)
  OBVIOUS
<1>7. M \in Seq(TagLens) /\ Len(M) = tags + 1 /\ M[tags + 1] = len /\ \A n \in 1 .. tags : M[n] = L[n]
  BY <1>3, <1>6, Appended
<1>8. \A n \in 1 .. tags : HeaderLen(M, n) = HeaderLen(L, n)
  <2> TAKE n \in 1 .. tags
  <2>1. CASE n = 1
    <3>1. M[1] = L[1]
      BY <1>7, <2>1
    <3>2. QED BY <2>1, <3>1 DEF HeaderLen
  <2>2. CASE n # 1
    BY <2>2 DEF HeaderLen
  <2>3. QED BY <2>1, <2>2
<1>9. /\ TagBytes(tags + 1, len) \in Seq(Byte) /\ Len(TagBytes(tags + 1, len)) = TagLen(len)
      /\ HasTag(TagBytes(tags + 1, len), 0, tags + 1, len, tags + 1) /\ tags + 1 \in Nat
  BY <1>5, TagBytesAre
<1>10. PICK T : T = TagBytes(tags + 1, len)
  OBVIOUS
<1>11. \E F \in Seq(Byte) :
         /\ frames' = Append(frames, F)
         /\ Len(F) = HeaderLen(M, tags + 1) + TagLen(len)
         /\ HasTag(F, HeaderLen(M, tags + 1), tags + 1, len, tags + 1)
         /\ tags + 1 = 1 => F[1].field = "signature" /\ HasTag(F, SignatureLen, 0, len, 0)
  <2>1. CASE tags = 0
    <3>1. PICK H : H = newHeader(len)
      OBVIOUS
    <3>2. /\ H \in Seq(Byte) /\ Len(H) = SignatureLen + TagLen(len)
          /\ H[1].field = "signature" /\ HasTag(H, SignatureLen, 0, len, 0)
      BY <3>1, HeaderIs
    <3>3. T \in Seq(Byte) /\ Len(T) = TagLen(len) /\ HasTag(T, 0, tags + 1, len, tags + 1)
      BY <1>9, <1>10
    <3>4. frames' = Append(frames, H \o T)
      BY <1>4, <1>5, <1>10, <2>1, <3>1
    <3>5. HeaderLen(M, tags + 1) = SignatureLen + TagLen(len) /\ SignatureLen \in Nat \ {0} /\ TagLen(len) \in Nat
      BY <1>7, <2>1, Lens DEF HeaderLen
    <3>6. PICK F : F = H \o T
      OBVIOUS
    <3>7. F \in Seq(Byte) /\ Len(F) = (SignatureLen + TagLen(len)) + TagLen(len) /\ F[1] = H[1]
      <4>1. /\ H \o T \in Seq(Byte) /\ Len(H \o T) = (SignatureLen + TagLen(len)) + TagLen(len)
            /\ \A i \in 1 .. SignatureLen + TagLen(len) : (H \o T)[i] = H[i]
        BY ONLY <3>2, <3>3, JoinedLens
      <4>2. 1 \in 1 .. SignatureLen + TagLen(len)
        BY <3>5
      <4>3. QED BY <3>6, <4>1, <4>2
    <3>8. HasTag(F, SignatureLen + TagLen(len), tags + 1, len, tags + 1)
      <4>1. HasTag(H \o T, Len(H), tags + 1, len, tags + 1)
        BY <3>2, <3>3, TagBehind
      <4>2. QED BY <3>2, <3>6, <4>1
    <3>9. HasTag(F, SignatureLen, 0, len, 0)
      BY <3>2, <3>3, <3>5, <3>6, TagBefore
    <3>10. QED BY <3>2, <3>4, <3>5, <3>6, <3>7, <3>8, <3>9
  <2>2. CASE tags # 0
    <3>1. frames' = Append(frames, <<>> \o T)
      <4>1. flvHeaderSent
        BY <1>5, <2>2
      <4>2. QED BY ONLY <1>4, <1>10, <4>1, Zenon
    <3>2. <<>> \o T = T
      BY <1>9, <1>10, ConcatEmptySeq
    <3>3. HeaderLen(M, tags + 1) = 0 /\ tags + 1 # 1 /\ TagLen(len) \in Nat
      BY <1>5, <2>2, Lens DEF HeaderLen
    <3>4. QED BY <1>9, <1>10, <3>1, <3>2, <3>3
  <2>3. QED BY <2>1, <2>2
<1>12. PICK F \in Seq(Byte) :
         /\ frames' = Append(frames, F)
         /\ Len(F) = HeaderLen(M, tags + 1) + TagLen(len)
         /\ HasTag(F, HeaderLen(M, tags + 1), tags + 1, len, tags + 1)
         /\ tags + 1 = 1 => F[1].field = "signature" /\ HasTag(F, SignatureLen, 0, len, 0)
  BY <1>11
<1>13. /\ frames' \in Seq(Seq(Byte)) /\ Len(frames') = Len(frames) + 1
       /\ \A j \in 1 .. Len(frames) : frames'[j] = frames[j]
       /\ frames'[Len(frames) + 1] = F
  <2>1. /\ Append(frames, F) \in Seq(Seq(Byte)) /\ Len(Append(frames, F)) = Len(frames) + 1
        /\ \A j \in 1 .. Len(frames) : Append(frames, F)[j] = frames[j]
        /\ Append(frames, F)[Len(frames) + 1] = F
    <3>1. F \in Seq(Byte) /\ frames \in Seq(Seq(Byte))
      BY <1>5
    <3>2. QED BY ONLY <3>1, Appended
  <2>2. frames' = Append(frames, F)
    BY <1>12
  <2>3. QED BY ONLY <2>1, <2>2
<1>14. /\ expected' \in Seq(Tag) /\ Len(expected') = tags + 2
       /\ \A i \in 1 .. Len(expected) : expected'[i] = expected[i]
       /\ expected'[tags + 2] = TagOf(tags + 1, len, tags + 1)
       /\ tags = 0 => expected'[1] = TagOf(0, len, 0)
  <2>1. PICK d, e : d = TagOf(0, len, 0) /\ e = TagOf(tags + 1, len, tags + 1)
    OBVIOUS
  <2>2. d \in Tag /\ e \in Tag
    BY <1>9, <2>1, TagOfType
  <2>3. CASE tags = 0
    <3>1. expected' = (expected \o <<d>>) \o <<e>> /\ expected = <<>>
      BY <1>4, <1>5, <2>1, <2>3, EmptySeq
    <3>2. expected' = <<d>> \o <<e>>
      <4>1. expected \o <<d>> = <<d>>
        BY <2>2, <3>1, ConcatEmptySeq
      <4>2. QED BY ONLY <3>1, <4>1
    <3>3. expected' \in Seq(Tag) /\ Len(expected') = 2 /\ expected'[1] = d /\ expected'[2] = e
      <4>1. /\ <<d>> \in Seq(Tag) /\ Len(<<d>>) = 1 /\ <<d>>[1] = d
            /\ <<e>> \in Seq(Tag) /\ Len(<<e>>) = 1 /\ <<e>>[1] = e
        BY <2>2
      <4>2. PICK s, t : s = <<d>> /\ t = <<e>>
        OBVIOUS
      <4>3. /\ s \o t \in Seq(Tag) /\ Len(s \o t) = 1 + 1
            /\ \A x \in 1 .. 1 : (s \o t)[x] = s[x]
            /\ \A x \in 1 .. 1 : (s \o t)[1 + x] = t[x]
        <5>1. s \in Seq(Tag) /\ t \in Seq(Tag)
          BY ONLY <4>1, <4>2
        <5>2. /\ s \o t \in Seq(Tag) /\ Len(s \o t) = Len(s) + Len(t)
              /\ \A x \in 1 .. Len(s) : (s \o t)[x] = s[x]
              /\ \A x \in 1 .. Len(t) : (s \o t)[Len(s) + x] = t[x]
          BY ONLY <5>1, Joined
        <5>3. Len(s) = 1 /\ Len(t) = 1
          BY ONLY <4>1, <4>2
        <5>4. QED BY ONLY <5>2, <5>3
      <4>4. 1 \in 1 .. 1 /\ 1 + 1 = 2
        OBVIOUS
      <4>5. QED BY ONLY <3>2, <4>1, <4>2, <4>3, <4>4
    <3>4. tags + 2 = 2 /\ \A i \in 1 .. Len(expected) : FALSE
      BY <1>5, <2>3
    <3>5. QED BY <2>1, <3>3, <3>4
  <2>4. CASE tags # 0
    <3>1. expected' = (expected \o <<>>) \o <<e>>
      <4>1. flvHeaderSent
        BY <1>5, <2>4
      <4>2. QED BY ONLY <1>4, <2>1, <4>1, Zenon
    <3>2. expected \o <<>> = expected
      BY <1>5, ConcatEmptySeq
    <3>3. expected' = Append(expected, e)
      BY <1>5, <2>2, <3>1, <3>2
    <3>4. /\ Append(expected, e) \in Seq(Tag) /\ Len(Append(expected, e)) = Len(expected) + 1
          /\ \A i \in 1 .. Len(expected) : Append(expected, e)[i] = expected[i]
          /\ Append(expected, e)[Len(expected) + 1] = e
      <4>1. expected \in Seq(Tag)
        BY <1>5
      <4>2. QED BY ONLY <2>2, <4>1, Appended
    <3>5. Len(expected) + 1 = tags + 2
      BY <1>5, <2>4
    <3>6. QED BY ONLY <2>1, <2>4, <3>3, <3>4, <3>5
  <2>5. QED BY <2>3, <2>4
<1>15. TagTypes'
  BY <1>1, <1>9, <1>13, <1>14 DEF TagsInv, TagTypes
<1>16. HandedOn'
  <2>1. /\ Len(handled) <= Len(expected) /\ \A i \in 1 .. Len(handled) : handled[i] = expected[i]
        /\ Len(expected) <= tags + 2
    BY <1>5 DEF TagsInv, HandedOn
  <2>2. Len(handled') <= Len(expected') /\ \A i \in 1 .. Len(handled) : i \in 1 .. Len(expected)
    BY <1>1, <1>5, <1>14, <2>1
  <2>3. QED BY <1>1, <1>14, <2>1, <2>2 DEF HandedOn
<1>17. MixedFrames(M)'
  <2>1. ASSUME NEW j \in 1 .. Len(frames')
        PROVE  LET n == tags' - Len(frames') + j
               IN  /\ Len(frames'[j]) = HeaderLen(M, n) + TagLen(M[n])
                   /\ HasTag(frames'[j], HeaderLen(M, n), n, M[n], n)
                   /\ n = 1 => frames'[j][1].field = "signature" /\ HasTag(frames'[j], SignatureLen, 0, M[n], 0)
    <3>1. CASE j = Len(frames) + 1
      <4>1. tags' - Len(frames') + j = tags + 1 /\ frames'[j] = F
        BY <1>1, <1>5, <1>13, <3>1
      <4>2. QED BY <1>7, <1>12, <4>1
    <3>2. CASE j # Len(frames) + 1
      <4>1. j \in 1 .. Len(frames) /\ frames'[j] = frames[j]
        <5>1. j \in 1 .. Len(frames) + 1
          BY <1>13
        <5>2. j \in 1 .. Len(frames)
          BY <1>5, <3>2, <5>1
        <5>3. QED BY ONLY <1>13, <5>2
      <4>2. PICK n : n = tags - Len(frames) + j
        OBVIOUS
      <4>3. n \in 1 .. tags /\ tags' - Len(frames') + j = n
        BY <1>1, <1>5, <1>13, <4>1, <4>2
      <4>4. /\ Len(frames[j]) = HeaderLen(L, n) + TagLen(L[n])
            /\ HasTag(frames[j], HeaderLen(L, n), n, L[n], n)
            /\ n = 1 => frames[j][1].field = "signature" /\ HasTag(frames[j], SignatureLen, 0, L[n], 0)
        BY <1>3, <4>1, <4>2 DEF MixedFrames
      <4>5. M[n] = L[n] /\ HeaderLen(M, n) = HeaderLen(L, n)
        BY <1>7, <1>8, <4>3
      <4>6. QED BY <4>1, <4>3, <4>4, <4>5
    <3>3. QED BY <3>1, <3>2
  <2>2. Len(expected') = IF tags' = 0 THEN 0 ELSE tags' + 1
    BY <1>1, <1>5, <1>14
  <2>3. expected'[1] = TagOf(0, M[1], 0)
    <3>1. CASE tags = 0
      BY <1>7, <1>14, <3>1
    <3>2. CASE tags # 0
      <4>1. 1 \in 1 .. tags /\ 1 \in 1 .. Len(expected) /\ tags > 0
        BY <1>5, <3>2
      <4>2. QED BY <1>3, <1>7, <1>14, <4>1 DEF MixedFrames
    <3>3. QED BY <3>1, <3>2
  <2>4. ASSUME NEW n \in 1 .. tags' PROVE expected'[n + 1] = TagOf(n, M[n], n)
    <3>1. CASE n = tags + 1
      <4>1. n + 1 = tags + 2
        BY <1>5, <3>1
      <4>2. QED BY <1>7, <1>14, <3>1, <4>1
    <3>2. CASE n # tags + 1
      <4>1. n \in 1 .. tags /\ n + 1 \in 1 .. Len(expected)
        BY <1>1, <1>5, <3>2
      <4>2. QED BY <1>3, <1>7, <1>14, <4>1 DEF MixedFrames
    <3>3. QED BY <3>1, <3>2
  <2>5. \/ Len(frames') = tags' /\ curIndex' = 0 /\ Len(handled') = 0
        \/ Len(frames') = tags' /\ tags' > 0 /\ curIndex' = HeaderLen(M, 1) /\ Len(handled') = 1
        \/ Len(frames') < tags' /\ curIndex' = 0 /\ Len(handled') = tags' - Len(frames') + 1
    <3>1. \/ Len(frames) = tags /\ curIndex = 0 /\ Len(handled) = 0
          \/ Len(frames) = tags /\ tags > 0 /\ curIndex = HeaderLen(L, 1) /\ Len(handled) = 1
          \/ Len(frames) < tags /\ curIndex = 0 /\ Len(handled) = tags - Len(frames) + 1
      BY <1>3 DEF MixedFrames
    <3>2. tags > 0 => HeaderLen(M, 1) = HeaderLen(L, 1)
      BY <1>5, <1>8
    <3>3. QED BY <1>1, <1>5, <1>13, <3>1, <3>2
  <2>6. flvHeaderSent' <=> tags' > 0
    BY <1>1, <1>5
  <2>7. QED BY <2>1, <2>2, <2>3, <2>4, <2>5, <2>6 DEF MixedFrames
<1>18. TagsFollow(M)'
  BY <1>1, <1>3, <1>7, <1>17 DEF TagsFollow
<1>19. QED BY <1>15, <1>16, <1>18 DEF TagsInv

(* Handing the next expected tag on keeps the order.                           *)
LEMMA HandedNext ==
  ASSUME HandedOn, handled \in Seq(Tag), expected \in Seq(Tag), Len(handled) < Len(expected),
         NEW e \in Tag, e = expected[Len(handled) + 1],
         handled' = Append(handled, e), expected' = expected
  PROVE  handled' \in Seq(Tag) /\ Len(handled') = Len(handled) + 1 /\ HandedOn'
<1>1. /\ Append(handled, e) \in Seq(Tag) /\ Len(Append(handled, e)) = Len(handled) + 1
      /\ \A i \in 1 .. Len(handled) : Append(handled, e)[i] = handled[i]
      /\ Append(handled, e)[Len(handled) + 1] = e
  BY ONLY handled \in Seq(Tag), e \in Tag, Appended
<1>2. /\ handled' \in Seq(Tag) /\ Len(handled') = Len(handled) + 1
      /\ \A i \in 1 .. Len(handled) : handled'[i] = handled[i]
      /\ handled'[Len(handled) + 1] = e
  BY ONLY <1>1, handled' = Append(handled, e)
<1>3. Len(handled) \in Nat /\ Len(expected) \in Nat
  OBVIOUS
<1>4. ASSUME NEW i \in 1 .. Len(handled') PROVE handled'[i] = expected'[i]
  <2>1. CASE i = Len(handled) + 1
    BY <1>2, <2>1
  <2>2. CASE i # Len(handled) + 1
    <3>1. i \in 1 .. Len(handled)
      BY <1>2, <1>3, <2>2
    <3>2. QED BY <1>2, <3>1 DEF HandedOn
  <2>3. QED BY <2>1, <2>2
<1>5. Len(handled') <= Len(expected')
  BY <1>2, <1>3
<1>6. QED BY <1>2, <1>4, <1>5 DEF HandedOn

(* onFrameGenerated hands the tag on at which it stands, and goes on behind it. *)
LEMMA OneTag ==
  ASSUME onFrameGenerated, NEW F \in Seq(Byte), F = Head(frames),
         NEW at \in Nat, NEW n \in Nat, NEW len \in TagLens, NEW ts \in Nat, HasTag(F, at, n, len, ts),
         at = IF curIndex = 0 /\ F[1].field = "signature" THEN SignatureLen ELSE curIndex
  PROVE  /\ handled' = Append(handled, TagOf(n, len, ts)) /\ TagOf(n, len, ts) \in Tag
         /\ at + TagLen(len) < Len(F) => curIndex' = at + TagLen(len) /\ frames' = frames
         /\ ~(at + TagLen(len) < Len(F)) => curIndex' = 0 /\ frames' = Tail(frames)
<1>1. /\ TagAt(F, at) = TagOf(n, len, ts) /\ TagOf(n, len, ts) \in Tag
      /\ FieldAt(F, at + 1, "size") = len
  <2>1. F \in Seq(Byte) /\ at \in Nat /\ n \in Nat /\ len \in TagLens /\ ts \in Nat /\ HasTag(F, at, n, len, ts)
    OBVIOUS
  <2>2. QED BY ONLY <2>1, TagTaken
<1>2. /\ handled' = Append(handled, TagAt(F, at))
      /\ IF at + SizeLen + RestLen + FieldAt(F, at + 1, "size") + PrevLen < Len(F)
         THEN curIndex' = at + SizeLen + RestLen + FieldAt(F, at + 1, "size") + PrevLen /\ UNCHANGED frames
         ELSE curIndex' = 0 /\ frames' = Tail(frames)
  BY DEF onFrameGenerated
<1>3. at + SizeLen + RestLen + len + PrevLen = at + TagLen(len)
  <2>1. SizeLen \in Nat /\ RestLen \in Nat /\ PrevLen \in Nat /\ len \in Nat
    BY Lens
  <2>2. QED BY <2>1 DEF TagLen
<1>4. IF at + TagLen(len) < Len(F)
      THEN curIndex' = at + TagLen(len) /\ frames' = frames
      ELSE curIndex' = 0 /\ frames' = Tail(frames)
  BY ONLY <1>1, <1>2, <1>3
<1>5. QED BY ONLY <1>1, <1>2, <1>4

LEMMA FirstFrame ==
  ASSUME frames \in Seq(Seq(Byte)), frames # <<>>
  PROVE  /\ Len(frames) \in Nat \ {0} /\ Head(frames) = frames[1] /\ frames[1] \in Seq(Byte)
         /\ Tail(frames) \in Seq(Seq(Byte)) /\ Len(Tail(frames)) = Len(frames) - 1
         /\ \A j \in 1 .. Len(frames) - 1 : Tail(frames)[j] = frames[j + 1]
<1>1. /\ Len(frames) \in Nat \ {0} /\ Head(frames) = frames[1]
      /\ Tail(frames) \in Seq(Seq(Byte)) /\ Len(Tail(frames)) = Len(frames) - 1
  BY HeadTailProperties, EmptySeq
<1>2. \A j \in 1 .. Len(frames) - 1 : Tail(frames)[j] = frames[j + 1]
  BY <1>1, HeadTailProperties
<1>3. frames[1] \in Seq(Byte)
  BY <1>1, ElementOfSeq
<1>4. QED BY <1>1, <1>2, <1>3

(* A song's frame is one tag.                                                  *)
LEMMA SongFrameHandled ==
  ASSUME TagsInv, onFrameGenerated, way # "mixed"
  PROVE  TagsInv'
<1>1. /\ frames # <<>>
      /\ UNCHANGED <<way, tags, flvHeaderSent, bytes, chunk, scanState, tagBuf, curFlvTagSize, expected>>
  BY DEF onFrameGenerated, parserVars
<1>2. PICK L : TagsFollow(L)
  BY DEF TagsInv
<1>3. PICK P, W : /\ L \in Seq(TagLens) /\ Len(L) = tags
                 /\ KaraokeFrames(L) /\ IsStream(L, P, W) /\ IsRest(P, W) /\ TagKept(L)
  BY <1>2 DEF TagsFollow
<1>4. /\ tags \in Nat /\ frames \in Seq(Seq(Byte)) /\ expected \in Seq(Tag) /\ handled \in Seq(Tag)
      /\ Len(handled) \in Nat /\ Len(expected) = tags /\ HandedOn
  BY <1>3 DEF TagsInv, TagTypes, KaraokeFrames
<1>5. /\ Len(frames) \in Nat \ {0} /\ Head(frames) = frames[1] /\ frames[1] \in Seq(Byte)
      /\ Tail(frames) \in Seq(Seq(Byte)) /\ Len(Tail(frames)) = Len(frames) - 1
      /\ \A j \in 1 .. Len(frames) - 1 : Tail(frames)[j] = frames[j + 1]
  BY <1>1, <1>4, FirstFrame
<1>6. PICK n, F, ts : n = Len(handled) + 1 /\ F = frames[1] /\ ts = n + Moved
  OBVIOUS
<1>7. n \in 1 .. tags /\ n \in Nat /\ ts \in Nat /\ L[n] \in TagLens /\ F \in Seq(Byte) /\ F = Head(frames)
  <2>1. n \in 1 .. tags /\ n \in Nat
    BY <1>3, <1>4, <1>5, <1>6 DEF IsRest, Parsed
  <2>2. L[n] \in TagLens
    BY <1>3, <2>1, ElementOfSeq
  <2>3. QED BY <1>5, <1>6, <2>1, <2>2, MovedType
<1>8. Len(F) = TagLen(L[n]) /\ HasTag(F, 0, n, L[n], ts) /\ curIndex = 0 /\ TagLen(L[n]) \in Nat
      /\ expected[n] = TagOf(n, L[n], ts)
  <2>1. 1 \in 1 .. Len(frames)
    BY <1>5
  <2>2. Len(F) = TagLen(L[n]) /\ HasTag(F, 0, n, L[n], n + Moved)
    BY <1>3, <1>6, <2>1 DEF KaraokeFrames
  <2>3. curIndex = 0 /\ expected[n] = TagOf(n, L[n], n + Moved)
    BY <1>3, <1>7 DEF KaraokeFrames
  <2>4. QED BY <1>6, <1>7, <2>2, <2>3, Lens
<1>9. 0 = IF curIndex = 0 /\ F[1].field = "signature" THEN SignatureLen ELSE curIndex
  <2>1. F[0 + 1].field = "size"
    <3>1. 0 \in Nat
      OBVIOUS
    <3>2. QED BY ONLY <1>7, <1>8, <3>1, TagTaken
  <2>2. F[1].field # "signature"
    BY <2>1
  <2>3. QED BY <1>8, <2>2
<1>10. PICK e : e = TagOf(n, L[n], ts)
  OBVIOUS
<1>11. handled' = Append(handled, e) /\ e \in Tag /\ curIndex' = 0 /\ frames' = Tail(frames)
  <2>1. 0 \in Nat /\ ~(0 + TagLen(L[n]) < Len(F))
    BY <1>8
  <2>2. QED BY <1>7, <1>8, <1>9, <1>10, <2>1, OneTag
<1>12. handled' \in Seq(Tag) /\ Len(handled') = Len(handled) + 1 /\ HandedOn'
  BY <1>1, <1>4, <1>6, <1>7, <1>8, <1>10, <1>11, HandedNext
<1>13. TagTypes'
  <2>1. frames' \in Seq(Seq(Byte)) /\ curIndex' \in Nat
    BY <1>5, <1>11
  <2>2. QED BY <1>1, <1>12, <2>1 DEF TagsInv, TagTypes
<1>14. Parsed' = Parsed /\ TagHeaderLen' = TagHeaderLen /\ TagSize' = TagSize /\ Moved' = Moved
  <2>1. Parsed' = Parsed
    BY <1>4, <1>5, <1>11, <1>12 DEF Parsed
  <2>2. QED BY <1>1, <2>1 DEF TagHeaderLen, TagSize, Moved
<1>15. KaraokeFrames(L)'
  <2>1. ASSUME NEW j \in 1 .. Len(frames')
        PROVE  LET m == Len(handled') + j
               IN  Len(frames'[j]) = TagLen(L[m]) /\ HasTag(frames'[j], 0, m, L[m], m + Moved')
    <3>1. j + 1 \in 1 .. Len(frames) /\ frames'[j] = frames[j + 1] /\ Len(handled') + j = Len(handled) + (j + 1)
      <4>1. Len(frames') = Len(frames) - 1 /\ frames' = Tail(frames)
        BY <1>5, <1>11
      <4>2. j \in 1 .. Len(frames) - 1 /\ j + 1 \in 1 .. Len(frames)
        BY <1>5, <4>1
      <4>3. frames'[j] = frames[j + 1]
        BY ONLY <1>5, <4>1, <4>2
      <4>4. Len(handled') + j = Len(handled) + (j + 1)
        BY <1>4, <1>12, <4>2
      <4>5. QED BY <4>2, <4>3, <4>4
    <3>2. LET m == Len(handled) + (j + 1)
          IN  Len(frames[j + 1]) = TagLen(L[m]) /\ HasTag(frames[j + 1], 0, m, L[m], m + Moved)
      BY <1>3, <3>1 DEF KaraokeFrames
    <3>3. QED BY <1>14, <3>1, <3>2
  <2>2. /\ Len(expected') = tags' /\ curIndex' = 0
        /\ \A m \in 1 .. tags' : expected'[m] = TagOf(m, L[m], m + Moved')
    BY <1>1, <1>3, <1>11, <1>14 DEF KaraokeFrames
  <2>3. way' # "publisher"
    BY <1>1, <1>3 DEF KaraokeFrames
  <2>4. QED BY <2>1, <2>2, <2>3 DEF KaraokeFrames
<1>16. IsRest(P, W)'
  BY <1>1, <1>3, <1>14 DEF IsRest, Taken
<1>17. TagKept(L)'
  BY <1>1, <1>3, <1>14 DEF TagKept
<1>18. TagsFollow(L)'
  BY <1>1, <1>3, <1>15, <1>16, <1>17 DEF TagsFollow
<1>19. QED BY <1>12, <1>13, <1>18 DEF TagsInv

(* A mixed frame is one tag, the first of them the header's metadata and one.   *)
LEMMA MixedFrameHandled ==
  ASSUME TagsInv, onFrameGenerated, way = "mixed"
  PROVE  TagsInv'
<1>1. /\ frames # <<>>
      /\ UNCHANGED <<way, tags, flvHeaderSent, bytes, chunk, scanState, tagBuf, curFlvTagSize, expected>>
  BY DEF onFrameGenerated, parserVars
<1>2. PICK L : TagsFollow(L)
  BY DEF TagsInv
<1>3. /\ L \in Seq(TagLens) /\ Len(L) = tags /\ MixedFrames(L) /\ bytes = <<>> /\ chunk = <<>> /\ tagBuf = <<>>
      /\ scanState = "SCAN_HEADER"
  BY <1>2 DEF TagsFollow
<1>4. /\ tags \in Nat /\ frames \in Seq(Seq(Byte)) /\ expected \in Seq(Tag) /\ handled \in Seq(Tag)
      /\ Len(handled) \in Nat /\ HandedOn /\ curIndex \in Nat
  BY DEF TagsInv, TagTypes
<1>5. /\ Len(frames) \in Nat \ {0} /\ Head(frames) = frames[1] /\ frames[1] \in Seq(Byte)
      /\ Tail(frames) \in Seq(Seq(Byte)) /\ Len(Tail(frames)) = Len(frames) - 1
      /\ \A j \in 1 .. Len(frames) - 1 : Tail(frames)[j] = frames[j + 1]
  BY <1>1, <1>4, FirstFrame
<1>6. PICK n, F : n = tags - Len(frames) + 1 /\ F = frames[1]
  OBVIOUS
<1>7. \/ Len(frames) = tags /\ curIndex = 0 /\ Len(handled) = 0
      \/ Len(frames) = tags /\ tags > 0 /\ curIndex = HeaderLen(L, 1) /\ Len(handled) = 1
      \/ Len(frames) < tags /\ curIndex = 0 /\ Len(handled) = tags - Len(frames) + 1
  BY <1>3 DEF MixedFrames
<1>8. n \in 1 .. tags /\ n \in Nat /\ L[n] \in TagLens /\ F \in Seq(Byte) /\ F = Head(frames) /\ tags > 0
  <2>1. n \in 1 .. tags /\ n \in Nat /\ tags > 0
    <3>1. Len(frames) = tags \/ Len(frames) < tags
      BY ONLY <1>7, Zenon
    <3>2. tags \in Nat /\ Len(frames) \in Nat \ {0} /\ n = tags - Len(frames) + 1
      BY <1>4, <1>5, <1>6
    <3>3. QED BY ONLY <3>1, <3>2
  <2>2. L[n] \in TagLens
    BY <1>3, <2>1, ElementOfSeq
  <2>3. QED BY <1>5, <1>6, <2>1, <2>2
<1>9. /\ Len(F) = HeaderLen(L, n) + TagLen(L[n]) /\ HasTag(F, HeaderLen(L, n), n, L[n], n)
      /\ n = 1 => F[1].field = "signature" /\ HasTag(F, SignatureLen, 0, L[n], 0)
      /\ Len(expected) = tags + 1 /\ expected[1] = TagOf(0, L[1], 0) /\ expected[n + 1] = TagOf(n, L[n], n)
  <2>1. 1 \in 1 .. Len(frames)
    BY <1>5
  <2>2. /\ Len(F) = HeaderLen(L, n) + TagLen(L[n]) /\ HasTag(F, HeaderLen(L, n), n, L[n], n)
        /\ n = 1 => F[1].field = "signature" /\ HasTag(F, SignatureLen, 0, L[n], 0)
    BY <1>3, <1>6, <2>1 DEF MixedFrames
  <2>3. Len(expected) = IF tags = 0 THEN 0 ELSE tags + 1
    BY <1>3 DEF MixedFrames
  <2>4. expected[1] = TagOf(0, L[1], 0) /\ expected[n + 1] = TagOf(n, L[n], n)
    BY <1>3, <1>8 DEF MixedFrames
  <2>5. Len(expected) = tags + 1
    BY <1>4, <1>8, <2>3
  <2>6. QED BY <2>2, <2>4, <2>5
<1>10. PICK h, len : h = HeaderLen(L, n) /\ len = TagLen(L[n])
  OBVIOUS
<1>11. /\ len \in Nat \ {0} /\ SignatureLen \in Nat \ {0}
       /\ n = 1 => h = SignatureLen + len
       /\ n # 1 => h = 0
  BY <1>8, <1>10, Lens DEF HeaderLen
(* The tag that is handed on, and what is left.                                *)
<1>12. ASSUME NEW e \in Tag, handled' = Append(handled, e),
              Len(handled) < Len(expected), e = expected[Len(handled) + 1],
              \/ n = 1 /\ Len(handled) = 0 /\ curIndex' = h /\ frames' = frames
              \/ Len(handled) = n /\ curIndex' = 0 /\ frames' = Tail(frames)
       PROVE  TagsInv'
  <2>1. handled' \in Seq(Tag) /\ Len(handled') = Len(handled) + 1 /\ HandedOn'
    BY <1>1, <1>4, <1>12, HandedNext
  <2>2. TagTypes'
    <3>1. frames' \in Seq(Seq(Byte)) /\ curIndex' \in Nat
      <4>1. n = 1 => h \in Nat
        BY <1>11
      <4>2. CASE n = 1 /\ curIndex' = h /\ frames' = frames
        BY <1>4, <4>1, <4>2
      <4>3. CASE curIndex' = 0 /\ frames' = Tail(frames)
        BY <1>5, <4>3
      <4>4. QED BY <1>12, <4>2, <4>3
    <3>2. QED BY <1>1, <2>1, <3>1 DEF TagsInv, TagTypes
  <2>3. \A j \in 1 .. Len(frames') :
          LET m == tags' - Len(frames') + j
          IN  /\ Len(frames'[j]) = HeaderLen(L, m) + TagLen(L[m])
              /\ HasTag(frames'[j], HeaderLen(L, m), m, L[m], m)
              /\ m = 1 => frames'[j][1].field = "signature" /\ HasTag(frames'[j], SignatureLen, 0, L[m], 0)
    <3>1. CASE frames' = frames
      BY <1>1, <1>3, <3>1 DEF MixedFrames
    <3>2. CASE frames' = Tail(frames)
      <4> TAKE j \in 1 .. Len(frames')
      <4>1. Len(frames') = Len(frames) - 1
        BY <1>5, <3>2
      <4>2. j \in 1 .. Len(frames) - 1 /\ j + 1 \in 1 .. Len(frames)
        BY <1>5, <4>1
      <4>3. frames'[j] = frames[j + 1]
        BY ONLY <1>5, <3>2, <4>2
      <4>4. PICK m : m = tags - Len(frames) + (j + 1)
        OBVIOUS
      <4>5. tags' - Len(frames') + j = m
        BY <1>1, <1>4, <1>5, <4>1, <4>2, <4>4
      <4>6. /\ Len(frames[j + 1]) = HeaderLen(L, m) + TagLen(L[m])
            /\ HasTag(frames[j + 1], HeaderLen(L, m), m, L[m], m)
            /\ m = 1 => frames[j + 1][1].field = "signature" /\ HasTag(frames[j + 1], SignatureLen, 0, L[m], 0)
        BY <1>3, <4>2, <4>4 DEF MixedFrames
      <4>7. QED BY <4>3, <4>5, <4>6
    <3>3. QED BY <1>12, <3>1, <3>2
  <2>4. \/ Len(frames') = tags' /\ curIndex' = 0 /\ Len(handled') = 0
        \/ Len(frames') = tags' /\ tags' > 0 /\ curIndex' = HeaderLen(L, 1) /\ Len(handled') = 1
        \/ Len(frames') < tags' /\ curIndex' = 0 /\ Len(handled') = tags' - Len(frames') + 1
    <3>1. CASE n = 1 /\ Len(handled) = 0 /\ curIndex' = h /\ frames' = frames
      <4>1. Len(frames') = tags' /\ tags' > 0 /\ Len(handled') = 1
        <5>1. Len(frames) = tags
          <6>1. tags \in Nat /\ Len(frames) \in Nat /\ 1 = tags - Len(frames) + 1
            BY <1>4, <1>5, <1>6, <3>1
          <6>2. QED BY ONLY <6>1
        <5>2. Len(handled') = 1
          BY <2>1, <3>1
        <5>3. QED BY <1>1, <1>8, <3>1, <5>1, <5>2
      <4>2. QED BY <1>10, <3>1, <4>1
    <3>2. CASE Len(handled) = n /\ curIndex' = 0 /\ frames' = Tail(frames)
      <4>1. Len(frames') = Len(frames) - 1
        BY <1>5, <3>2
      <4>2. Len(frames') < tags' /\ Len(handled') = tags' - Len(frames') + 1
        BY <1>1, <1>4, <1>5, <1>6, <1>8, <2>1, <3>2, <4>1
      <4>3. QED BY <3>2, <4>2
    <3>3. QED BY <1>12, <3>1, <3>2
  <2>5. /\ flvHeaderSent' <=> tags' > 0
        /\ Len(expected') = IF tags' = 0 THEN 0 ELSE tags' + 1
        /\ tags' > 0 => expected'[1] = TagOf(0, L[1], 0)
        /\ \A m \in 1 .. tags' : expected'[m + 1] = TagOf(m, L[m], m)
    BY <1>1, <1>3 DEF MixedFrames
  <2>6. MixedFrames(L)'
    BY <2>3, <2>4, <2>5 DEF MixedFrames
  <2>7. TagsFollow(L)'
    BY <1>1, <1>3, <2>6 DEF TagsFollow
  <2>8. QED BY <2>1, <2>2, <2>7 DEF TagsInv
<1>13. CASE Len(frames) = tags /\ curIndex = 0 /\ Len(handled) = 0
  <2>1. n = 1 /\ F[1].field = "signature" /\ HasTag(F, SignatureLen, 0, L[n], 0)
    BY <1>4, <1>5, <1>6, <1>9, <1>13
  <2>2. SignatureLen = IF curIndex = 0 /\ F[1].field = "signature" THEN SignatureLen ELSE curIndex
    BY <1>13, <2>1
  <2>3. SignatureLen \in Nat /\ 0 \in Nat /\ SignatureLen + len < Len(F)
    BY <1>9, <1>10, <1>11, <2>1
  <2>4. PICK e : e = TagOf(0, L[n], 0)
    OBVIOUS
  <2>5. handled' = Append(handled, e) /\ e \in Tag /\ curIndex' = SignatureLen + len /\ frames' = frames
    BY <1>8, <1>10, <2>1, <2>2, <2>3, <2>4, OneTag
  <2>6. Len(handled) < Len(expected) /\ e = expected[Len(handled) + 1]
    BY <1>4, <1>9, <1>13, <2>1, <2>4
  <2>7. QED BY <1>11, <1>12, <1>13, <2>1, <2>5, <2>6
<1>14. CASE \/ Len(frames) = tags /\ tags > 0 /\ curIndex = HeaderLen(L, 1) /\ Len(handled) = 1
            \/ Len(frames) < tags /\ curIndex = 0 /\ Len(handled) = tags - Len(frames) + 1
  <2>1. Len(handled) = n /\ curIndex = h
    <3>1. CASE Len(frames) = tags /\ tags > 0 /\ curIndex = HeaderLen(L, 1) /\ Len(handled) = 1
      BY <1>4, <1>5, <1>6, <1>10, <3>1
    <3>2. CASE Len(frames) < tags /\ curIndex = 0 /\ Len(handled) = tags - Len(frames) + 1
      <4>1. n # 1
        BY <1>4, <1>5, <1>6, <3>2
      <4>2. QED BY <1>6, <1>11, <3>2, <4>1
    <3>3. QED BY <1>14, <3>1, <3>2
  <2>2. h = IF curIndex = 0 /\ F[1].field = "signature" THEN SignatureLen ELSE curIndex
    <3>1. CASE n = 1
      <4>1. curIndex # 0
        BY <1>11, <2>1, <3>1
      <4>2. QED BY <2>1, <4>1
    <3>2. CASE n # 1
      <4>1. h = 0 /\ 0 \in Nat /\ HasTag(F, 0, n, L[n], n)
        BY <1>9, <1>10, <1>11, <3>2
      <4>2. F[0 + 1].field = "size"
        BY ONLY <1>8, <4>1, TagTaken
      <4>3. F[1].field # "signature"
        BY <4>2
      <4>4. QED BY <2>1, <4>3
    <3>3. QED BY <3>1, <3>2
  <2>3. h \in Nat /\ ~(h + len < Len(F)) /\ HasTag(F, h, n, L[n], n)
    BY <1>9, <1>10, <1>11
  <2>4. PICK e : e = TagOf(n, L[n], n)
    OBVIOUS
  <2>5. handled' = Append(handled, e) /\ e \in Tag /\ curIndex' = 0 /\ frames' = Tail(frames)
    BY <1>8, <1>10, <2>2, <2>3, <2>4, OneTag
  <2>6. Len(handled) < Len(expected) /\ e = expected[Len(handled) + 1]
    BY <1>4, <1>8, <1>9, <2>1, <2>4
  <2>7. QED BY <1>12, <2>1, <2>5, <2>6
<1>15. QED BY <1>7, <1>13, <1>14

LEMMA TagsStep == TagsInv /\ [TagsNext]_tagVars => TagsInv'
<1> SUFFICES ASSUME TagsInv, [TagsNext]_tagVars PROVE TagsInv'
  OBVIOUS
<1>1. CASE appendTag
  BY <1>1, TagAppended
<1>2. CASE packageFrame
  BY <1>2, FramePackaged
<1>3. CASE readChunk
  BY <1>3, PieceRead
<1>4. CASE scanHeader
  BY <1>4, HeaderScanned
<1>5. CASE scanRemainingTag
  BY <1>5, TagScanned
<1>6. CASE onFrameGenerated
  BY <1>6, SongFrameHandled, MixedFrameHandled
<1>7. CASE UNCHANGED tagVars
  <2>1. /\ UNCHANGED <<way, tags, flvHeaderSent, bytes, chunk, scanState, tagBuf, curFlvTagSize>>
        /\ UNCHANGED <<frames, curIndex, expected, handled>>
    BY <1>7 DEF tagVars, parserVars
  <2>2. TagTypes' /\ HandedOn'
    BY <2>1 DEF TagsInv, TagTypes, HandedOn
  <2>3. PICK L : TagsFollow(L)
    BY DEF TagsInv
  <2>4. Parsed' = Parsed /\ TagHeaderLen' = TagHeaderLen /\ TagSize' = TagSize /\ Moved' = Moved
    BY <2>1 DEF Parsed, TagHeaderLen, TagSize, Moved
  <2>5. CASE way = "mixed"
    <3>1. MixedFrames(L)'
      BY <2>1, <2>3, <2>5 DEF TagsFollow, MixedFrames
    <3>2. TagsFollow(L)'
      BY <2>1, <2>3, <2>5, <3>1 DEF TagsFollow
    <3>3. QED BY <2>2, <3>2 DEF TagsInv
  <2>6. CASE way # "mixed"
    <3>1. PICK P, W : KaraokeFrames(L) /\ IsStream(L, P, W) /\ IsRest(P, W) /\ TagKept(L)
      BY <2>3, <2>6 DEF TagsFollow
    <3>2. KaraokeFrames(L)'
      BY <2>1, <2>4, <3>1 DEF KaraokeFrames
    <3>3. IsRest(P, W)'
      BY <2>1, <2>4, <3>1 DEF IsRest, Taken
    <3>4. TagKept(L)'
      BY <2>1, <2>4, <3>1 DEF TagKept
    <3>5. TagsFollow(L)'
      BY <2>1, <2>3, <2>6, <3>1, <3>2, <3>3, <3>4 DEF TagsFollow
    <3>6. QED BY <2>2, <3>5 DEF TagsInv
  <2>7. QED BY <2>5, <2>6
<1>8. QED BY <1>1, <1>2, <1>3, <1>4, <1>5, <1>6, <1>7 DEF TagsNext

(* In every reachable state there are lengths of the tags' data from which the  *)
(* bytes written can be told, and everything under way is a part of those       *)
(* bytes: what the parser keeps are the next tag's first bytes, what it has not *)
(* seen are the bytes behind them, and a frame handed to onFrameGenerated is a  *)
(* tag, or the file header and two.  This holds for every length of the fields, *)
(* of the data and of the pieces readData is given, and for any number of tags. *)
THEOREM TagsFollowed == TagsSpec => []TagsInv
<1>1. QED BY InitTags, TagsStep, PTL DEF TagsSpec

LEMMA HandedOnInOrder == TagsInv => TagsInOrder
<1> SUFFICES ASSUME TagsInv PROVE TagsInOrder
  OBVIOUS
<1>1. /\ handled \in Seq(Tag) /\ expected \in Seq(Tag) /\ Len(handled) \in Nat /\ Len(expected) \in Nat
      /\ Len(handled) <= Len(expected) /\ \A i \in 1 .. Len(handled) : handled[i] = expected[i]
  BY DEF TagsInv, TagTypes, HandedOn
<1>2. handled = SubSeq(expected, 1, Len(handled))
  <2>1. PICK S : S = SubSeq(expected, 1, Len(handled))
    OBVIOUS
  <2>2. S \in Seq(Tag) /\ Len(S) = Len(handled) /\ \A i \in 1 .. Len(handled) : S[i] = expected[i]
    BY <1>1, <2>1
  <2>3. S = handled
    BY <1>1, <2>2, SeqEqual
  <2>4. QED BY <2>1, <2>3
<1>3. QED BY <1>1, <1>2 DEF TagsInOrder, IsPrefix

(* FLVParser, onFrameGenerated and FLVOutput: however the bytes are cut, every  *)
(* tag written is handed on once, in its order, with its own data and time.     *)
THEOREM TagsArriveInOrder == TagsSpec => []TagsInOrder
<1>1. QED BY TagsFollowed, HandedOnInOrder, PTL

LEMMA NothingHeldBack == TagsInv => NoTagHeldBack
<1> SUFFICES ASSUME TagsInv, bytes = <<>>, chunk = <<>>, frames = <<>> PROVE handled = expected
  BY DEF NoTagHeldBack
<1>1. /\ handled \in Seq(Tag) /\ expected \in Seq(Tag) /\ Len(handled) \in Nat /\ Len(expected) \in Nat
      /\ Len(handled) <= Len(expected) /\ \A i \in 1 .. Len(handled) : handled[i] = expected[i]
      /\ tags \in Nat /\ tagBuf \in Seq(Byte) /\ Len(tagBuf) \in Nat /\ Len(<<>>) = 0
      /\ scanState \in {"SCAN_HEADER", "SCAN_REMAINING_TAG"}
  BY DEF TagsInv, TagTypes, HandedOn
<1>2. PICK L : TagsFollow(L)
  BY DEF TagsInv
<1>3. L \in Seq(TagLens) /\ Len(L) = tags
  BY <1>2 DEF TagsFollow
<1>4. Len(handled) = Len(expected)
  <2>1. CASE way = "mixed"
    <3>1. /\ Len(expected) = IF tags = 0 THEN 0 ELSE tags + 1
          /\ \/ 0 = tags /\ curIndex = 0 /\ Len(handled) = 0
             \/ 0 = tags /\ tags > 0 /\ curIndex = HeaderLen(L, 1) /\ Len(handled) = 1
             \/ 0 < tags /\ curIndex = 0 /\ Len(handled) = tags - 0 + 1
      BY <1>1, <1>2, <2>1 DEF TagsFollow, MixedFrames
    <3>2. \/ 0 = tags /\ Len(handled) = 0
          \/ 0 < tags /\ Len(handled) = tags - 0 + 1
      BY <1>1, <3>1
    <3>3. QED BY <1>1, <3>1, <3>2
  <2>2. CASE way # "mixed"
    <3>1. PICK P, W : KaraokeFrames(L) /\ IsStream(L, P, W) /\ IsRest(P, W) /\ TagKept(L)
      BY <1>2, <2>2 DEF TagsFollow
    <3>2. Parsed = Len(handled) /\ Parsed \in 0 .. tags
      BY <1>1, <3>1 DEF Parsed, IsRest
    <3>3. P[Parsed] + Len(tagBuf) = P[tags]
      <4>1. Taken(P) + 0 + 0 = Len(W) /\ Len(W) = P[tags]
        BY <1>1, <1>3, <3>1 DEF IsRest, IsStream
      <4>2. Taken(P) = P[Parsed] + Len(tagBuf) /\ P[Parsed] \in Nat
        BY <1>3, <3>1, <3>2 DEF Taken, IsStream
      <4>3. QED BY <1>1, <4>1, <4>2
    <3>4. Parsed = tags
      <4> SUFFICES ASSUME Parsed < tags PROVE FALSE
        BY <1>1, <3>2
      <4>1. PICK n : n = Parsed + 1
        OBVIOUS
      <4>2. n \in 1 .. tags /\ n - 1 = Parsed /\ L[n] \in TagLens
        <5>1. n \in 1 .. tags /\ n - 1 = Parsed
          BY <1>1, <3>2, <4>1
        <5>2. QED BY <1>3, <5>1, ElementOfSeq
      <4>3. /\ P[n] = P[Parsed] + TagLen(L[n]) /\ P[n] <= P[tags]
            /\ P[n] \in Nat /\ P[Parsed] \in Nat /\ P[tags] \in Nat
        <5>1. P[n] = P[n - 1] + TagLen(L[n])
          BY <1>3, <3>1, <4>2 DEF IsStream
        <5>2. n \in 0 .. tags /\ tags \in 0 .. tags /\ n <= tags
          BY <1>1, <4>2
        <5>3. P[n] <= P[tags] /\ P[n] \in Nat /\ P[Parsed] \in Nat /\ P[tags] \in Nat
          BY <1>3, <3>1, <3>2, <5>2 DEF IsStream
        <5>4. QED BY <4>2, <5>1, <5>3
      <4>4. Len(tagBuf) < TagLen(L[n]) /\ TagLen(L[n]) \in Nat
        <5>1. TagLen(L[n]) \in Nat /\ TagHeaderLen <= TagLen(L[n]) /\ TagHeaderLen \in Nat
          BY <4>2, Lens DEF TagHeaderLen, TagLen
        <5>2. CASE scanState = "SCAN_HEADER"
          <6>1. Len(tagBuf) < TagHeaderLen
            BY <3>1, <5>2 DEF TagKept
          <6>2. QED BY ONLY <1>1, <5>1, <6>1
        <5>3. CASE scanState = "SCAN_REMAINING_TAG"
          BY <3>1, <4>1, <5>1, <5>3 DEF TagKept
        <5>4. QED BY <1>1, <5>2, <5>3
      <4>5. QED BY ONLY <1>1, <3>3, <4>3, <4>4
    <3>5. QED BY <3>1, <3>2, <3>4 DEF KaraokeFrames
  <2>3. QED BY <2>1, <2>2
<1>5. QED BY <1>1, <1>4, SeqEqual

(* scanRemainingTag hands a tag on with its last byte: when every byte has been *)
(* parsed and every frame handled, every tag written has arrived.               *)
THEOREM NothingWaitsWhole == TagsSpec => []NoTagHeldBack
<1>1. QED BY TagsFollowed, NothingHeldBack, PTL

-----------------------------------------------------------------------------
(* AudioResampler *)
Sample == Nat \cup {Unset}
Buffer == [1 .. FRAME -> Sample]

(* What a resampler keeps: the samples after those in the queue, up to the last. *)
ResamplerInv ==
  /\ resampleShortRemaining \in Buffer /\ remainingSampleCnt \in 0 .. FRAME - 1
  /\ nextSample \in 0 .. Width - 1 /\ firstSample \in 0 .. Width - 1
  /\ \/ audioQueue = <<>>
     \/ \E f \in Buffer :
          /\ audioQueue = <<f>>
          /\ \A i \in 1 .. FRAME : f[i] = (firstSample + i - 1) % Width
  /\ LET given == firstSample + FRAME * Len(audioQueue)
     IN  /\ (given + remainingSampleCnt) % Width = nextSample
         /\ \A i \in 1 .. remainingSampleCnt : resampleShortRemaining[i] = (given + i - 1) % Width

LEMMA FrameInts ==
  /\ FRAME \in Nat \ {0} /\ MaxSamples \in Nat /\ Width \in Nat \ {0} /\ Unset \notin Nat
  /\ FRAME < Width
BY FrameAssumption

(* Where the loop begins, and where it is when it has made a frame.            *)
AtFirst(count, remaining, residual) ==
  [count |-> count, skip |-> 0, remaining |-> remaining, residual |-> residual, frames |-> <<>>]
AfterFrame(left, skip, residual, f) ==
  [count |-> left, skip |-> skip, remaining |-> 0, residual |-> residual, frames |-> <<f>>]

(* The loop is through after two passes when a call has no more than a frame.  *)
LEMMA TwoPasses ==
  ASSUME NEW out, Len(out) \in Nat, NEW residual, NEW remaining,
         LET r0 == AtFirst(Len(out), remaining, residual)
             r1 == Pass(out, r0)
             r2 == Pass(out, r1)
         IN  Pass(out, r2) = r2 /\ (Len(out) = 0 => r0 = r2) /\ (Len(out) = 1 => r1 = r2)
  PROVE  resample(out, residual, remaining) = Pass(out, Pass(out, AtFirst(Len(out), remaining, residual)))
<1>0. PICK r0, r1, r2 :
        /\ r0 = AtFirst(Len(out), remaining, residual) /\ r1 = Pass(out, r0) /\ r2 = Pass(out, r1)
        /\ r2 = Pass(out, r2) /\ (Len(out) = 0 => r0 = r2) /\ (Len(out) = 1 => r1 = r2)
  OBVIOUS
<1> DEFINE N == Len(out)
           after == [i \in 0 .. N |-> IF i = 0 THEN r0 ELSE IF i = 1 THEN r1 ELSE r2]
           Step(f) == [i \in 0 .. N |-> IF i = 0 THEN r0 ELSE Pass(out, f[i - 1])]
           Fixed(f) == f = Step(f)
<1>1. Fixed(after)
  <2>1. ASSUME NEW i \in 0 .. N PROVE after[i] = IF i = 0 THEN r0 ELSE Pass(out, after[i - 1])
    <3>1. CASE i = 0
      BY <3>1
    <3>2. CASE i = 1
      <4>1. after[0] = r0 /\ after[1] = r1
        BY <3>2
      <4>2. QED BY <1>0, <3>2, <4>1
    <3>3. CASE i = 2
      <4>1. after[1] = r1 /\ after[2] = r2
        BY <3>3
      <4>2. QED BY <1>0, <3>3, <4>1
    <3>4. CASE i > 2
      <4>1. after[i - 1] = r2 /\ after[i] = r2
        BY <3>4
      <4>2. QED BY <1>0, <3>4, <4>1
    <3>5. QED BY <3>1, <3>2, <3>3, <3>4
  <2>2. after = [i \in 0 .. N |-> after[i]]
    OBVIOUS
  <2> HIDE DEF after
  <2>3. QED BY <2>1, <2>2
<1>2. ASSUME NEW f, Fixed(f) PROVE f[N] = r2
  <2>1. f[0] = r0 /\ \A i \in 1 .. N : f[i] = Pass(out, f[i - 1])
    BY <1>2
  <2>2. CASE N = 0
    BY <1>0, <2>1, <2>2
  <2>3. CASE N = 1
    BY <1>0, <2>1, <2>3
  <2>4. CASE N > 1
    <3>1. f[1] = r1 /\ f[2] = r2
      BY <1>0, <2>1, <2>4
    <3>2. ASSUME NEW k \in 2 .. N, f[k] # r2 PROVE FALSE
      <4> DEFINE S == {j \in 2 .. N : f[j] # r2}
      <4>1. S \subseteq Nat /\ k \in S
        BY <3>2
      <4>2. PICK m \in S : \A j \in S : m <= j
        BY <4>1, LeastNumber
      <4>3. m # 2 /\ m - 1 \in 2 .. N /\ m \in 1 .. N /\ m - 1 \notin S
        BY <3>1, <4>2
      <4>4. f[m - 1] = r2 /\ f[m] = Pass(out, f[m - 1])
        BY <2>1, <4>3
      <4>5. f[m] = r2
        BY <1>0, <4>4
      <4>6. QED BY <4>2, <4>5
    <3>3. N \in 2 .. N
      BY <2>4
    <3>4. QED BY <3>2, <3>3
  <2>5. QED BY <2>2, <2>3, <2>4
<1>3. resample(out, residual, remaining) = (CHOOSE f : Fixed(f))[N]
  BY <1>0 DEF resample, AtFirst
<1> HIDE DEF Fixed
<1>4. Fixed(CHOOSE f : Fixed(f))
  BY <1>1
<1>5. QED BY <1>0, <1>2, <1>3, <1>4

(* What a call of up to a frame does with the m samples X of the residual and   *)
(* its own: it gives out a frame or none, and keeps what is left.              *)
SamplesPlaced(R, X, m) ==
  /\ R.residual \in Buffer /\ R.remaining \in 0 .. FRAME - 1
  /\ \/ /\ R.frames = <<>> /\ R.remaining = m
        /\ \A i \in 1 .. m : R.residual[i] = X[i]
     \/ /\ \E f \in Buffer : R.frames = <<f>> /\ \A i \in 1 .. FRAME : f[i] = X[i]
        /\ R.remaining = m - FRAME
        /\ \A i \in 1 .. m - FRAME : R.residual[i] = X[FRAME + i]

LEMMA NothingToPlace == ASSUME NEW out, NEW r, r.count = 0 PROVE Pass(out, r) = r
BY Zenon DEF Pass

(* A frame was made, and left samples are placed by a second pass.             *)
LEMMA SecondPass ==
  ASSUME NEW out, NEW residual \in Buffer, NEW X, NEW skip \in Nat, NEW f \in Buffer, NEW left \in 0 .. FRAME - 1,
         \A i \in Int : At(out, i) \in Sample,
         \A i \in 1 .. left : At(out, skip + i) = X[FRAME + i],
         \A i \in 1 .. FRAME : f[i] = X[i]
  PROVE  /\ SamplesPlaced(Pass(out, AfterFrame(left, skip, residual, f)), X, FRAME + left)
         /\ Pass(out, AfterFrame(left, skip, residual, f)).count = 0
<1>0. PICK r1 : r1 = AfterFrame(left, skip, residual, f)
  OBVIOUS
<1>1. FRAME \in Nat \ {0} /\ left \in Nat /\ left < FRAME /\ skip \in Nat /\ (FRAME + left) - FRAME = left
  BY FrameInts
<1>2. r1.count = left /\ r1.skip = skip /\ r1.remaining = 0 /\ r1.residual = residual /\ r1.frames = <<f>>
  BY <1>0 DEF AfterFrame
<1>3. CASE left = 0
  <2>1. Pass(out, r1) = r1
    BY <1>2, <1>3, NothingToPlace
  <2>2. /\ r1.remaining = (FRAME + left) - FRAME /\ \A i \in 1 .. (FRAME + left) - FRAME : FALSE
        /\ r1.remaining \in 0 .. FRAME - 1
    BY <1>1, <1>2, <1>3
  <2>3. r1.residual \in Buffer /\ \E g \in Buffer : r1.frames = <<g>> /\ \A i \in 1 .. FRAME : g[i] = X[i]
    BY <1>2
  <2>4. SamplesPlaced(r1, X, FRAME + left)
    BY ONLY <2>2, <2>3 DEF SamplesPlaced
  <2>5. r1.count = 0
    BY <1>2, <1>3
  <2>6. QED BY ONLY <1>0, <2>1, <2>4, <2>5
<1>4. CASE left # 0
  <2>1. PICK r2 : r2 = newResidual(out, r1)
    OBVIOUS
  <2>2. Pass(out, r1) = r2
    <3>1. r1.count # 0 /\ ~(r1.remaining > 0) /\ ~(r1.count >= FRAME)
      BY <1>1, <1>2, <1>4
    <3>2. QED BY ONLY <2>1, <3>1, Zenon DEF Pass
  <2>3. PICK g : g = [i \in 1 .. FRAME |-> IF i <= left THEN At(out, skip + i) ELSE residual[i]]
    OBVIOUS
  <2>4. r2 = [count |-> 0, skip |-> 0, remaining |-> left, residual |-> g, frames |-> <<f>>]
    BY ONLY <1>2, <2>1, <2>3 DEF newResidual
  <2>5. r2.count = 0 /\ r2.remaining = left /\ r2.residual = g /\ r2.frames = <<f>>
    BY ONLY <2>4
  <2>6. g \in Buffer
    <3>1. \A i \in 1 .. FRAME : At(out, skip + i) \in Sample /\ residual[i] \in Sample
      BY <1>1 DEF Buffer
    <3>2. QED BY <2>3, <3>1 DEF Buffer
  <2>7. ASSUME NEW i \in 1 .. (FRAME + left) - FRAME PROVE g[i] = X[FRAME + i]
    <3>1. i \in 1 .. FRAME /\ i \in 1 .. left /\ i <= left
      BY <1>1
    <3>2. g[i] = At(out, skip + i)
      BY <2>3, <3>1
    <3>3. QED BY <3>1, <3>2
  <2>8. \E h \in Buffer : r2.frames = <<h>> /\ \A i \in 1 .. FRAME : h[i] = X[i]
    BY <2>5
  <2>9. r2.remaining = (FRAME + left) - FRAME /\ r2.remaining \in 0 .. FRAME - 1
    BY <1>1, <2>5
  <2>10. SamplesPlaced(r2, X, FRAME + left)
    BY ONLY <2>5, <2>6, <2>7, <2>8, <2>9 DEF SamplesPlaced
  <2>11. QED BY ONLY <1>0, <2>2, <2>5, <2>10
<1>5. QED BY <1>3, <1>4

(* The first pass of a call that has samples.                                  *)
LEMMA FirstPass ==
  ASSUME NEW n \in 1 .. FRAME, NEW out \in [1 .. n -> Sample], NEW residual \in Buffer,
         NEW remaining \in 0 .. FRAME - 1, NEW X,
         \A i \in 1 .. remaining : residual[i] = X[i],
         \A i \in 1 .. n : out[i] = X[remaining + i]
  PROVE  \/ /\ Pass(out, AtFirst(n, remaining, residual)).count = 0
            /\ SamplesPlaced(Pass(out, AtFirst(n, remaining, residual)), X, remaining + n)
         \/ \E f \in Buffer, skip \in 0 .. FRAME, left \in 0 .. FRAME - 1 :
              /\ Pass(out, AtFirst(n, remaining, residual)) = AfterFrame(left, skip, residual, f)
              /\ skip + left = n /\ left = (remaining + n) - FRAME
              /\ \A i \in 1 .. FRAME : f[i] = X[i]
<1>0. PICK r0 : r0 = AtFirst(n, remaining, residual)
  OBVIOUS
<1>1. /\ FRAME \in Nat \ {0} /\ n \in Nat /\ n # 0 /\ n <= FRAME /\ remaining \in Nat /\ remaining < FRAME
      /\ DOMAIN out = 1 .. n
  BY FrameInts
<1>2. /\ r0.count = n /\ r0.skip = 0 /\ r0.remaining = remaining /\ r0.residual = residual /\ r0.frames = <<>>
  BY <1>0 DEF AtFirst
<1>3. /\ \A i \in 1 .. n : At(out, i) = X[remaining + i]
      /\ \A i \in Int : At(out, i) \in Sample
      /\ \A i \in 1 .. FRAME : residual[i] \in Sample
  BY <1>1 DEF At, Sample, Buffer
<1>4. CASE remaining > 0 /\ remaining + n < FRAME
  <2>1. PICK r1 : r1 = addToResidual(out, r0)
    OBVIOUS
  <2>2. Pass(out, r0) = r1
    <3>1. r0.count # 0 /\ r0.remaining > 0 /\ ~Completes(r0)
      BY <1>1, <1>2, <1>4 DEF Completes
    <3>2. QED BY ONLY <2>1, <3>1, Zenon DEF Pass
  <2>3. PICK g : g = [i \in 1 .. FRAME |-> IF i \in remaining + 1 .. remaining + n
                                          THEN At(out, i - remaining) ELSE residual[i]]
    OBVIOUS
  <2>4. r1 = [count |-> 0, skip |-> 0, remaining |-> remaining + n, residual |-> g, frames |-> <<>>]
    BY ONLY <1>2, <2>1, <2>3 DEF addToResidual
  <2>5. r1.count = 0 /\ r1.remaining = remaining + n /\ r1.residual = g /\ r1.frames = <<>>
    BY ONLY <2>4
  <2>6. g \in Buffer
    <3>1. \A i \in 1 .. FRAME : At(out, i - remaining) \in Sample /\ residual[i] \in Sample
      BY <1>1, <1>3
    <3>2. QED BY <2>3, <3>1 DEF Buffer
  <2>7. ASSUME NEW i \in 1 .. remaining + n PROVE g[i] = X[i]
    <3>1. i \in 1 .. FRAME
      BY <1>1, <1>4
    <3>2. CASE i \in remaining + 1 .. remaining + n
      <4>1. i - remaining \in 1 .. n /\ remaining + (i - remaining) = i
        BY <1>1, <3>2
      <4>2. g[i] = At(out, i - remaining)
        BY <2>3, <3>1, <3>2
      <4>3. QED BY <1>3, <4>1, <4>2
    <3>3. CASE i \notin remaining + 1 .. remaining + n
      <4>1. i \in 1 .. remaining
        BY <1>1, <3>3
      <4>2. QED BY <2>3, <3>1, <3>3, <4>1
    <3>4. QED BY <3>2, <3>3
  <2>8. r1.remaining \in 0 .. FRAME - 1
    BY <1>1, <1>4, <2>5
  <2>9. SamplesPlaced(r1, X, remaining + n)
    BY ONLY <2>5, <2>6, <2>7, <2>8 DEF SamplesPlaced
  <2>10. QED BY <1>0, <2>2, <2>5, <2>9
<1>5. CASE remaining > 0 /\ ~(remaining + n < FRAME)
  <2>1. PICK r1 : r1 = completeResidual(out, r0)
    OBVIOUS
  <2>2. Pass(out, r0) = r1
    <3>1. r0.count # 0 /\ r0.remaining > 0 /\ Completes(r0)
      BY <1>1, <1>2, <1>5 DEF Completes
    <3>2. QED BY ONLY <2>1, <3>1, Zenon DEF Pass
  <2>3. PICK f, skip, left :
          /\ f = [i \in 1 .. FRAME |-> IF i <= remaining THEN residual[i] ELSE At(out, i - remaining)]
          /\ skip = FRAME - remaining /\ left = n - skip
    OBVIOUS
  <2>4. r1 = [count |-> left, skip |-> skip, remaining |-> 0, residual |-> residual, frames |-> <<f>>]
    <3>1. Append(<<>>, f) = <<f>>
      OBVIOUS
    <3>2. QED BY ONLY <1>2, <2>1, <2>3, <3>1 DEF completeResidual
  <2>5. f \in Buffer
    <3>1. \A i \in 1 .. FRAME : At(out, i - remaining) \in Sample /\ residual[i] \in Sample
      BY <1>1, <1>3
    <3>2. QED BY <2>3, <3>1 DEF Buffer
  <2>6. ASSUME NEW i \in 1 .. FRAME PROVE f[i] = X[i]
    <3>1. CASE i <= remaining
      <4>1. i \in 1 .. remaining
        BY <1>1, <3>1
      <4>2. QED BY <2>3, <3>1, <4>1
    <3>2. CASE ~(i <= remaining)
      <4>1. i - remaining \in 1 .. n /\ remaining + (i - remaining) = i
        BY <1>1, <1>5, <3>2
      <4>2. f[i] = At(out, i - remaining)
        BY <2>3, <3>2
      <4>3. QED BY <1>3, <4>1, <4>2
    <3>3. QED BY <3>1, <3>2
  <2>7. skip \in 0 .. FRAME /\ left \in 0 .. FRAME - 1 /\ skip + left = n /\ left = (remaining + n) - FRAME
    BY ONLY <1>1, <1>5, <2>3
  <2>8. QED BY <1>0, <2>2, <2>4, <2>5, <2>6, <2>7 DEF AfterFrame
<1>6. CASE remaining = 0 /\ n = FRAME
  <2>1. PICK r1 : r1 = wholeFrame(out, r0)
    OBVIOUS
  <2>2. Pass(out, r0) = r1
    <3>1. r0.count # 0 /\ ~(r0.remaining > 0) /\ r0.count >= FRAME
      BY <1>1, <1>2, <1>6
    <3>2. QED BY ONLY <2>1, <3>1, Zenon DEF Pass
  <2>3. PICK f : f = [i \in 1 .. FRAME |-> At(out, i)]
    OBVIOUS
  <2>4. r1 = [count |-> 0, skip |-> FRAME, remaining |-> 0, residual |-> residual, frames |-> <<f>>]
    <3>1. Append(<<>>, f) = <<f>> /\ n - FRAME = 0
      BY <1>1, <1>6
    <3>2. QED BY ONLY <1>2, <2>1, <2>3, <3>1 DEF wholeFrame
  <2>5. f \in Buffer
    BY <1>3, <2>3 DEF Buffer
  <2>6. ASSUME NEW i \in 1 .. FRAME PROVE f[i] = X[i]
    <3>1. i \in 1 .. n /\ remaining + i = i
      BY <1>1, <1>6
    <3>2. QED BY <1>3, <2>3, <3>1
  <2>7. FRAME \in 0 .. FRAME /\ 0 \in 0 .. FRAME - 1 /\ FRAME + 0 = n /\ 0 = (remaining + n) - FRAME
    BY <1>1, <1>6
  <2>8. QED BY <1>0, <2>2, <2>4, <2>5, <2>6, <2>7 DEF AfterFrame
<1>7. CASE remaining = 0 /\ n # FRAME
  <2>1. PICK r1 : r1 = newResidual(out, r0)
    OBVIOUS
  <2>2. Pass(out, r0) = r1
    <3>1. r0.count # 0 /\ ~(r0.remaining > 0) /\ ~(r0.count >= FRAME)
      BY <1>1, <1>2, <1>7
    <3>2. QED BY ONLY <2>1, <3>1, Zenon DEF Pass
  <2>3. PICK g : g = [i \in 1 .. FRAME |-> IF i <= n THEN At(out, 0 + i) ELSE residual[i]]
    OBVIOUS
  <2>4. r1 = [count |-> 0, skip |-> 0, remaining |-> n, residual |-> g, frames |-> <<>>]
    BY ONLY <1>2, <2>1, <2>3 DEF newResidual
  <2>5. r1.count = 0 /\ r1.remaining = n /\ r1.residual = g /\ r1.frames = <<>>
    BY ONLY <2>4
  <2>6. g \in Buffer
    <3>1. \A i \in 1 .. FRAME : At(out, 0 + i) \in Sample /\ residual[i] \in Sample
      BY <1>1, <1>3
    <3>2. QED BY <2>3, <3>1 DEF Buffer
  <2>7. ASSUME NEW i \in 1 .. remaining + n PROVE g[i] = X[i]
    <3>1. i \in 1 .. n /\ i \in 1 .. FRAME /\ i <= n /\ 0 + i = i /\ remaining + i = i
      BY <1>1, <1>7
    <3>2. QED BY <1>3, <2>3, <3>1
  <2>8. r1.remaining = remaining + n /\ r1.remaining \in 0 .. FRAME - 1
    BY <1>1, <1>7, <2>5
  <2>9. SamplesPlaced(r1, X, remaining + n)
    BY ONLY <2>5, <2>6, <2>7, <2>8 DEF SamplesPlaced
  <2>10. QED BY <1>0, <2>2, <2>5, <2>9
<1>8. remaining = 0 \/ remaining > 0
  BY <1>1
<1>9. QED BY <1>4, <1>5, <1>6, <1>7, <1>8

(* All passes of a call of up to a frame.                                      *)
LEMMA Resampled ==
  ASSUME NEW n \in 0 .. FRAME, NEW out \in [1 .. n -> Sample], NEW residual \in Buffer,
         NEW remaining \in 0 .. FRAME - 1, NEW X,
         \A i \in 1 .. remaining : residual[i] = X[i],
         \A i \in 1 .. n : out[i] = X[remaining + i]
  PROVE  SamplesPlaced(resample(out, residual, remaining), X, remaining + n)
<1>1. FRAME \in Nat \ {0} /\ n \in Nat /\ Len(out) = n /\ remaining \in Nat
  BY FrameInts
<1>2. PICK r0, r1, r2 :
        /\ r0 = AtFirst(n, remaining, residual)
        /\ r1 = Pass(out, r0) /\ r2 = Pass(out, r1)
  OBVIOUS
<1>3. /\ r0.count = n /\ r0.remaining = remaining /\ r0.residual = residual /\ r0.frames = <<>>
  BY <1>2 DEF AtFirst
<1>4. ASSUME r2 = Pass(out, r2), n = 0 => r0 = r2, n = 1 => r1 = r2
      PROVE  resample(out, residual, remaining) = r2
  <2>1. LET s0 == AtFirst(Len(out), remaining, residual)
            s1 == Pass(out, s0)
            s2 == Pass(out, s1)
        IN  Pass(out, s2) = s2 /\ (Len(out) = 0 => s0 = s2) /\ (Len(out) = 1 => s1 = s2)
    BY <1>1, <1>2, <1>4
  <2>2. Len(out) \in Nat
    BY <1>1
  <2>3. resample(out, residual, remaining) = Pass(out, Pass(out, AtFirst(Len(out), remaining, residual)))
    BY ONLY <2>1, <2>2, TwoPasses
  <2>4. QED BY <1>1, <1>2, <2>3
<1>5. CASE n = 0
  <2>1. r1 = r0 /\ r2 = r0 /\ Pass(out, r2) = r2
    BY <1>2, <1>3, <1>5, NothingToPlace
  <2>2. resample(out, residual, remaining) = r0
    BY <1>4, <1>5, <2>1
  <2>3. r0.remaining = remaining + n /\ \A i \in 1 .. remaining + n : r0.residual[i] = X[i]
    BY <1>1, <1>3, <1>5
  <2>4. QED BY <1>3, <2>2, <2>3 DEF SamplesPlaced
<1>6. CASE n # 0
  <2>1. n \in 1 .. FRAME
    BY <1>1, <1>6
  <2>2. \/ r1.count = 0 /\ SamplesPlaced(r1, X, remaining + n)
        \/ \E f \in Buffer, skip \in 0 .. FRAME, left \in 0 .. FRAME - 1 :
             /\ r1 = AfterFrame(left, skip, residual, f)
             /\ skip + left = n /\ left = (remaining + n) - FRAME
             /\ \A i \in 1 .. FRAME : f[i] = X[i]
    BY <1>2, <2>1, FirstPass
  <2>3. CASE r1.count = 0 /\ SamplesPlaced(r1, X, remaining + n)
    <3>1. r2 = r1 /\ Pass(out, r2) = r2
      BY <1>2, <2>3, NothingToPlace
    <3>2. resample(out, residual, remaining) = r2
      BY <1>4, <1>6, <3>1
    <3>3. QED BY <2>3, <3>1, <3>2
  <2>4. ASSUME NEW f \in Buffer, NEW skip \in 0 .. FRAME, NEW left \in 0 .. FRAME - 1,
               r1 = AfterFrame(left, skip, residual, f),
               skip + left = n, left = (remaining + n) - FRAME,
               \A i \in 1 .. FRAME : f[i] = X[i]
        PROVE  SamplesPlaced(resample(out, residual, remaining), X, remaining + n)
    <3>1. SamplesPlaced(r2, X, remaining + n) /\ r2.count = 0
      <4>1. \A i \in Int : At(out, i) \in Sample
        BY <1>1 DEF At, Sample
      <4>2. \A i \in 1 .. left : At(out, skip + i) = X[FRAME + i]
        <5> TAKE i \in 1 .. left
        <5>1. skip + i \in 1 .. n /\ remaining + (skip + i) = FRAME + i
          <6>1. i \in Nat /\ 1 <= i /\ i <= left /\ left \in Nat /\ skip \in Nat
            BY <1>1
          <6>2. QED BY ONLY <1>1, <2>4, <6>1
        <5>2. At(out, skip + i) = out[skip + i]
          BY <1>1, <5>1 DEF At
        <5>3. QED BY <5>1, <5>2
      <4>3. skip \in Nat /\ FRAME + left = remaining + n
        BY ONLY <1>1, <2>4
      <4>4. /\ SamplesPlaced(Pass(out, AfterFrame(left, skip, residual, f)), X, FRAME + left)
            /\ Pass(out, AfterFrame(left, skip, residual, f)).count = 0
        <5>1. \A i \in 1 .. FRAME : f[i] = X[i]
          BY <2>4
        <5>2. skip \in Nat
          BY <4>3
        <5>3. left \in 0 .. FRAME - 1
          BY <2>4
        <5>4. QED BY ONLY <4>1, <4>2, <5>1, <5>2, <5>3, residual \in Buffer, f \in Buffer, SecondPass
      <4>5. QED BY ONLY <1>2, <2>4, <4>3, <4>4
    <3>2. Pass(out, r2) = r2
      BY <3>1, NothingToPlace
    <3>3. n = 1 => r1 = r2
      <4>1. n = 1 => left = 0
        BY ONLY <1>1, remaining \in 0 .. FRAME - 1, left \in 0 .. FRAME - 1, left = (remaining + n) - FRAME
      <4>2. r1.count = left
        BY <2>4 DEF AfterFrame
      <4>3. QED BY <1>2, <4>1, <4>2, NothingToPlace
    <3>4. resample(out, residual, remaining) = r2
      BY <1>4, <1>6, <3>2, <3>3
    <3>5. QED BY <3>1, <3>4
  <2>5. QED BY <2>2, <2>3, <2>4
<1>7. QED BY <1>5, <1>6

LEMMA AroundTheWidth ==
  ASSUME NEW a \in Int
  PROVE  a % Width \in 0 .. Width - 1 /\ \A b \in Int : ((a % Width) + b) % Width = (a + b) % Width
<1>1. Width \in Nat \ {0} /\ 0 \in Int
  BY FrameInts
<1>2. a % Width \in 0 .. Width - 1
  BY ONLY <1>1, a \in Int, RemainderOfSum
<1>3. ASSUME NEW b \in Int PROVE ((a % Width) + b) % Width = (a + b) % Width
  BY ONLY <1>1, <1>3, a \in Int, RemainderOfSum
<1>4. QED BY <1>2, <1>3

LEMMA FewReversed ==
  /\ Reverse(<<>>) = <<>>
  /\ \A f : Reverse(<<f>>) = <<f>>
<1>1. Reverse(<<>>) = <<>>
  BY DEF Reverse
<1>2. ASSUME NEW f PROVE Reverse(<<f>>) = <<f>>
  <2>1. Len(<<f>>) = 1 /\ \A i \in 1 .. 1 : i = 1 /\ (1 - i) + 1 = 1
    OBVIOUS
  <2>2. Reverse(<<f>>) = [i \in 1 .. 1 |-> <<f>>[1]]
    BY <2>1 DEF Reverse
  <2>3. QED BY <2>2
<1>3. QED BY <1>1, <1>2

(* A call of up to a frame keeps the samples in order.                         *)
LEMMA CallInOrder ==
  ASSUME MaxSamples <= FRAME, ResamplerInv, NEW n \in 0 .. MaxSamples, NEW same \in BOOLEAN,
         onFLVFrameParsed(n, same)
  PROVE  ResamplerInv'
<1>1. /\ FRAME \in Nat \ {0} /\ Width \in Nat \ {0} /\ n \in 0 .. FRAME /\ n \in Nat
      /\ remainingSampleCnt \in 0 .. FRAME - 1 /\ nextSample \in 0 .. Width - 1 /\ firstSample \in 0 .. Width - 1
      /\ resampleShortRemaining \in Buffer
  BY FrameInts DEF ResamplerInv
<1>2. PICK given : given = firstSample + FRAME * Len(audioQueue)
  OBVIOUS
<1>3. /\ given \in Int /\ (given + remainingSampleCnt) % Width = nextSample
      /\ \A i \in 1 .. remainingSampleCnt : resampleShortRemaining[i] = (given + i - 1) % Width
  <2>1. Len(audioQueue) \in Nat
    <3>1. CASE audioQueue = <<>>
      BY <3>1
    <3>2. CASE audioQueue # <<>>
      <4>1. PICK f : audioQueue = <<f>>
        BY <3>2 DEF ResamplerInv
      <4>2. QED BY <4>1
    <3>3. QED BY <3>1, <3>2
  <2>2. FRAME * Len(audioQueue) \in Int
    BY <1>1, <2>1
  <2>3. given \in Int
    BY <1>1, <1>2, <2>2
  <2>4. QED BY <1>2, <2>3 DEF ResamplerInv
<1>4. PICK out, residual, remaining, R :
        /\ out = [i \in 1 .. n |-> (nextSample + i - 1) % Width]
        /\ residual = IF same THEN resampleShortRemaining ELSE Fresh
        /\ remaining = IF same THEN remainingSampleCnt ELSE 0
        /\ R = resample(out, residual, remaining)
  OBVIOUS
<1>5. /\ resampleShortRemaining' = R.residual /\ remainingSampleCnt' = R.remaining
      /\ audioQueue' = Reverse(R.frames) /\ nextSample' = (nextSample + n) % Width
      /\ firstSample' = IF same THEN (firstSample + FRAME * Len(audioQueue)) % Width ELSE nextSample
  BY <1>4 DEF onFLVFrameParsed
<1>6. PICK base : base = firstSample'
  OBVIOUS
<1>7. /\ base \in 0 .. Width - 1 /\ base \in Int /\ residual \in Buffer /\ remaining \in 0 .. FRAME - 1
      /\ (base + remaining) % Width = nextSample
      /\ \A i \in 1 .. remaining : residual[i] = (base + i - 1) % Width
  <2>1. CASE same
    <3>1. base = given % Width /\ residual = resampleShortRemaining /\ remaining = remainingSampleCnt
      BY <1>2, <1>4, <1>5, <1>6, <2>1
    <3>2. base \in 0 .. Width - 1 /\ \A b \in Int : (base + b) % Width = (given + b) % Width
      BY <1>3, <3>1, AroundTheWidth
    <3>3. base \in Int /\ remaining \in Int
      BY <1>1, <3>1, <3>2
    <3>4. (base + remaining) % Width = nextSample
      BY <1>3, <3>1, <3>2, <3>3
    <3>5. ASSUME NEW i \in 1 .. remaining PROVE residual[i] = (base + i - 1) % Width
      <4>1. i - 1 \in Int /\ base + i - 1 = base + (i - 1) /\ given + i - 1 = given + (i - 1)
        BY <1>3, <3>3
      <4>2. residual[i] = (given + i - 1) % Width
        BY <1>3, <3>1
      <4>3. (base + (i - 1)) % Width = (given + (i - 1)) % Width
        BY <3>2, <4>1
      <4>4. QED BY ONLY <4>1, <4>2, <4>3
    <3>6. QED BY <1>1, <3>1, <3>2, <3>3, <3>4, <3>5
  <2>2. CASE ~same
    <3>1. base = nextSample /\ residual = Fresh /\ remaining = 0
      BY <1>4, <1>5, <1>6, <2>2
    <3>2. Fresh \in Buffer
      BY DEF Fresh, Buffer, Sample
    <3>3. nextSample % Width = nextSample /\ nextSample + 0 = nextSample
      BY <1>1, RemainderOfSmall
    <3>4. QED BY <1>1, <3>1, <3>2, <3>3
  <2>3. QED BY <2>1, <2>2
<1>8. PICK X : X = [j \in 1 .. 2 * FRAME |-> (base + j - 1) % Width]
  OBVIOUS
<1>9. /\ \A j \in 1 .. 2 * FRAME : X[j] = (base + j - 1) % Width
      /\ remaining \in Nat /\ remaining < FRAME /\ n <= FRAME /\ remaining \in Int
  BY <1>1, <1>7, <1>8
<1>10. out \in [1 .. n -> Sample] /\ \A i \in 1 .. n : out[i] = X[remaining + i]
  <2>1. ASSUME NEW i \in 1 .. n PROVE out[i] \in Sample /\ out[i] = X[remaining + i]
    <3>1. /\ out[i] = (nextSample + i - 1) % Width /\ nextSample + i - 1 = nextSample + (i - 1) /\ i - 1 \in Int
          /\ base + remaining \in Int
      BY <1>1, <1>4, <1>7, <1>9
    <3>2. (((base + remaining) % Width) + (i - 1)) % Width = ((base + remaining) + (i - 1)) % Width
      BY <3>1, AroundTheWidth
    <3>3. remaining + i \in 1 .. 2 * FRAME /\ base + (remaining + i) - 1 = (base + remaining) + (i - 1)
      BY <1>1, <1>7, <1>9
    <3>4. X[remaining + i] = (base + (remaining + i) - 1) % Width
      BY <1>9, <3>3
    <3>5. out[i] = X[remaining + i]
      BY ONLY <1>7, <3>1, <3>2, <3>3, <3>4
    <3>6. nextSample + (i - 1) \in Int
      BY <1>1, <3>1
    <3>7. out[i] \in Nat
      BY <1>1, <3>1, <3>6, AroundTheWidth
    <3>8. QED BY <3>5, <3>7 DEF Sample
  <2>2. QED BY <1>4, <2>1
<1>11. SamplesPlaced(R, X, remaining + n)
  <2>1. \A i \in 1 .. remaining : residual[i] = X[i]
    <3> TAKE i \in 1 .. remaining
    <3>1. i \in 1 .. 2 * FRAME
      BY <1>1, <1>9
    <3>2. QED BY <1>7, <1>9, <3>1
  <2>2. n \in 0 .. FRAME
    BY <1>1
  <2>3. remaining \in 0 .. FRAME - 1
    BY <1>7
  <2>4. out \in [1 .. n -> Sample]
    BY <1>10
  <2>5. residual \in Buffer
    BY <1>7
  <2>6. \A i \in 1 .. n : out[i] = X[remaining + i]
    BY <1>10
  <2>7. SamplesPlaced(resample(out, residual, remaining), X, remaining + n)
    BY ONLY <2>1, <2>2, <2>3, <2>4, <2>5, <2>6, Resampled
  <2>8. QED BY <1>4, <2>7
<1>12. PICK m : m = remaining + n
  OBVIOUS
<1>13. m \in Int /\ (base + m) % Width = nextSample' /\ nextSample' \in 0 .. Width - 1
  <2>1. m \in Int /\ base + m = (base + remaining) + n /\ base + remaining \in Int /\ n \in Int
    BY <1>1, <1>7, <1>9, <1>12
  <2>2. (((base + remaining) % Width) + n) % Width = ((base + remaining) + n) % Width
    BY <2>1, AroundTheWidth
  <2>3. (base + m) % Width = nextSample'
    BY ONLY <1>5, <1>7, <2>1, <2>2
  <2>4. nextSample + n \in Int
    BY <1>1
  <2>5. QED BY <1>5, <2>1, <2>3, <2>4, AroundTheWidth
<1>14. /\ resampleShortRemaining' \in Buffer /\ remainingSampleCnt' \in 0 .. FRAME - 1
       /\ nextSample' \in 0 .. Width - 1 /\ firstSample' \in 0 .. Width - 1
  BY <1>5, <1>6, <1>7, <1>11, <1>13 DEF SamplesPlaced
<1>15. CASE /\ R.frames = <<>> /\ R.remaining = m
            /\ \A i \in 1 .. m : R.residual[i] = X[i]
  <2>1. audioQueue' = <<>>
    BY <1>5, <1>15, FewReversed
  <2>2. firstSample' + FRAME * Len(audioQueue') = base
    <3>1. Len(audioQueue') = 0 /\ FRAME * 0 = 0 /\ base + 0 = base
      BY <1>1, <1>7, <2>1
    <3>2. QED BY ONLY <1>6, <3>1
  <2>3. (base + remainingSampleCnt') % Width = nextSample'
    BY <1>5, <1>13, <1>15
  <2>4. ASSUME NEW i \in 1 .. remainingSampleCnt' PROVE resampleShortRemaining'[i] = (base + i - 1) % Width
    <3>1. i \in 1 .. 2 * FRAME
      BY <1>1, <1>14
    <3>2. i \in 1 .. m
      BY <1>5, <1>15
    <3>3. QED BY <1>5, <1>9, <1>15, <3>1, <3>2
  <2>5. QED BY <1>14, <2>1, <2>2, <2>3, <2>4 DEF ResamplerInv
<1>16. CASE /\ \E f \in Buffer : R.frames = <<f>> /\ \A i \in 1 .. FRAME : f[i] = X[i]
            /\ R.remaining = m - FRAME
            /\ \A i \in 1 .. m - FRAME : R.residual[i] = X[FRAME + i]
  <2>1. PICK f \in Buffer : R.frames = <<f>> /\ \A i \in 1 .. FRAME : f[i] = X[i]
    BY <1>16
  <2>2. audioQueue' = <<f>>
    BY <1>5, <2>1, FewReversed
  <2>3. ASSUME NEW i \in 1 .. FRAME PROVE f[i] = (firstSample' + i - 1) % Width
    <3>1. i \in 1 .. 2 * FRAME
      BY <1>1
    <3>2. QED BY <1>6, <1>9, <2>1, <3>1
  <2>4. firstSample' + FRAME * Len(audioQueue') = base + FRAME
    <3>1. Len(audioQueue') = 1 /\ FRAME * 1 = FRAME
      BY <1>1, <2>2
    <3>2. QED BY ONLY <1>6, <3>1
  <2>5. ((base + FRAME) + remainingSampleCnt') % Width = nextSample'
    <3>1. (base + FRAME) + (m - FRAME) = base + m
      BY <1>1, <1>7, <1>13
    <3>2. remainingSampleCnt' = m - FRAME
      BY <1>5, <1>16
    <3>3. QED BY ONLY <1>13, <3>1, <3>2
  <2>6. ASSUME NEW i \in 1 .. remainingSampleCnt'
        PROVE  resampleShortRemaining'[i] = ((base + FRAME) + i - 1) % Width
    <3>1. FRAME + i \in 1 .. 2 * FRAME /\ base + (FRAME + i) - 1 = (base + FRAME) + i - 1
      BY <1>1, <1>7, <1>14
    <3>2. i \in 1 .. m - FRAME
      BY <1>5, <1>16
    <3>3. resampleShortRemaining'[i] = X[FRAME + i]
      BY <1>5, <1>16, <3>2
    <3>4. X[FRAME + i] = (base + (FRAME + i) - 1) % Width
      BY <1>9, <3>1
    <3>5. QED BY ONLY <3>1, <3>3, <3>4
  <2>7. \E g \in Buffer :
          /\ audioQueue' = <<g>>
          /\ \A i \in 1 .. FRAME : g[i] = (firstSample' + i - 1) % Width
    BY <2>2, <2>3
  <2>8. QED BY <1>14, <2>4, <2>5, <2>6, <2>7 DEF ResamplerInv
<1>17. QED BY <1>11, <1>12, <1>15, <1>16 DEF SamplesPlaced

LEMMA InitResampler == ResamplerInit => ResamplerInv
<1> SUFFICES ASSUME ResamplerInit PROVE ResamplerInv
  OBVIOUS
<1>1. FRAME \in Nat \ {0} /\ Width \in Nat \ {0} /\ Len(<<>>) = 0
  BY FrameInts
<1>2. Fresh \in Buffer
  BY DEF Fresh, Buffer, Sample
<1>3. 0 + FRAME * 0 = 0 /\ 0 + 0 = 0 /\ 0 \in 0 .. Width - 1 /\ 0 \in 0 .. FRAME - 1 /\ \A i \in 1 .. 0 : FALSE
  BY <1>1
<1>4. 0 % Width = 0
  BY <1>1, <1>3, RemainderOfSmall
<1>5. QED BY <1>1, <1>2, <1>3, <1>4 DEF ResamplerInit, ResamplerInv

LEMMA ResamplerStep ==
  ASSUME MaxSamples <= FRAME
  PROVE  ResamplerInv /\ [ResamplerNext]_resamplerVars => ResamplerInv'
<1> SUFFICES ASSUME ResamplerInv, [ResamplerNext]_resamplerVars PROVE ResamplerInv'
  OBVIOUS
<1>1. CASE ResamplerNext
  <2>1. PICK n \in 0 .. MaxSamples, same \in BOOLEAN : onFLVFrameParsed(n, same)
    BY <1>1 DEF ResamplerNext
  <2>2. QED BY <2>1, CallInOrder
<1>2. CASE UNCHANGED resamplerVars
  BY <1>2 DEF resamplerVars, ResamplerInv
<1>3. QED BY <1>1, <1>2

LEMMA NoneFlattened == FlattenSeq(<<>>) = <<>>
BY DEF FlattenSeq

LEMMA OneFlattened ==
  ASSUME NEW f
  PROVE  FlattenSeq(<<f>>) = f
<1> DEFINE s == <<f>>
           Fixed(g) == g = [i \in 1 .. Len(s) |-> IF i = 1 THEN s[i] ELSE g[i - 1] \o s[i]]
<1>1. Len(s) = 1 /\ s[1] = f /\ 1 .. 1 = {1}
  OBVIOUS
<1>2. FlattenSeq(s) = (CHOOSE g : Fixed(g))[Len(s)]
  BY <1>1 DEF FlattenSeq
<1> HIDE DEF s
<1>3. Fixed([i \in {1} |-> f])
  BY <1>1
<1>4. ASSUME NEW g, Fixed(g) PROVE g[1] = f
  BY <1>1, <1>4
<1> HIDE DEF Fixed
<1>5. Fixed(CHOOSE g : Fixed(g))
  BY <1>3
<1>6. FlattenSeq(s) = f
  BY <1>1, <1>2, <1>4, <1>5
<1>7. QED BY <1>6 DEF s

(* What was given out by the last call, followed by the residual.              *)
LEMMA OrderSeen == ResamplerInv => SamplesInOrder
<1> SUFFICES ASSUME ResamplerInv PROVE SamplesInOrder
  OBVIOUS
<1>1. /\ FRAME \in Nat \ {0} /\ Width \in Nat \ {0} /\ remainingSampleCnt \in 0 .. FRAME - 1
      /\ remainingSampleCnt \in Nat /\ firstSample \in Nat /\ resampleShortRemaining \in Buffer
  BY FrameInts DEF ResamplerInv
<1>2. PICK rest : rest = SubSeq(resampleShortRemaining, 1, remainingSampleCnt)
  OBVIOUS
<1>3. /\ rest \in Seq(Sample) /\ Len(rest) = remainingSampleCnt
      /\ \A i \in 1 .. remainingSampleCnt : rest[i] = resampleShortRemaining[i]
  <2>1. resampleShortRemaining \in Seq(Sample) /\ Len(resampleShortRemaining) = FRAME
    BY <1>1 DEF Buffer
  <2>2. remainingSampleCnt \in 0 .. Len(resampleShortRemaining)
    BY <1>1, <2>1
  <2>3. QED BY <1>2, <2>1, <2>2, Cut
<1>4. PICK given : given = firstSample + FRAME * Len(audioQueue)
  OBVIOUS
<1>5. /\ (given + remainingSampleCnt) % Width = nextSample
      /\ \A i \in 1 .. remainingSampleCnt : rest[i] = (given + i - 1) % Width
  BY <1>3, <1>4 DEF ResamplerInv
<1>6. PICK got : got = FlattenSeq(audioQueue) \o rest
  OBVIOUS
<1>7. (\A i \in DOMAIN got : got[i] = (firstSample + i - 1) % Width) /\ (firstSample + Len(got)) % Width = nextSample
  <2>1. CASE audioQueue = <<>>
    <3>1. Len(<<>>) = 0 /\ FRAME * 0 = 0 /\ firstSample + 0 = firstSample
      BY <1>1
    <3>2. given = firstSample
      BY ONLY <1>4, <2>1, <3>1
    <3>3. got = rest
      <4>1. <<>> \o rest = rest
        BY <1>3, ConcatEmptySeq
      <4>2. QED BY <1>6, <2>1, <4>1, NoneFlattened
    <3>4. DOMAIN got = 1 .. remainingSampleCnt /\ Len(got) = remainingSampleCnt
      BY <1>3, <3>3
    <3>5. QED BY <1>5, <3>2, <3>3, <3>4
  <2>2. CASE audioQueue # <<>>
    <3>1. PICK f \in Buffer : audioQueue = <<f>> /\ \A i \in 1 .. FRAME : f[i] = (firstSample + i - 1) % Width
      BY <2>2 DEF ResamplerInv
    <3>2. given = firstSample + FRAME
      <4>1. Len(audioQueue) = 1 /\ FRAME * 1 = FRAME
        BY <1>1, <3>1
      <4>2. QED BY ONLY <1>4, <4>1
    <3>3. f \in Seq(Sample) /\ Len(f) = FRAME
      BY <1>1 DEF Buffer
    <3>4. got = f \o rest
      BY <1>6, <3>1, OneFlattened
    <3>5. /\ got \in Seq(Sample) /\ Len(got) = FRAME + remainingSampleCnt
          /\ \A i \in 1 .. FRAME : got[i] = f[i]
          /\ \A i \in 1 .. remainingSampleCnt : got[FRAME + i] = rest[i]
      <4>1. f \in Seq(Sample)
        BY <3>3
      <4>2. rest \in Seq(Sample)
        BY <1>3
      <4>3. /\ f \o rest \in Seq(Sample) /\ Len(f \o rest) = Len(f) + Len(rest)
            /\ \A i \in 1 .. Len(f) : (f \o rest)[i] = f[i]
            /\ \A i \in 1 .. Len(rest) : (f \o rest)[Len(f) + i] = rest[i]
        BY ONLY <4>1, <4>2, Joined
      <4>4. QED BY ONLY <1>3, <3>3, <3>4, <4>3
    <3>6. ASSUME NEW i \in DOMAIN got PROVE got[i] = (firstSample + i - 1) % Width
      <4>1. i \in 1 .. FRAME + remainingSampleCnt
        BY <3>5
      <4>2. CASE i <= FRAME
        <5>1. i \in 1 .. FRAME
          BY <1>1, <4>1, <4>2
        <5>2. QED BY <3>1, <3>5, <5>1
      <4>3. CASE ~(i <= FRAME)
        <5>1. PICK j : j = i - FRAME
          OBVIOUS
        <5>2. j \in 1 .. remainingSampleCnt /\ FRAME + j = i /\ (firstSample + FRAME) + j - 1 = firstSample + i - 1
          BY <1>1, <4>1, <4>3, <5>1
        <5>3. got[i] = (given + j - 1) % Width
          BY <1>5, <3>5, <5>2
        <5>4. QED BY ONLY <3>2, <5>2, <5>3
      <4>4. QED BY <4>2, <4>3
    <3>7. (firstSample + Len(got)) % Width = nextSample
      <4>1. firstSample + (FRAME + remainingSampleCnt) = (firstSample + FRAME) + remainingSampleCnt
        BY <1>1
      <4>2. QED BY ONLY <1>5, <3>2, <3>5, <4>1
    <3>8. QED BY <3>6, <3>7
  <2>3. QED BY <2>1, <2>2
<1>8. QED BY ONLY <1>2, <1>6, <1>7 DEF SamplesInOrder

(* AudioResampler::resample and the queue it feeds: as long as no call decodes *)
(* more than a frame, the samples a decoder yields are given out once and in   *)
(* order, however the calls cut them and whenever the decoder is replaced.     *)
(* With longer calls they are not (AudioResampler.cpp:74, 103).                *)
THEOREM SamplesStayInOrder ==
  ASSUME MaxSamples <= FRAME
  PROVE  ResamplerSpec => []SamplesInOrder
<1>1. ResamplerInit => ResamplerInv
  BY InitResampler
<1>2. ResamplerInv /\ [ResamplerNext]_resamplerVars => ResamplerInv'
  BY ResamplerStep
<1>3. ResamplerInv => SamplesInOrder
  BY OrderSeen
<1>4. QED BY <1>1, <1>2, <1>3, PTL DEF ResamplerSpec
=============================================================================
