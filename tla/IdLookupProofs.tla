--------------------------- MODULE IdLookupProofs ---------------------------
(***************************************************************************)
(* Proofs about IdLookup, for every set of names, every number of slots    *)
(* and every sequence of calls.                                            *)
(***************************************************************************)
EXTENDS IdLookup, NumberLemmas

(* The scan of the reserve methods ends: a finite BitSet has a lowest clear *)
(* bit, and no later than at its cardinality.                              *)
LEMMA LowestClearExists ==
  ASSUME NEW bits, bits \subseteq Nat, IsFiniteSet(bits)
  PROVE  /\ LowestClear(bits) \in Nat
         /\ LowestClear(bits) \notin bits
<1>1. Cardinality(bits) \in Nat
  BY FS_CardinalityType
<1>2. \E i \in 0 .. Cardinality(bits) : IsLowestClear(i, bits)
  BY LowestFree DEF IsLowestClear
<1>3. LowestClear(bits) \in 0 .. Cardinality(bits) /\ IsLowestClear(LowestClear(bits), bits)
  BY <1>2 DEF LowestClear
<1>4. QED BY <1>1, <1>3 DEF IsLowestClear

(* The entry createNewEntry makes: its stream id is one no entry can hold,   *)
(* and so is its mixer id unless the name is one of the excluded.          *)
LEMMA NewEntryFresh ==
  ASSUME TypeOK, NEW name \in Names
  PROVE  /\ reserveMixerId(name) \in Nat
         /\ reserveStreamId \in Nat \ {0}
         /\ reserveStreamId - 1 \in Nat \ reservedStreams
         /\ name \in Excluded => reserveMixerId(name) >= MAX_STREAM_COUNT
         /\ name \notin Excluded => reserveMixerId(name) \notin mixerStreams
<1>1. /\ LowestClear(reservedStreams) \in Nat
      /\ LowestClear(reservedStreams) \notin reservedStreams
  BY LowestClearExists DEF TypeOK
<1>2. /\ LowestClear(mixerStreams) \in Nat
      /\ LowestClear(mixerStreams) \notin mixerStreams
  BY LowestClearExists DEF TypeOK
<1>3. QED
  BY <1>1, <1>2, MaxAssumption
     DEF reserveMixerId, reserveStreamId, Excluded,
         ALL_IN_ONE_STREAM_MIXER_ID, KARAOKE_STREAM_MIXER_ID

(* createNewEntry preserves the invariant, also when it replaces an entry.   *)
LEMMA CreatePreserves ==
  ASSUME IdInv, NEW name \in Names, createNewEntry(name),
         contractKept' = (contractKept /\ name \notin Mapped)
  PROVE  IdInv'
<1> DEFINE entry == [mixerId |-> reserveMixerId(name), streamId |-> reserveStreamId]
           mid == reserveMixerId(name)
           sid == reserveStreamId
<1>0. TypeOK /\ BitsHeld /\ StreamIdsUnique /\ SlotsUnique /\ MixerIdsUnique /\ NoLeak
  BY DEF IdInv
<1>1. /\ mid \in Nat /\ sid \in Nat \ {0} /\ sid - 1 \in Nat \ reservedStreams
      /\ name \in Excluded => mid >= MAX_STREAM_COUNT
      /\ name \notin Excluded => mid \notin mixerStreams
  BY <1>0, NewEntryFresh
<1> HIDE DEF mid, sid
<1>2. /\ groupMappingTable' = [n \in Mapped \cup {name} |->
            IF n = name THEN [mixerId |-> mid, streamId |-> sid] ELSE groupMappingTable[n]]
      /\ totalInputStreams' = totalInputStreams + 1
      /\ reservedStreams' = reservedStreams \cup {sid - 1}
      /\ mixerStreams' = IF name \in Excluded THEN mixerStreams ELSE mixerStreams \cup {mid}
  BY DEF createNewEntry, mid, sid
<1>3. /\ Mapped' = Mapped \cup {name}
      /\ groupMappingTable'[name].mixerId = mid
      /\ groupMappingTable'[name].streamId = sid
      /\ \A n \in Mapped : n # name => groupMappingTable'[n] = groupMappingTable[n]
  BY <1>2 DEF Mapped
<1>4. /\ \A n \in Mapped : groupMappingTable[n].mixerId \in Nat
      /\ \A n \in Mapped : groupMappingTable[n].streamId \in Nat \ {0}
  BY <1>0 DEF TypeOK, Entry
<1>5. TypeOK'
  <2>1. groupMappingTable' \in [Mapped' -> Entry]
    BY <1>0, <1>1, <1>2, <1>3 DEF TypeOK, Entry
  <2>2. Mapped' \subseteq Names
    BY <1>0, <1>3 DEF TypeOK
  <2>3. totalInputStreams' \in Int
    BY <1>0, <1>2 DEF TypeOK
  <2>4. reservedStreams' \in SUBSET Nat /\ IsFiniteSet(reservedStreams')
    BY <1>0, <1>1, <1>2, FS_AddElement DEF TypeOK
  <2>5. mixerStreams' \in SUBSET Nat /\ IsFiniteSet(mixerStreams')
    BY <1>0, <1>1, <1>2, FS_AddElement DEF TypeOK
  <2>6. contractKept' \in BOOLEAN
    OBVIOUS
  <2>7. QED
    BY <2>1, <2>2, <2>3, <2>4, <2>5, <2>6 DEF TypeOK
<1>6. BitsHeld'
  BY <1>0, <1>1, <1>2, <1>3 DEF BitsHeld, Excluded
<1>7. StreamIdsUnique'
  BY <1>0, <1>1, <1>3, <1>4 DEF StreamIdsUnique, BitsHeld
<1>8. SlotsUnique'
  BY <1>0, <1>1, <1>3, <1>4, MaxAssumption DEF SlotsUnique, BitsHeld
<1>9. MixerIdsUnique'
  <2> SUFFICES ASSUME contractKept', NEW m \in Mapped' \ Excluded, NEW n \in Mapped' \ Excluded,
                      groupMappingTable'[m].mixerId = groupMappingTable'[n].mixerId
               PROVE  m = n
    BY DEF MixerIdsUnique, Excluded
  <2>1. contractKept /\ name \notin Mapped
    OBVIOUS
  <2>2. \A k \in Mapped \ Excluded : groupMappingTable[k].mixerId \in mixerStreams
    BY <1>0, <2>1 DEF NoLeak
  <2>3. \A k, l \in Mapped \ Excluded :
          groupMappingTable[k].mixerId = groupMappingTable[l].mixerId => k = l
    BY <1>0, <2>1 DEF MixerIdsUnique
  <2>4. QED BY <1>1, <1>3, <2>1, <2>2, <2>3
<1>10. NoLeak'
  <2> SUFFICES ASSUME contractKept' PROVE
        /\ totalInputStreams' = Cardinality(Mapped')
        /\ reservedStreams' = {groupMappingTable'[n].streamId - 1 : n \in Mapped'}
        /\ mixerStreams' = {groupMappingTable'[n].mixerId : n \in Mapped' \ Excluded}
    BY DEF NoLeak, Excluded
  <2>1. contractKept /\ name \notin Mapped
    OBVIOUS
  <2>2. IsFiniteSet(Mapped)
    BY <1>0, NamesAssumption, FS_Subset DEF TypeOK
  <2>3. totalInputStreams' = Cardinality(Mapped')
    BY <1>0, <1>2, <1>3, <2>1, <2>2, FS_AddElement DEF NoLeak
  <2>4. reservedStreams' = {groupMappingTable'[n].streamId - 1 : n \in Mapped'}
    BY <1>0, <1>2, <1>3, <2>1 DEF NoLeak
  <2>5. mixerStreams' = {groupMappingTable'[n].mixerId : n \in Mapped' \ Excluded}
    BY <1>0, <1>2, <1>3, <2>1 DEF NoLeak
  <2>6. QED BY <2>3, <2>4, <2>5
<1>11. QED
  BY <1>5, <1>6, <1>7, <1>8, <1>9, <1>10 DEF IdInv

(* deleteEntry preserves the invariant, also for a name that is not mapped   *)
(* and for an excluded one.                                                *)
LEMMA DeletePreserves ==
  ASSUME IdInv, NEW name \in Names, deleteEntry(name),
         contractKept' = (contractKept /\ name \notin Excluded)
  PROVE  IdInv'
<1>0. TypeOK /\ BitsHeld /\ StreamIdsUnique /\ SlotsUnique /\ MixerIdsUnique /\ NoLeak
  BY DEF IdInv
<1>a. CASE name \notin Mapped
  <2>1. UNCHANGED idVars
    BY <1>a DEF deleteEntry
  <2>2. contractKept' => contractKept
    OBVIOUS
  <2>3. TypeOK'
    BY <1>0, <2>1 DEF TypeOK, idVars, Mapped, Entry
  <2>4. BitsHeld' /\ StreamIdsUnique' /\ SlotsUnique'
    BY <1>0, <2>1 DEF BitsHeld, StreamIdsUnique, SlotsUnique, idVars, Mapped, Excluded
  <2>5. MixerIdsUnique' /\ NoLeak'
    BY <1>0, <2>1, <2>2 DEF MixerIdsUnique, NoLeak, idVars, Mapped, Excluded
  <2>6. QED BY <2>3, <2>4, <2>5 DEF IdInv
<1>b. CASE name \in Mapped
  <2> DEFINE mid == groupMappingTable[name].mixerId
             sid == groupMappingTable[name].streamId
  <2>1. /\ \A n \in Mapped : groupMappingTable[n].mixerId \in Nat
        /\ \A n \in Mapped : groupMappingTable[n].streamId \in Nat \ {0}
    BY <1>0 DEF TypeOK, Entry
  <2>2. /\ groupMappingTable' = [n \in Mapped \ {name} |-> groupMappingTable[n]]
        /\ totalInputStreams' = totalInputStreams - 1
        /\ reservedStreams' = reservedStreams \ {sid - 1}
        /\ mixerStreams' = mixerStreams \ {mid}
    BY <1>b DEF deleteEntry
  <2>3. /\ Mapped' = Mapped \ {name}
        /\ \A n \in Mapped' : groupMappingTable'[n] = groupMappingTable[n]
    BY <2>2 DEF Mapped
  <2>4. TypeOK'
    <3>1. groupMappingTable' \in [Mapped' -> Entry]
      BY <1>0, <2>2, <2>3 DEF TypeOK
    <3>2. reservedStreams' \in SUBSET Nat /\ IsFiniteSet(reservedStreams')
      BY <1>0, <2>2, FS_RemoveElement DEF TypeOK
    <3>3. mixerStreams' \in SUBSET Nat /\ IsFiniteSet(mixerStreams')
      BY <1>0, <2>2, FS_RemoveElement DEF TypeOK
    <3>4. Mapped' \subseteq Names /\ totalInputStreams' \in Int /\ contractKept' \in BOOLEAN
      BY <1>0, <2>2, <2>3 DEF TypeOK
    <3>5. QED BY <3>1, <3>2, <3>3, <3>4 DEF TypeOK
  <2>5. BitsHeld'
    <3> SUFFICES ASSUME NEW n \in Mapped'
                 PROVE /\ groupMappingTable[n].streamId - 1 \in reservedStreams'
                       /\ n \in Excluded => groupMappingTable[n].mixerId >= MAX_STREAM_COUNT
                       /\ n \notin Excluded /\ groupMappingTable[n].mixerId < MAX_STREAM_COUNT
                            => groupMappingTable[n].mixerId \in mixerStreams'
      BY <2>3 DEF BitsHeld, Excluded
    <3>1. n \in Mapped /\ n # name
      BY <2>3
    <3>2. groupMappingTable[n].streamId - 1 \in reservedStreams'
      BY <1>0, <1>b, <2>1, <2>2, <3>1 DEF BitsHeld, StreamIdsUnique
    <3>3. groupMappingTable[n].mixerId < MAX_STREAM_COUNT => groupMappingTable[n].mixerId # mid
      BY <1>0, <1>b, <3>1 DEF SlotsUnique
    <3>4. QED BY <1>0, <2>2, <3>1, <3>2, <3>3 DEF BitsHeld
  <2>6. StreamIdsUnique' /\ SlotsUnique'
    BY <1>0, <2>3 DEF StreamIdsUnique, SlotsUnique
  <2>7. MixerIdsUnique'
    BY <1>0, <2>3 DEF MixerIdsUnique, Excluded
  <2>8. NoLeak'
    <3> SUFFICES ASSUME contractKept' PROVE
          /\ totalInputStreams' = Cardinality(Mapped')
          /\ reservedStreams' = {groupMappingTable'[n].streamId - 1 : n \in Mapped'}
          /\ mixerStreams' = {groupMappingTable'[n].mixerId : n \in Mapped' \ Excluded}
      BY DEF NoLeak, Excluded
    <3>1. contractKept /\ name \notin Excluded
      OBVIOUS
    <3>2. IsFiniteSet(Mapped)
      BY <1>0, NamesAssumption, FS_Subset DEF TypeOK
    <3>3. totalInputStreams' = Cardinality(Mapped')
      BY <1>0, <1>b, <2>2, <2>3, <3>1, <3>2, FS_RemoveElement DEF NoLeak
    <3>4. reservedStreams' = {groupMappingTable'[n].streamId - 1 : n \in Mapped'}
      <4>1. reservedStreams = {groupMappingTable[n].streamId - 1 : n \in Mapped}
        BY <1>0, <3>1 DEF NoLeak
      <4>2. \A n \in Mapped' : groupMappingTable[n].streamId - 1 # sid - 1
        BY <1>0, <1>b, <2>1, <2>3 DEF StreamIdsUnique
      <4>3. QED BY <2>2, <2>3, <4>1, <4>2
    <3>5. mixerStreams' = {groupMappingTable'[n].mixerId : n \in Mapped' \ Excluded}
      <4>1. mixerStreams = {groupMappingTable[n].mixerId : n \in Mapped \ Excluded}
        BY <1>0, <3>1 DEF NoLeak
      <4>2. \A n \in Mapped' \ Excluded : groupMappingTable[n].mixerId # mid
        BY <1>0, <1>b, <2>3, <3>1 DEF MixerIdsUnique
      <4>3. QED BY <2>2, <2>3, <4>1, <4>2
    <3>6. QED BY <3>3, <3>4, <3>5
  <2>9. QED BY <2>4, <2>5, <2>6, <2>7, <2>8 DEF IdInv
<1>c. QED BY <1>a, <1>b

(* The invariant holds in every state of every sequence of calls.           *)
THEOREM IdInvariant == Spec => []IdInv
<1>1. Init => IdInv
  <2> SUFFICES ASSUME Init PROVE IdInv
    OBVIOUS
  <2>1. Mapped = {}
    BY DEF Init, Mapped
  <2>2. TypeOK
    BY <2>1, FS_EmptySet DEF Init, TypeOK, Entry
  <2>3. BitsHeld /\ StreamIdsUnique /\ SlotsUnique /\ MixerIdsUnique
    BY <2>1 DEF BitsHeld, StreamIdsUnique, SlotsUnique, MixerIdsUnique
  <2>4. NoLeak
    BY <2>1, FS_EmptySet DEF Init, NoLeak
  <2>5. QED BY <2>2, <2>3, <2>4 DEF IdInv
<1>2. IdInv /\ [Next]_vars => IdInv'
  <2> SUFFICES ASSUME IdInv, [Next]_vars PROVE IdInv'
    OBVIOUS
  <2>1. CASE Next
    BY <2>1, CreatePreserves, DeletePreserves DEF Next
  <2>2. CASE UNCHANGED vars
    BY <2>2 DEF vars, IdInv, TypeOK, BitsHeld, StreamIdsUnique, SlotsUnique,
                MixerIdsUnique, NoLeak, Mapped, Excluded, Entry
  <2>3. QED BY <2>1, <2>2
<1>3. QED BY <1>1, <1>2, PTL DEF Spec

(* The table holds pairs of ids only, and the bits and the count are finite.     *)
THEOREM TypeCorrect == Spec => []TypeOK
<1>1. IdInv => TypeOK
  BY DEF IdInv
<1>2. QED BY <1>1, IdInvariant, PTL

(* No two participants are ever given the same mixed stream, whatever was     *)
(* created, replaced and deleted before.                                   *)
THEOREM StreamIdsNeverShared == Spec => []StreamIdsUnique
<1>1. IdInv => StreamIdsUnique
  BY DEF IdInv
<1>2. QED BY <1>1, IdInvariant, PTL

(* No two participants ever feed the same slot that mix_coder mixes, also     *)
(* when there were more of them than slots.                                *)
THEOREM SlotsNeverShared == Spec => []SlotsUnique
<1>1. IdInv => SlotsUnique
  BY DEF IdInv
<1>2. QED BY <1>1, IdInvariant, PTL

(* Under the callers' contract the bits and the count never drift from the  *)
(* table.                                                                  *)
THEOREM NothingLeaks == Spec => []NoLeak
<1>1. IdInv => NoLeak
  BY DEF IdInv
<1>2. QED BY <1>1, IdInvariant, PTL

(* A segment's header count and its mask agree, which is what keeps the      *)
(* segment inside the buffer InputObject allocates for it.                 *)
THEOREM SegmentCountsAgree == Spec => []TotalMatchesMask
<1>1. ASSUME IdInv PROVE TotalMatchesMask
  <2> DEFINE Mixed == Mapped \ Excluded
             f == [n \in Mixed |-> groupMappingTable[n].mixerId]
  <2> SUFFICES ASSUME contractKept,
                      Cardinality(Mapped \cap Excluded) = TOTAL_EXCLUDE_COUNT,
                      \A n \in Mixed : groupMappingTable[n].mixerId < MAX_STREAM_COUNT,
                      NEW k \in Mixed
               PROVE  /\ totalInputStreams - TOTAL_EXCLUDE_COUNT = Cardinality(MixerMask)
                      /\ groupMappingTable[k].mixerId \in MixerMask
    BY DEF TotalMatchesMask, lookupMixerIdAndMask
  <2>1. /\ totalInputStreams = Cardinality(Mapped)
        /\ mixerStreams = {groupMappingTable[n].mixerId : n \in Mixed}
        /\ \A m, n \in Mixed : groupMappingTable[m].mixerId = groupMappingTable[n].mixerId => m = n
    BY <1>1 DEF IdInv, NoLeak, MixerIdsUnique
  <2>2. \A n \in Mixed : groupMappingTable[n].mixerId \in 0 .. MAX_STREAM_COUNT - 1
    BY <1>1, MaxAssumption DEF IdInv, TypeOK, Entry
  <2>3. MixerMask = mixerStreams
    BY <2>1, <2>2 DEF MixerMask
  <2>4. f \in Bijection(Mixed, mixerStreams)
    BY <2>1 DEF Bijection, Injection, Surjection, IsInjective
  <2>5. IsFiniteSet(Mapped)
    BY <1>1, NamesAssumption, FS_Subset DEF IdInv, TypeOK
  <2>6. /\ IsFiniteSet(Mixed)
        /\ Cardinality(Mixed) = Cardinality(Mapped) - TOTAL_EXCLUDE_COUNT
    BY <2>5, FS_Difference
  <2>7. Cardinality(mixerStreams) = Cardinality(Mixed)
    <3>1. ExistsBijection(Mixed, mixerStreams)
      BY <2>4 DEF ExistsBijection
    <3>2. QED BY <2>6, <3>1, FS_Bijection
  <2>8. QED BY <2>1, <2>3, <2>6, <2>7
<1>2. QED BY <1>1, IdInvariant, PTL
=============================================================================
