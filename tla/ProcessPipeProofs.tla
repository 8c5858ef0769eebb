-------------------------- MODULE ProcessPipeProofs --------------------------
(***************************************************************************)
(* Proofs about ProcessPipe, for every finite set of senders, any number   *)
(* of slots, any capacity of the pipes and any number of changes: types,   *)
(* the writer that no segment stops, masks that never go back, and the     *)
(* refinement of MediaChannel.                                             *)
(***************************************************************************)
EXTENDS ProcessPipe, NumberLemmas, SequenceTheorems

USE DEF Ids!Mapped

(* IdLookup brings its own names for these two.                              *)
LEMMA SameSize ==
  ASSUME NEW S
  PROVE  /\ Ids!IsFiniteSet(S) <=> IsFiniteSet(S)
         /\ Ids!Cardinality(S) = Cardinality(S)
<1>1. Ids!IsFiniteSet(S) <=> IsFiniteSet(S)
  BY Zenon DEF Ids!IsFiniteSet, IsFiniteSet
<1>2. Ids!Cardinality(S) = Cardinality(S)
  BY Zenon DEF Ids!Cardinality, Cardinality, Ids!IsFiniteSet, IsFiniteSet
<1>3. QED BY <1>1, <1>2

(* The participants are the mapped names that are not the two system names,  *)
(* so the header count handed out is their number.                         *)
LEMMA ParticipantsCounted ==
  ASSUME TypeOK, TableKept
  PROVE  /\ IsFiniteSet(Participants)
         /\ Cardinality(Participants) \in Nat
         /\ totalInputStreams = Cardinality(Participants) + 2
         /\ \A s \in Senders : s \in Ids!Mapped <=> s \in Participants
<1>1. IsFiniteSet(Participants)
  BY SendersAssumption, FS_Subset DEF Participants
<1>2. Cardinality(Participants) \in Nat
  BY <1>1, FS_CardinalityType
<1>3. DOMAIN groupMappingTable \subseteq Senders \cup SystemNames /\ SystemNames \subseteq DOMAIN groupMappingTable
  BY DEF TypeOK, TableKept, Ids!TypeOK
<1>4. DOMAIN groupMappingTable = Participants \cup SystemNames /\ Participants \cap SystemNames = {}
  BY <1>3, SendersAssumption DEF Participants
<1>5. Cardinality(Participants \cup SystemNames)
        = Cardinality(Participants) + Cardinality(SystemNames) - Cardinality(Participants \cap SystemNames)
  BY <1>1, SendersAssumption, FS_Union
<1>6. Cardinality(Participants \cup SystemNames) = Cardinality(Participants) + 2
  <2>1. Cardinality(Participants \cap SystemNames) = 0
    BY <1>4, FS_EmptySet, Zenon
  <2>2. QED BY <1>2, <1>5, <2>1, SendersAssumption
<1>7. totalInputStreams = Cardinality(Participants) + 2
  BY <1>4, <1>6 DEF TableKept
<1>8. QED BY <1>1, <1>2, <1>7 DEF Participants

(* A segment made now fits its buffer: it has a header for its sender and    *)
(* one for every other bit of the mask, which are not more than the other  *)
(* participants, also when there are more of them than slots.              *)
LEMMA HeadersFit ==
  ASSUME TypeOK, TableKept, NEW s \in Participants
  PROVE  LET id == groupMappingTable[s].mixerId
         IN  /\ id \in Nat
             /\ Ids!MixerMask \in SUBSET (0 .. MAX_STREAM_COUNT - 1)
             /\ 1 + Cardinality(Ids!MixerMask \ {id}) \in Nat
             /\ 1 + Cardinality(Ids!MixerMask \ {id}) <= totalInputStreams - 2
<1> DEFINE id == groupMappingTable[s].mixerId
           mask == Ids!MixerMask
           mixerIdOf == [p \in Participants |-> groupMappingTable[p].mixerId]
<1>1. /\ IsFiniteSet(Participants) /\ Cardinality(Participants) \in Nat
      /\ totalInputStreams = Cardinality(Participants) + 2
  BY ParticipantsCounted
<1>2. id \in Nat /\ id \in mixerStreams
  BY DEF TypeOK, TableKept, Participants, Ids!TypeOK, Ids!Entry
<1>3. mask \subseteq mixerStreams /\ mask \subseteq 0 .. MAX_STREAM_COUNT - 1
  BY DEF Ids!MixerMask
<1>4. IsFiniteSet(mixerStreams) /\ Cardinality(mixerStreams) \in Nat
  <2>1. IsFiniteSet(mixerStreams)
    BY SameSize DEF TypeOK, Ids!TypeOK
  <2>2. QED BY <2>1, FS_CardinalityType
<1>5. mixerIdOf \in Surjection(Participants, mixerStreams)
  BY DEF TableKept, Surjection
<1>6. Cardinality(mixerStreams) <= Cardinality(Participants)
  BY <1>1, <1>5, FS_Surjection
<1>7. /\ IsFiniteSet(mixerStreams \ {id})
      /\ Cardinality(mixerStreams \ {id}) = Cardinality(mixerStreams) - 1
  BY <1>2, <1>4, FS_RemoveElement
<1>8. /\ IsFiniteSet(mask \ {id})
      /\ Cardinality(mask \ {id}) <= Cardinality(mixerStreams \ {id})
  BY <1>3, <1>7, FS_Subset
<1>9. Cardinality(mask \ {id}) \in Nat
  BY <1>8, FS_CardinalityType
<1> HIDE DEF id, mask
<1>10. 1 + Cardinality(mask \ {id}) <= totalInputStreams - 2
  BY <1>1, <1>4, <1>6, <1>7, <1>8, <1>9
<1>11. QED BY <1>2, <1>3, <1>9, <1>10 DEF id, mask

(* What InputObject.toByteBuffer returns: the same message, with a segment   *)
(* that fits unless its sender is gone.                                    *)
LEMMA SegmentFits ==
  ASSUME TypeOK, TableKept, NEW o \in InputObject, o.sender \in Senders, WellMade(o)
  PROVE  /\ toByteBuffer(o) \in InputObject
         /\ toByteBuffer(o).sender = o.sender /\ toByteBuffer(o).frame = o.frame
         /\ WellMade(toByteBuffer(o)) /\ ~Overflows(toByteBuffer(o))
         /\ toByteBuffer(o).segment = None => o.sender \notin Participants
         /\ o.segment = None /\ toByteBuffer(o).segment # None
              => toByteBuffer(o).segment.version = changes
<1> DEFINE r == toByteBuffer(o)
<1>1. CASE o.segment # None
  <2>1. r = o
    BY <1>1 DEF toByteBuffer
  <2>2. o.segment \in Segment
    BY <1>1 DEF InputObject
  <2>3. o.segment.headers \in Nat /\ o.segment.room \in Int /\ o.segment.headers <= o.segment.room
    BY <1>1, <2>2 DEF Segment, WellMade
  <2>4. ~Overflows(o)
    BY <2>3 DEF Overflows
  <2>5. QED BY <1>1, <2>1, <2>4
<1>2. CASE o.segment = None /\ o.sender \notin Participants
  <2>1. r = o
    BY <1>2, ParticipantsCounted DEF toByteBuffer, Ids!lookupMixerIdAndMask
  <2>2. QED BY <1>2, <2>1 DEF Overflows
<1>3. CASE o.segment = None /\ o.sender \in Participants
  <2> DEFINE id == groupMappingTable[o.sender].mixerId
             mask == Ids!MixerMask
             segment == [slot |-> id, mask |-> mask, headers |-> 1 + Cardinality(mask \ {id}),
                         room |-> totalInputStreams - 2, version |-> changes]
  <2>1. /\ id \in Nat /\ mask \in SUBSET (0 .. MAX_STREAM_COUNT - 1)
        /\ 1 + Cardinality(mask \ {id}) \in Nat
        /\ 1 + Cardinality(mask \ {id}) <= totalInputStreams - 2
    BY <1>3, HeadersFit
  <2>2. Ids!lookupMixerIdAndMask(o.sender)
          = [mixerId |-> id, mask |-> mask, total |-> totalInputStreams - 2]
    BY <1>3 DEF Participants, Ids!lookupMixerIdAndMask, Ids!TOTAL_EXCLUDE_COUNT
  <2> HIDE DEF id, mask
  <2>3. r = [o EXCEPT !.segment = segment]
    BY <1>3, <2>1, <2>2 DEF toByteBuffer
  <2>4. totalInputStreams - 2 \in Int /\ changes \in 0 .. MaxChanges
    BY DEF TypeOK, Ids!TypeOK
  <2>5. segment \in Segment
    BY <2>1, <2>4 DEF Segment
  <2> HIDE DEF r
  <2>6. r \in InputObject /\ r.segment = segment /\ r.sender = o.sender /\ r.frame = o.frame
    BY <2>3, <2>5 DEF InputObject
  <2>7. segment.headers <= segment.room /\ segment.version = changes /\ segment # None
    BY <2>1, <2>5, NoneAssumption
  <2>8. segment.headers \in Nat /\ segment.room \in Int
    BY <2>1, <2>4
  <2> HIDE DEF segment
  <2>9. WellMade(r)
    BY <2>4, <2>6, <2>7 DEF WellMade
  <2>10. ~Overflows(r)
    BY <2>6, <2>7, <2>8 DEF Overflows
  <2>11. QED BY <1>3, <2>6, <2>7, <2>9, <2>10 DEF r
<1>4. QED BY <1>1, <1>2, <1>3

-----------------------------------------------------------------------------
(* A participant that joins gets the lowest free slot, which no other holds. *)
LEMMA JoinKeepsTable ==
  ASSUME TypeOK, TableKept, NEW s \in Senders, s \notin Participants, Ids!createNewEntry(s)
  PROVE  Ids!TypeOK' /\ TableKept' /\ Participants' = Participants \cup {s}
<1> DEFINE mid == Ids!LowestClear(mixerStreams)
           sid == Ids!LowestClear(reservedStreams) + 1
<1>1. /\ mixerStreams \subseteq Nat /\ IsFiniteSet(mixerStreams)
      /\ reservedStreams \subseteq Nat /\ IsFiniteSet(reservedStreams)
  BY SameSize DEF TypeOK, Ids!TypeOK
<1>2. mid \in Nat \ mixerStreams
  <2>1. Cardinality(mixerStreams) \in Nat
    BY <1>1, FS_CardinalityType
  <2>2. \E i \in 0 .. Cardinality(mixerStreams) : Ids!IsLowestClear(i, mixerStreams)
    BY <1>1, LowestFree DEF Ids!IsLowestClear
  <2>3. mid \in 0 .. Cardinality(mixerStreams) /\ Ids!IsLowestClear(mid, mixerStreams)
    BY <2>2, SameSize DEF Ids!LowestClear
  <2>4. QED BY <2>1, <2>3 DEF Ids!IsLowestClear
<1>3. sid \in Nat \ {0} /\ sid - 1 \in Nat
  <2>1. Cardinality(reservedStreams) \in Nat
    BY <1>1, FS_CardinalityType
  <2>2. \E i \in 0 .. Cardinality(reservedStreams) : Ids!IsLowestClear(i, reservedStreams)
    BY <1>1, LowestFree DEF Ids!IsLowestClear
  <2>3. Ids!LowestClear(reservedStreams) \in 0 .. Cardinality(reservedStreams)
    BY <2>2, SameSize DEF Ids!LowestClear
  <2>4. QED BY <2>1, <2>3
<1>4. Ids!reserveMixerId(s) = mid /\ Ids!reserveStreamId = sid /\ s \notin Ids!Excluded
  BY SendersAssumption DEF Ids!reserveMixerId, Ids!reserveStreamId, Ids!Excluded
<1> HIDE DEF mid, sid
<1>5. /\ groupMappingTable' = [n \in DOMAIN groupMappingTable \cup {s} |->
            IF n = s THEN [mixerId |-> mid, streamId |-> sid] ELSE groupMappingTable[n]]
      /\ totalInputStreams' = totalInputStreams + 1
      /\ reservedStreams' = reservedStreams \cup {sid - 1}
      /\ mixerStreams' = mixerStreams \cup {mid}
  BY <1>4 DEF Ids!createNewEntry
<1>6. /\ DOMAIN groupMappingTable' = DOMAIN groupMappingTable \cup {s}
      /\ groupMappingTable'[s].mixerId = mid
      /\ \A n \in DOMAIN groupMappingTable : n # s => groupMappingTable'[n] = groupMappingTable[n]
  BY <1>5
<1>7. Participants' = Participants \cup {s} /\ s \notin DOMAIN groupMappingTable
  BY <1>6 DEF Participants
<1>8. Ids!TypeOK'
  <2>1. groupMappingTable' \in [DOMAIN groupMappingTable' -> Ids!Entry]
    <3>1. [mixerId |-> mid, streamId |-> sid] \in Ids!Entry
      BY <1>2, <1>3 DEF Ids!Entry
    <3>2. \A n \in DOMAIN groupMappingTable : groupMappingTable[n] \in Ids!Entry
      BY DEF TypeOK, Ids!TypeOK
    <3>3. QED BY <1>5, <3>1, <3>2
  <2>2. reservedStreams' \in SUBSET Nat /\ Ids!IsFiniteSet(reservedStreams')
    BY <1>1, <1>3, <1>5, FS_AddElement, SameSize
  <2>3. mixerStreams' \in SUBSET Nat /\ Ids!IsFiniteSet(mixerStreams')
    BY <1>1, <1>2, <1>5, FS_AddElement, SameSize
  <2>4. DOMAIN groupMappingTable' \subseteq Senders \cup SystemNames /\ totalInputStreams' \in Int
    BY <1>5, <1>6 DEF TypeOK, Ids!TypeOK
  <2>5. QED BY <2>1, <2>2, <2>3, <2>4 DEF Ids!TypeOK
<1>9. TableKept'
  <2>1. SystemNames \subseteq DOMAIN groupMappingTable'
    BY <1>6 DEF TableKept
  <2>2. totalInputStreams' = Cardinality(DOMAIN groupMappingTable')
    <3>1. IsFiniteSet(Senders \cup SystemNames)
      BY SendersAssumption, FS_Union
    <3>2. IsFiniteSet(DOMAIN groupMappingTable)
      BY <3>1, FS_Subset DEF TypeOK, Ids!TypeOK
    <3>3. QED BY <1>5, <1>6, <1>7, <3>2, FS_AddElement DEF TableKept
  <2>3. mixerStreams' = {groupMappingTable'[r].mixerId : r \in Participants'}
    <3>1. \A r \in Participants : groupMappingTable'[r] = groupMappingTable[r]
      BY <1>6, <1>7 DEF Participants
    <3>2. {groupMappingTable'[r].mixerId : r \in Participants'}
            = {groupMappingTable'[r].mixerId : r \in Participants} \cup {mid}
      BY <1>6, <1>7
    <3>3. {groupMappingTable'[r].mixerId : r \in Participants} = mixerStreams
      BY <3>1 DEF TableKept
    <3>4. QED BY <1>5, <3>2, <3>3
  <2>4. ASSUME NEW q \in Participants', NEW r \in Participants',
               groupMappingTable'[q].mixerId = groupMappingTable'[r].mixerId
        PROVE  q = r
    BY <1>2, <1>6, <1>7, <2>4 DEF TableKept, Participants
  <2>5. QED BY <2>1, <2>2, <2>3, <2>4 DEF TableKept
<1>10. QED BY <1>7, <1>8, <1>9

(* Who leaves frees a slot that nobody else holds.                           *)
LEMMA LeaveKeepsTable ==
  ASSUME TypeOK, TableKept, NEW s \in Participants, Ids!deleteEntry(s)
  PROVE  Ids!TypeOK' /\ TableKept' /\ Participants' = Participants \ {s}
<1> DEFINE mid == groupMappingTable[s].mixerId
           sid == groupMappingTable[s].streamId
<1>1. /\ mixerStreams \subseteq Nat /\ IsFiniteSet(mixerStreams)
      /\ reservedStreams \subseteq Nat /\ IsFiniteSet(reservedStreams)
  BY SameSize DEF TypeOK, Ids!TypeOK
<1>2. s \in DOMAIN groupMappingTable /\ s \in Senders /\ s \notin SystemNames
  BY SendersAssumption DEF Participants
<1> HIDE DEF mid, sid
<1>3. /\ groupMappingTable' = [n \in DOMAIN groupMappingTable \ {s} |-> groupMappingTable[n]]
      /\ totalInputStreams' = totalInputStreams - 1
      /\ reservedStreams' = reservedStreams \ {sid - 1}
      /\ mixerStreams' = mixerStreams \ {mid}
  BY <1>2 DEF Ids!deleteEntry, mid, sid
<1>4. /\ DOMAIN groupMappingTable' = DOMAIN groupMappingTable \ {s}
      /\ \A n \in DOMAIN groupMappingTable' : groupMappingTable'[n] = groupMappingTable[n]
  BY <1>3
<1>5. Participants' = Participants \ {s}
  BY <1>4 DEF Participants
<1>6. Ids!TypeOK'
  <2>1. groupMappingTable' \in [DOMAIN groupMappingTable' -> Ids!Entry]
    BY <1>3, <1>4 DEF TypeOK, Ids!TypeOK
  <2>2. reservedStreams' \in SUBSET Nat /\ Ids!IsFiniteSet(reservedStreams')
    BY <1>1, <1>3, FS_RemoveElement, SameSize
  <2>3. mixerStreams' \in SUBSET Nat /\ Ids!IsFiniteSet(mixerStreams')
    BY <1>1, <1>3, FS_RemoveElement, SameSize
  <2>4. DOMAIN groupMappingTable' \subseteq Senders \cup SystemNames /\ totalInputStreams' \in Int
    BY <1>3, <1>4 DEF TypeOK, Ids!TypeOK
  <2>5. QED BY <2>1, <2>2, <2>3, <2>4 DEF Ids!TypeOK
<1>7. TableKept'
  <2>1. SystemNames \subseteq DOMAIN groupMappingTable'
    BY <1>2, <1>4 DEF TableKept
  <2>2. totalInputStreams' = Cardinality(DOMAIN groupMappingTable')
    <3>1. IsFiniteSet(Senders \cup SystemNames)
      BY SendersAssumption, FS_Union
    <3>2. IsFiniteSet(DOMAIN groupMappingTable)
      BY <3>1, FS_Subset DEF TypeOK, Ids!TypeOK
    <3>3. QED BY <1>2, <1>3, <1>4, <3>2, FS_RemoveElement DEF TableKept
  <2>3. mixerStreams' = {groupMappingTable'[r].mixerId : r \in Participants'}
    <3>1. \A r \in Participants' : groupMappingTable'[r] = groupMappingTable[r]
      BY <1>4 DEF Participants
    <3>2. \A r \in Participants' : groupMappingTable[r].mixerId # mid
      BY <1>5 DEF TableKept, mid
    <3>3. mixerStreams \ {mid} = {groupMappingTable[r].mixerId : r \in Participants'}
      BY <1>5, <3>2 DEF TableKept, mid
    <3>4. QED BY <1>3, <3>1, <3>3
  <2>4. ASSUME NEW q \in Participants', NEW r \in Participants',
               groupMappingTable'[q].mixerId = groupMappingTable'[r].mixerId
        PROVE  q = r
    BY <1>4, <1>5, <2>4 DEF TableKept, Participants
  <2>5. QED BY <2>1, <2>2, <2>3, <2>4 DEF TableKept
<1>8. QED BY <1>5, <1>6, <1>7

(* The table as the server boots is such a table.                            *)
LEMMA InitKeepsTable ==
  ASSUME Init
  PROVE  Ids!TypeOK /\ TableKept
<1> DEFINE mapped == SystemNames \cup InitiallyIn
           size == Cardinality(InitiallyIn)
<1>1. IsFiniteSet(InitiallyIn) /\ size \in Nat
  BY SendersAssumption, FS_Subset, FS_CardinalityType
<1>2. IsFiniteSet(mapped) /\ Cardinality(mapped) \in Nat
  BY <1>1, SendersAssumption, FS_Union, FS_CardinalityType
<1>3. /\ mixerStreams = 0 .. size - 1
      /\ totalInputStreams = Cardinality(mapped)
      /\ reservedStreams = 0 .. totalInputStreams - 1
      /\ groupMappingTable \in
           [mapped -> [mixerId : mixerStreams \cup {Ids!ALL_IN_ONE_STREAM_MIXER_ID, Ids!KARAOKE_STREAM_MIXER_ID},
                       streamId : 1 .. totalInputStreams]]
      /\ {groupMappingTable[n].mixerId : n \in InitiallyIn} = 0 .. size - 1
  BY DEF Init, IsBootTable
<1> HIDE DEF size
<1>4. Ids!ALL_IN_ONE_STREAM_MIXER_ID \in Nat /\ Ids!KARAOKE_STREAM_MIXER_ID \in Nat
  BY BoundsAssumption DEF Ids!ALL_IN_ONE_STREAM_MIXER_ID, Ids!KARAOKE_STREAM_MIXER_ID
<1>5. mixerStreams \in SUBSET Nat /\ reservedStreams \in SUBSET Nat /\ totalInputStreams \in Int
  BY <1>1, <1>2, <1>3
<1>6. DOMAIN groupMappingTable = mapped
  BY <1>3
<1>7. Ids!TypeOK
  <2>1. groupMappingTable \in [DOMAIN groupMappingTable -> Ids!Entry]
    BY <1>2, <1>3, <1>4, <1>5, <1>6 DEF Ids!Entry
  <2>2. IsFiniteSet(mixerStreams) /\ IsFiniteSet(reservedStreams)
    BY <1>1, <1>2, <1>3, FS_Interval
  <2>3. mapped \subseteq Senders \cup SystemNames
    BY SendersAssumption
  <2>4. QED BY <1>5, <1>6, <2>1, <2>2, <2>3, SameSize DEF Ids!TypeOK
<1>8. Participants = InitiallyIn
  BY <1>6, SendersAssumption DEF Participants
<1>9. \A r, s \in InitiallyIn :
        groupMappingTable[r].mixerId = groupMappingTable[s].mixerId => r = s
  <2> DEFINE mixerIdOf == [s \in InitiallyIn |-> groupMappingTable[s].mixerId]
  <2>1. mixerIdOf \in Surjection(InitiallyIn, mixerStreams)
    BY <1>3 DEF Surjection
  <2>2. Cardinality(mixerStreams) = size
    BY <1>1, <1>3, FS_Interval
  <2>3. mixerIdOf \in Injection(InitiallyIn, mixerStreams)
    BY <1>1, <2>1, <2>2, FS_SurjSameCardinalityImpliesInj DEF size
  <2>4. \A r, s \in InitiallyIn : mixerIdOf[r] = mixerIdOf[s] => r = s
    BY <2>3 DEF Injection, IsInjective
  <2>5. QED BY <2>4
<1>10. TableKept
  BY <1>3, <1>6, <1>8, <1>9 DEF TableKept
<1>11. QED BY <1>7, <1>10

-----------------------------------------------------------------------------
(* What most steps leave alone.                                              *)
LEMMA TableUntouched ==
  ASSUME TypeOK, TableKept, UNCHANGED idVars
  PROVE  Ids!TypeOK' /\ TableKept'
<1>1. UNCHANGED <<groupMappingTable, totalInputStreams, reservedStreams, mixerStreams>>
  BY DEF idVars
<1>2. Ids!TypeOK'
  BY <1>1 DEF TypeOK, Ids!TypeOK, Ids!Entry
<1>3. TableKept'
  BY <1>1 DEF TableKept, Participants
<1>4. QED BY <1>2, <1>3

LEMMA OneRecord ==
  ASSUME NEW s \in Senders, NEW f \in Frames
  PROVE  /\ [sender |-> s, frame |-> f, segment |-> None] \in InputObject
         /\ NoObject \in InputObject
  BY DEF InputObject, NoObject

(* A sender enters handleSegInput with a new message.                        *)
LEMMA PushStep ==
  ASSUME PipeInv, NEW s \in Senders, pushInputMessage(s)
  PROVE  PipeInv'
<1>0. TypeOK /\ TableKept /\ SegmentsWellMade /\ InHand /\ StampedLate /\ WriterAlive
  BY DEF PipeInv
<1>1. PICK f \in Frames : input' = [input EXCEPT ![s] = [sender |-> s, frame |-> f, segment |-> None]]
  BY DEF pushInputMessage
<1> DEFINE o == [sender |-> s, frame |-> f, segment |-> None]
<1>2. o \in InputObject /\ o.segment = None /\ o.sender = s /\ o.frame = f
  BY OneRecord
<1> HIDE DEF o
<1>3. /\ sending' = [sending EXCEPT ![s] = IF bSaveToDisc THEN "save" ELSE "add"]
      /\ UNCHANGED <<bSaveToDisc, changes, outBuffers, writer, obj, bShouldContWriterThread,
                     lastWritten, toMixer, mixerAlive, fromMixer>>
      /\ UNCHANGED idVars
  BY DEF pushInputMessage, writeVars, mixVars
<1>4. input' = [input EXCEPT ![s] = o]
  BY <1>1 DEF o
<1>5. Ids!TypeOK' /\ TableKept'
  BY <1>0, <1>3, TableUntouched
<1>6. TypeOK'
  <2>1. input' \in [Senders -> InputObject]
    BY <1>0, <1>2, <1>4 DEF TypeOK
  <2>2. sending' \in [Senders -> {"no", "save", "add", "notify"}]
    BY <1>0, <1>3 DEF TypeOK
  <2>3. QED BY <1>0, <1>3, <1>5, <2>1, <2>2 DEF TypeOK
<1>7. \A r \in Senders : input'[r] = IF r = s THEN o ELSE input[r]
  BY <1>0, <1>4 DEF TypeOK
<1>8. \A r \in Senders : sending'[r] = IF r = s THEN IF bSaveToDisc THEN "save" ELSE "add" ELSE sending[r]
  BY <1>0, <1>3 DEF TypeOK
<1>9. SegmentsWellMade'
  BY <1>0, <1>2, <1>3, <1>7 DEF SegmentsWellMade, WellMade
<1>10. InHand'
  BY <1>0, <1>2, <1>3, <1>7, <1>8 DEF InHand, IsMessage
<1>11. StampedLate'
  BY <1>0, <1>2, <1>3, <1>7, <1>8 DEF StampedLate
<1>12. WriterAlive'
  BY <1>0, <1>3 DEF WriterAlive
<1>13. QED BY <1>5, <1>6, <1>9, <1>10, <1>11, <1>12 DEF PipeInv

(* The copy for the disc; no segment overflows.                              *)
LEMMA SaveStep ==
  ASSUME PipeInv, NEW s \in Senders, saveToDisc(s)
  PROVE  PipeInv'
<1>0. TypeOK /\ TableKept /\ SegmentsWellMade /\ InHand /\ StampedLate /\ WriterAlive
  BY DEF PipeInv
<1> DEFINE o == toByteBuffer(input[s])
<1>1. sending[s] = "save" /\ bSaveToDisc
  BY <1>0 DEF saveToDisc, StampedLate, TypeOK
<1>2. input[s] \in InputObject /\ input[s].sender \in Senders /\ input[s].frame \in Frames
      /\ WellMade(input[s])
  BY <1>0, <1>1 DEF TypeOK, InHand, IsMessage, SegmentsWellMade
<1>3. /\ o \in InputObject /\ o.sender = input[s].sender /\ o.frame = input[s].frame
      /\ WellMade(o) /\ ~Overflows(o)
  BY <1>0, <1>2, SegmentFits
<1> HIDE DEF o
<1>4. /\ sending' = [sending EXCEPT ![s] = "add"]
      /\ input' = [input EXCEPT ![s] = o]
      /\ UNCHANGED <<bSaveToDisc, changes, outBuffers, writer, obj, bShouldContWriterThread,
                     lastWritten, toMixer, mixerAlive, fromMixer>>
      /\ UNCHANGED idVars
  BY <1>3 DEF saveToDisc, writeVars, mixVars, o
<1>5. Ids!TypeOK' /\ TableKept'
  BY <1>0, <1>4, TableUntouched
<1>6. TypeOK'
  <2>1. input' \in [Senders -> InputObject]
    BY <1>0, <1>3, <1>4 DEF TypeOK
  <2>2. sending' \in [Senders -> {"no", "save", "add", "notify"}]
    BY <1>0, <1>4 DEF TypeOK
  <2>3. QED BY <1>0, <1>4, <1>5, <2>1, <2>2 DEF TypeOK
<1>7. \A r \in Senders : input'[r] = IF r = s THEN o ELSE input[r]
  BY <1>0, <1>4 DEF TypeOK
<1>8. \A r \in Senders : sending'[r] = IF r = s THEN "add" ELSE sending[r]
  BY <1>0, <1>4 DEF TypeOK
<1>9. SegmentsWellMade'
  BY <1>0, <1>3, <1>4, <1>7 DEF SegmentsWellMade, WellMade
<1>10. InHand'
  BY <1>0, <1>2, <1>3, <1>4, <1>7, <1>8 DEF InHand, IsMessage
<1>11. StampedLate'
  BY <1>1, <1>4 DEF StampedLate
<1>12. WriterAlive'
  BY <1>0, <1>4 DEF WriterAlive
<1>13. QED BY <1>5, <1>6, <1>9, <1>10, <1>11, <1>12 DEF PipeInv

(* The message goes to the back of the queue.                                *)
LEMMA AddStep ==
  ASSUME PipeInv, NEW s \in Senders, add(s)
  PROVE  PipeInv'
<1>0. TypeOK /\ TableKept /\ SegmentsWellMade /\ InHand /\ StampedLate /\ WriterAlive
  BY DEF PipeInv
<1>1. /\ sending[s] = "add"
      /\ outBuffers' = Append(outBuffers, input[s])
      /\ sending' = [sending EXCEPT ![s] = "notify"]
      /\ input' = [input EXCEPT ![s] = NoObject]
      /\ UNCHANGED <<bSaveToDisc, changes, writer, obj, bShouldContWriterThread,
                     lastWritten, toMixer, mixerAlive, fromMixer>>
      /\ UNCHANGED idVars
  BY DEF add, writeVars, mixVars
<1>2. Ids!TypeOK' /\ TableKept'
  BY <1>0, <1>1, TableUntouched
<1>3. input[s] \in InputObject /\ IsMessage(input[s]) /\ WellMade(input[s])
  BY <1>0, <1>1 DEF TypeOK, InHand, SegmentsWellMade
<1>4. /\ outBuffers' \in Seq(InputObject)
      /\ DOMAIN outBuffers' = 1 .. Len(outBuffers) + 1
      /\ \A i \in 1 .. Len(outBuffers) : outBuffers'[i] = outBuffers[i]
      /\ outBuffers'[Len(outBuffers) + 1] = input[s]
      /\ Len(outBuffers) \in Nat /\ DOMAIN outBuffers = 1 .. Len(outBuffers)
  BY <1>0, <1>1, <1>3, AppendProperties, LenProperties DEF TypeOK
<1>5. \A i \in DOMAIN outBuffers' : i \in DOMAIN outBuffers \/ outBuffers'[i] = input[s]
  BY <1>4
<1>6. NoObject \in InputObject /\ NoObject.segment = None
  BY DEF NoObject, InputObject
<1>7. \A r \in Senders : input'[r] = IF r = s THEN NoObject ELSE input[r]
  BY <1>0, <1>1 DEF TypeOK
<1>8. \A r \in Senders : sending'[r] = IF r = s THEN "notify" ELSE sending[r]
  BY <1>0, <1>1 DEF TypeOK
<1>9. TypeOK'
  <2>1. input' \in [Senders -> InputObject]
    BY <1>0, <1>1, <1>6 DEF TypeOK
  <2>2. sending' \in [Senders -> {"no", "save", "add", "notify"}]
    BY <1>0, <1>1 DEF TypeOK
  <2>3. QED BY <1>0, <1>1, <1>2, <1>4, <2>1, <2>2 DEF TypeOK
<1>10. SegmentsWellMade'
  <2>1. \A r \in Senders : WellMade(input'[r])
    BY <1>0, <1>6, <1>7 DEF SegmentsWellMade, WellMade
  <2>2. \A i \in DOMAIN outBuffers' : WellMade(outBuffers'[i])
    BY <1>0, <1>3, <1>4, <1>5 DEF SegmentsWellMade
  <2>3. QED BY <1>0, <1>1, <2>1, <2>2 DEF SegmentsWellMade, WellMade
<1>11. InHand'
  <2>1. \A i \in DOMAIN outBuffers' : IsMessage(outBuffers'[i])
    BY <1>0, <1>3, <1>4, <1>5 DEF InHand
  <2>2. \A r \in Senders : sending'[r] \in {"save", "add"} => IsMessage(input'[r])
    BY <1>0, <1>7, <1>8 DEF InHand
  <2>3. QED BY <1>0, <1>1, <2>1, <2>2 DEF InHand, IsMessage
<1>12. StampedLate'
  BY <1>0, <1>1, <1>4, <1>5, <1>6, <1>7, <1>8 DEF StampedLate
<1>13. WriterAlive'
  BY <1>0, <1>1 DEF WriterAlive
<1>14. QED BY <1>2, <1>9, <1>10, <1>11, <1>12, <1>13 DEF PipeInv

LEMMA NotifyStep ==
  ASSUME PipeInv, NEW s \in Senders, notify(s)
  PROVE  PipeInv'
<1>0. TypeOK /\ TableKept /\ SegmentsWellMade /\ InHand /\ StampedLate /\ WriterAlive
  BY DEF PipeInv
<1>1. /\ sending' = [sending EXCEPT ![s] = "no"]
      /\ writer' = IF writer = "waiting" THEN "test" ELSE writer
      /\ UNCHANGED <<bSaveToDisc, changes, input, outBuffers, obj, bShouldContWriterThread,
                     lastWritten, toMixer, mixerAlive, fromMixer>>
      /\ UNCHANGED idVars
  BY DEF notify, mixVars
<1>2. Ids!TypeOK' /\ TableKept'
  BY <1>0, <1>1, TableUntouched
<1>3. \A r \in Senders : sending'[r] = IF r = s THEN "no" ELSE sending[r]
  BY <1>0, <1>1 DEF TypeOK
<1>4. TypeOK'
  <2>1. sending' \in [Senders -> {"no", "save", "add", "notify"}]
    BY <1>0, <1>1 DEF TypeOK
  <2>2. QED BY <1>0, <1>1, <1>2, <2>1 DEF TypeOK
<1>5. SegmentsWellMade' /\ WriterAlive'
  BY <1>0, <1>1 DEF SegmentsWellMade, WellMade, WriterAlive
<1>6. InHand'
  BY <1>0, <1>1, <1>3 DEF InHand, IsMessage
<1>7. StampedLate'
  BY <1>0, <1>1, <1>3 DEF StampedLate
<1>8. QED BY <1>2, <1>4, <1>5, <1>6, <1>7 DEF PipeInv

(* Segments on their way keep their versions while the table changes.        *)
LEMMA JoinOrLeaveStep ==
  ASSUME PipeInv, NEW s \in Senders, joinOrLeave(s)
  PROVE  PipeInv' /\ Participants' # Participants /\ Participants' \subseteq Senders
<1>0. TypeOK /\ TableKept /\ SegmentsWellMade /\ InHand /\ StampedLate /\ WriterAlive
  BY DEF PipeInv
<1>1. /\ changes < MaxChanges /\ changes' = changes + 1
      /\ UNCHANGED <<bSaveToDisc, sending, input, outBuffers, writer, obj, bShouldContWriterThread,
                     lastWritten, toMixer, mixerAlive, fromMixer>>
  BY DEF joinOrLeave, sendVars, writeVars, mixVars
<1>2. Ids!TypeOK' /\ TableKept' /\ Participants' # Participants /\ Participants' \subseteq Senders
  <2>1. CASE s \in Participants
    BY <1>0, <2>1, LeaveKeepsTable DEF joinOrLeave, Participants
  <2>2. CASE s \notin Participants
    BY <1>0, <2>2, JoinKeepsTable DEF joinOrLeave, Participants
  <2>3. QED BY <2>1, <2>2
<1>3. changes \in Nat /\ changes' \in 0 .. MaxChanges
  BY <1>0, <1>1, BoundsAssumption DEF TypeOK
<1>4. TypeOK'
  BY <1>0, <1>1, <1>2, <1>3 DEF TypeOK
<1>5. SegmentsWellMade'
  <2>1. ASSUME NEW o \in InputObject, WellMade(o)
        PROVE  o.segment # None => o.segment.headers <= o.segment.room /\ o.segment.version <= changes'
    <3>1. CASE o.segment # None
      <4>1. o.segment \in Segment
        BY <3>1 DEF InputObject
      <4>2. o.segment.version \in Nat
        BY <4>1, BoundsAssumption DEF Segment
      <4>3. QED BY <1>1, <1>3, <2>1, <4>2 DEF WellMade
    <3>2. QED BY <3>1
  <2>2. \A i \in DOMAIN outBuffers : outBuffers[i] \in InputObject
    BY <1>0, LenProperties DEF TypeOK
  <2>3. \A r \in Senders : input[r] \in InputObject
    BY <1>0 DEF TypeOK
  <2>4. obj \in InputObject /\ lastWritten \in InputObject
    BY <1>0 DEF TypeOK
  <2>5. \A r \in Senders : WellMade(input[r])'
    BY <1>0, <1>1, <2>1, <2>3 DEF SegmentsWellMade, WellMade
  <2>6. \A i \in DOMAIN outBuffers : WellMade(outBuffers[i])'
    BY <1>0, <1>1, <2>1, <2>2 DEF SegmentsWellMade, WellMade
  <2>7. WellMade(obj)' /\ WellMade(lastWritten)'
    BY <1>0, <1>1, <2>1, <2>4 DEF SegmentsWellMade, WellMade
  <2>8. QED BY <1>1, <2>5, <2>6, <2>7 DEF SegmentsWellMade, WellMade
<1>6. InHand' /\ WriterAlive'
  BY <1>0, <1>1 DEF InHand, IsMessage, WriterAlive
<1>7. StampedLate'
  BY <1>0, <1>1 DEF StampedLate
<1>8. QED BY <1>2, <1>4, <1>5, <1>6, <1>7 DEF PipeInv

-----------------------------------------------------------------------------
(* The writer takes the front of the queue in its hand.                      *)
LEMMA RemoveStep ==
  ASSUME PipeInv, remove
  PROVE  PipeInv' /\ obj = NoObject /\ outBuffers # <<>> /\ outBuffers \in Seq(InputObject)
<1>0. TypeOK /\ TableKept /\ SegmentsWellMade /\ InHand /\ StampedLate /\ WriterAlive
  BY DEF PipeInv
<1>1. /\ writer = "loop" /\ bShouldContWriterThread /\ outBuffers # <<>>
      /\ obj' = Head(outBuffers) /\ outBuffers' = Tail(outBuffers) /\ writer' = "lookup"
      /\ UNCHANGED <<bSaveToDisc, changes, sending, input, bShouldContWriterThread, lastWritten,
                     toMixer, mixerAlive, fromMixer>>
      /\ UNCHANGED idVars
  BY DEF remove, Elsewhere, sendVars, mixVars
<1>2. Ids!TypeOK' /\ TableKept'
  BY <1>0, <1>1, TableUntouched
<1>3. outBuffers \in Seq(InputObject)
  BY <1>0 DEF TypeOK
<1>4. Len(outBuffers) \in Nat \ {0} /\ DOMAIN outBuffers = 1 .. Len(outBuffers)
  BY <1>1, <1>3, EmptySeq, LenProperties
<1>5. /\ outBuffers' \in Seq(InputObject) /\ Len(outBuffers') = Len(outBuffers) - 1
      /\ \A i \in 1 .. Len(outBuffers') : outBuffers'[i] = outBuffers[i + 1]
  BY <1>1, <1>3, HeadTailProperties
<1>6. obj' = outBuffers[1] /\ obj' \in InputObject /\ 1 \in DOMAIN outBuffers
  BY <1>1, <1>3, <1>4, HeadTailProperties
<1>7. DOMAIN outBuffers' = 1 .. Len(outBuffers')
  BY <1>5, LenProperties
<1>8. \A i \in DOMAIN outBuffers' : i + 1 \in DOMAIN outBuffers /\ outBuffers'[i] = outBuffers[i + 1]
  BY <1>4, <1>5, <1>7
<1>9. TypeOK'
  BY <1>0, <1>1, <1>2, <1>5, <1>6 DEF TypeOK
<1>10. SegmentsWellMade'
  <2>1. \A i \in DOMAIN outBuffers' : WellMade(outBuffers'[i])
    BY <1>0, <1>8 DEF SegmentsWellMade
  <2>2. WellMade(obj')
    BY <1>0, <1>6 DEF SegmentsWellMade
  <2>3. QED BY <1>0, <1>1, <2>1, <2>2 DEF SegmentsWellMade, WellMade
<1>11. InHand'
  <2>1. \A i \in DOMAIN outBuffers' : IsMessage(outBuffers'[i])
    BY <1>0, <1>8 DEF InHand
  <2>2. IsMessage(obj')
    BY <1>0, <1>6 DEF InHand
  <2>3. QED BY <1>0, <1>1, <2>1, <2>2 DEF InHand, IsMessage
<1>12. StampedLate'
  BY <1>0, <1>1, <1>6, <1>8 DEF StampedLate
<1>13. WriterAlive'
  BY <1>0, <1>1 DEF WriterAlive
<1>14. obj = NoObject
  BY <1>0, <1>1 DEF InHand
<1>15. QED BY <1>1, <1>2, <1>3, <1>9, <1>10, <1>11, <1>12, <1>13, <1>14 DEF PipeInv

(* It looks the sender up: nobody's message is dropped, a participant's gets *)
(* a segment that fits.                                                    *)
LEMMA LookupStep ==
  ASSUME PipeInv, lookup
  PROVE  /\ PipeInv'
         /\ obj # NoObject /\ obj \in InputObject /\ bShouldContWriterThread
         /\ \/ obj.sender \notin Participants /\ obj' = NoObject
            \/ obj'.sender = obj.sender /\ obj'.frame = obj.frame /\ obj' # NoObject
<1>0. TypeOK /\ TableKept /\ SegmentsWellMade /\ InHand /\ StampedLate /\ WriterAlive
  BY DEF PipeInv
<1> DEFINE o == toByteBuffer(obj)
<1>1. writer = "lookup" /\ bShouldContWriterThread /\ IsMessage(obj)
  BY <1>0 DEF lookup, InHand
<1>2. obj \in InputObject /\ obj.sender \in Senders /\ obj.frame \in Frames /\ WellMade(obj)
  BY <1>0, <1>1 DEF TypeOK, IsMessage, SegmentsWellMade
<1>3. /\ o \in InputObject /\ o.sender = obj.sender /\ o.frame = obj.frame
      /\ WellMade(o) /\ ~Overflows(o)
      /\ o.segment = None => obj.sender \notin Participants
      /\ obj.segment = None /\ o.segment # None => o.segment.version = changes
  BY <1>0, <1>2, SegmentFits
<1> HIDE DEF o
<1>4. /\ obj' = IF o.segment = None THEN NoObject ELSE o
      /\ writer' = IF o.segment = None THEN "loop" ELSE "write"
      /\ UNCHANGED <<bSaveToDisc, changes, sending, input, outBuffers, bShouldContWriterThread,
                     lastWritten, toMixer, mixerAlive, fromMixer>>
      /\ UNCHANGED idVars
  BY <1>3 DEF lookup, Elsewhere, sendVars, mixVars, o
<1>5. Ids!TypeOK' /\ TableKept'
  BY <1>0, <1>4, TableUntouched
<1>6. NoObject \in InputObject /\ NoObject.segment = None /\ NoObject.sender \notin Senders
  BY NoneAssumption DEF NoObject, InputObject
<1>7. TypeOK'
  BY <1>0, <1>3, <1>4, <1>5, <1>6 DEF TypeOK
<1>8. SegmentsWellMade'
  <2>1. WellMade(obj')
    BY <1>3, <1>4, <1>6 DEF WellMade
  <2>2. QED BY <1>0, <1>4, <2>1 DEF SegmentsWellMade, WellMade
<1>9. InHand'
  BY <1>0, <1>1, <1>2, <1>3, <1>4 DEF InHand, IsMessage
<1>10. StampedLate'
  <2>1. SUFFICES ASSUME ~bSaveToDisc PROVE StampedLate'
    BY <1>4 DEF StampedLate
  <2>2. ASSUME writer' = "write", lastWritten' # NoObject
        PROVE  obj'.segment.version >= lastWritten'.segment.version
    <3>1. o.segment # None /\ obj' = o
      BY <1>4, <2>2
    <3>2. o.segment.version = changes
      BY <1>0, <1>1, <1>3, <2>1, <3>1 DEF StampedLate
    <3>3. lastWritten \in InputObject /\ lastWritten.segment # None
      BY <1>0, <1>4, <2>2 DEF TypeOK, InHand
    <3>4. lastWritten.segment \in Segment
      BY <3>3 DEF InputObject
    <3>5. lastWritten.segment.version \in Nat /\ lastWritten.segment.version <= changes
      BY <1>0, <3>3, <3>4, BoundsAssumption DEF SegmentsWellMade, WellMade, Segment
    <3>6. changes \in Nat
      BY <1>0, BoundsAssumption DEF TypeOK
    <3>7. QED BY <1>4, <3>1, <3>2, <3>5, <3>6
  <2>3. QED BY <1>0, <1>4, <2>1, <2>2 DEF StampedLate
<1>11. WriterAlive'
  BY <1>0, <1>4 DEF WriterAlive
<1>12. obj # NoObject
  BY <1>2, <1>6
<1>13. \/ obj.sender \notin Participants /\ obj' = NoObject
       \/ obj'.sender = obj.sender /\ obj'.frame = obj.frame /\ obj' # NoObject
  BY <1>3, <1>4, <1>6
<1>14. QED BY <1>1, <1>2, <1>5, <1>7, <1>8, <1>9, <1>10, <1>11, <1>12, <1>13 DEF PipeInv

(* It writes, or finds the pipe broken.                                      *)
LEMMA WriteStep ==
  ASSUME PipeInv, write
  PROVE  /\ PipeInv'
         /\ ~bSaveToDisc /\ lastWritten # NoObject
              => lastWritten'.segment.version >= lastWritten.segment.version
         /\ obj # NoObject /\ obj' = NoObject /\ bShouldContWriterThread
         /\ \/ lastWritten' = lastWritten /\ bShouldContWriterThread' = FALSE
            \/ lastWritten' = obj /\ UNCHANGED bShouldContWriterThread
<1>0. TypeOK /\ TableKept /\ SegmentsWellMade /\ InHand /\ StampedLate /\ WriterAlive
  BY DEF PipeInv
<1>1. writer = "write" /\ bShouldContWriterThread /\ IsMessage(obj) /\ obj.segment # None
  BY <1>0 DEF write, InHand
<1>2. /\ obj' = NoObject /\ writer' = "loop"
      /\ UNCHANGED <<bSaveToDisc, changes, sending, input, outBuffers, mixerAlive, fromMixer>>
      /\ UNCHANGED idVars
  BY DEF write, GiveUp, Elsewhere, sendVars, mixVars
<1>3. \/ /\ ~mixerAlive /\ bShouldContWriterThread' = FALSE
         /\ UNCHANGED <<lastWritten, toMixer>>
      \/ /\ lastWritten' = obj /\ toMixer < PipeCap /\ toMixer' = toMixer + 1
         /\ UNCHANGED bShouldContWriterThread
  BY DEF write, GiveUp
<1>4. Ids!TypeOK' /\ TableKept'
  BY <1>0, <1>2, TableUntouched
<1>5. NoObject \in InputObject /\ NoObject.segment = None /\ NoObject # obj
  <2>1. NoObject \in InputObject /\ NoObject.segment = None
    BY DEF NoObject, InputObject
  <2>2. QED BY <1>1, <2>1
<1>6. lastWritten' = lastWritten \/ lastWritten' = obj
  BY <1>3
<1>7. TypeOK'
  <2>1. toMixer' \in 0 .. PipeCap
    BY <1>0, <1>3, BoundsAssumption DEF TypeOK
  <2>2. {obj', lastWritten'} \subseteq InputObject
    BY <1>0, <1>2, <1>5, <1>6 DEF TypeOK
  <2>3. bShouldContWriterThread' \in BOOLEAN
    BY <1>0, <1>3 DEF TypeOK
  <2>4. QED BY <1>0, <1>2, <1>4, <2>1, <2>2, <2>3 DEF TypeOK
<1>8. SegmentsWellMade'
  <2>1. WellMade(lastWritten)' /\ WellMade(obj)'
    BY <1>0, <1>2, <1>5, <1>6 DEF SegmentsWellMade, WellMade
  <2>2. QED BY <1>0, <1>2, <2>1 DEF SegmentsWellMade, WellMade
<1>9. InHand'
  BY <1>0, <1>1, <1>2, <1>6 DEF InHand, IsMessage
<1>10. StampedLate'
  BY <1>0, <1>2 DEF StampedLate
<1>11. WriterAlive'
  BY <1>0, <1>2, <1>3 DEF WriterAlive
<1>12. ASSUME ~bSaveToDisc, lastWritten # NoObject
       PROVE  lastWritten'.segment.version >= lastWritten.segment.version
  <2>1. obj.segment.version >= lastWritten.segment.version
    BY <1>0, <1>1, <1>12 DEF StampedLate
  <2>2. lastWritten \in InputObject /\ lastWritten.segment # None
    BY <1>0, <1>12 DEF TypeOK, InHand
  <2>3. lastWritten.segment.version \in Nat
    BY <2>2, BoundsAssumption DEF InputObject, Segment
  <2>4. QED BY <1>6, <2>1, <2>3
<1>13. PipeInv'
  BY <1>4, <1>7, <1>8, <1>9, <1>10, <1>11 DEF PipeInv
<1>14. QED BY <1>1, <1>2, <1>3, <1>5, <1>12, <1>13

(* It goes round its loops, waits and wakes up with empty hands.             *)
Idle == {"loop", "test", "wait", "waiting", "exited"}
LEMMA IdleStep ==
  ASSUME PipeInv, leaveInnerLoop \/ testEmpty \/ wait \/ spuriousWakeup
  PROVE  PipeInv' /\ UNCHANGED <<obj, outBuffers, lastWritten, bShouldContWriterThread>>
                  /\ UNCHANGED groupMappingTable
<1>0. TypeOK /\ TableKept /\ SegmentsWellMade /\ InHand /\ StampedLate /\ WriterAlive
  BY DEF PipeInv
<1>1. /\ writer \in Idle /\ writer' \in Idle
      /\ UNCHANGED <<bSaveToDisc, changes, sending, input, outBuffers, obj, bShouldContWriterThread,
                     lastWritten, toMixer, mixerAlive, fromMixer>>
      /\ UNCHANGED idVars
  BY DEF leaveInnerLoop, testEmpty, wait, spuriousWakeup, Elsewhere, sendVars, mixVars, Idle
<1>2. Ids!TypeOK' /\ TableKept'
  BY <1>0, <1>1, TableUntouched
<1>3. TypeOK'
  BY <1>0, <1>1, <1>2 DEF TypeOK, Idle
<1>4. SegmentsWellMade' /\ WriterAlive'
  BY <1>0, <1>1 DEF SegmentsWellMade, WellMade, WriterAlive
<1>5. InHand'
  BY <1>0, <1>1 DEF InHand, IsMessage, Idle
<1>6. StampedLate'
  BY <1>0, <1>1 DEF StampedLate, Idle
<1>7. QED BY <1>1, <1>2, <1>3, <1>4, <1>5, <1>6 DEF PipeInv, idVars

(* mix_coder and the reader touch neither the queue nor the table.           *)
LEMMA MixerStep ==
  ASSUME PipeInv, mixerRuns \/ mixerDies \/ tryToRead
  PROVE  PipeInv' /\ UNCHANGED <<obj, outBuffers, lastWritten, bShouldContWriterThread>>
                  /\ UNCHANGED groupMappingTable
<1>0. TypeOK /\ TableKept /\ SegmentsWellMade /\ InHand /\ StampedLate /\ WriterAlive
  BY DEF PipeInv
<1>1. /\ UNCHANGED <<bSaveToDisc, changes, sending, input, outBuffers, writer, obj,
                     bShouldContWriterThread, lastWritten>>
      /\ UNCHANGED idVars
  BY DEF mixerRuns, mixerDies, tryToRead, OutsideMixer, sendVars, writeVars
<1>2. toMixer' \in 0 .. PipeCap /\ fromMixer' \in 0 .. PipeCap + 1
  BY <1>0, BoundsAssumption DEF mixerRuns, mixerDies, tryToRead, TypeOK
<1>3. mixerAlive' \in BOOLEAN /\ (mixerAlive' => mixerAlive)
  <2>1. mixerAlive' = FALSE \/ mixerAlive' = mixerAlive
    BY Zenon DEF mixerRuns, mixerDies, tryToRead
  <2>2. mixerAlive \in BOOLEAN
    BY <1>0 DEF TypeOK
  <2>3. CASE mixerAlive' = FALSE
    BY <2>3
  <2>4. CASE mixerAlive' = mixerAlive
    BY <2>2, <2>4
  <2>5. QED BY <2>1, <2>3, <2>4
<1>4. Ids!TypeOK' /\ TableKept'
  BY <1>0, <1>1, TableUntouched
<1>5. TypeOK'
  BY <1>0, <1>1, <1>2, <1>3, <1>4 DEF TypeOK
<1>6. SegmentsWellMade' /\ WriterAlive'
  BY <1>0, <1>1, <1>3 DEF SegmentsWellMade, WellMade, WriterAlive
<1>7. InHand' /\ StampedLate'
  BY <1>0, <1>1 DEF InHand, IsMessage, StampedLate
<1>8. QED BY <1>1, <1>4, <1>5, <1>6, <1>7 DEF PipeInv, idVars

-----------------------------------------------------------------------------
LEMMA InitStep ==
  ASSUME Init
  PROVE  PipeInv
<1>1. Ids!TypeOK /\ TableKept
  BY InitKeepsTable
<1>2. NoObject \in InputObject /\ NoObject.segment = None
  BY DEF NoObject, InputObject
<1>3. \A s \in Senders : input[s] = NoObject /\ sending[s] = "no"
  BY DEF Init
<1>4. outBuffers \in Seq(InputObject) /\ DOMAIN outBuffers = {}
  <2>1. outBuffers = <<>>
    BY DEF Init
  <2>2. QED BY <2>1, EmptySeq
<1>5. TypeOK
  BY <1>1, <1>2, <1>4, BoundsAssumption DEF Init, TypeOK
<1>6. SegmentsWellMade /\ InHand /\ StampedLate /\ WriterAlive
  BY <1>2, <1>3, <1>4 DEF Init, SegmentsWellMade, WellMade, InHand, StampedLate, WriterAlive
<1>7. QED BY <1>1, <1>5, <1>6 DEF PipeInv

LEMMA NextStep ==
  ASSUME PipeInv, [Next]_vars
  PROVE  PipeInv'
<1>1. ASSUME NEW s \in Senders, pushInputMessage(s) \/ Sender(s) \/ joinOrLeave(s)
      PROVE  PipeInv'
  BY <1>1, PushStep, SaveStep, AddStep, NotifyStep, JoinOrLeaveStep DEF Sender
<1>2. CASE Writer \/ spuriousWakeup
  BY <1>2, RemoveStep, LookupStep, WriteStep, IdleStep DEF Writer
<1>3. CASE mixerRuns \/ mixerDies \/ tryToRead
  BY <1>3, MixerStep
<1>4. CASE UNCHANGED vars
  <2>0. TypeOK /\ TableKept /\ SegmentsWellMade /\ InHand /\ StampedLate /\ WriterAlive
    BY DEF PipeInv
  <2>1. UNCHANGED <<bSaveToDisc, changes, sending, input, outBuffers, writer, obj,
                    bShouldContWriterThread, lastWritten, toMixer, mixerAlive, fromMixer>>
        /\ UNCHANGED idVars
    BY <1>4 DEF vars, sendVars, writeVars, mixVars
  <2>2. Ids!TypeOK' /\ TableKept'
    BY <2>0, <2>1, TableUntouched
  <2>3. TypeOK'
    BY <2>0, <2>1, <2>2 DEF TypeOK
  <2>4. SegmentsWellMade' /\ WriterAlive'
    BY <2>0, <2>1 DEF SegmentsWellMade, WellMade, WriterAlive
  <2>5. InHand' /\ StampedLate'
    BY <2>0, <2>1 DEF InHand, IsMessage, StampedLate
  <2>6. QED BY <2>2, <2>3, <2>4, <2>5 DEF PipeInv
<1>5. QED BY <1>1, <1>2, <1>3, <1>4 DEF Next

(* The inductive invariant holds of the pipe.                                *)
THEOREM PipeInvariant == Spec => []PipeInv
<1>1. Init => PipeInv
  BY InitStep
<1>2. PipeInv /\ [Next]_vars => PipeInv'
  BY NextStep
<1>3. QED BY <1>1, <1>2, PTL DEF Spec

(* Every variable keeps its type; both pipes stay within their capacity, the   *)
(* output that mix_coder is blocked in writing counted.                     *)
THEOREM TypeCorrect == Spec => []TypeOK
<1>1. PipeInv => TypeOK
  BY DEF PipeInv
<1>2. QED BY <1>1, PipeInvariant, PTL

(* No segment, however late it is made and whoever has joined or left since    *)
(* its frame was queued, overflows its buffer and ends the writer: it stops *)
(* only after mix_coder has.                                               *)
THEOREM WriterNeverStops == Spec => []WriterAlive
<1>1. PipeInv => WriterAlive
  BY DEF PipeInv
<1>2. QED BY <1>1, PipeInvariant, PTL

(* Segments reach mix_coder in the order of the tables they were made from:    *)
(* a mask never goes back to what the table was before.                    *)
THEOREM MasksNeverGoBack == Spec => MasksInOrder
<1> DEFINE Ordered == ~bSaveToDisc /\ lastWritten # NoObject
                        => lastWritten'.segment.version >= lastWritten.segment.version
<1>1. ASSUME PipeInv, [Next]_vars PROVE [Ordered]_vars
  <2>1. CASE lastWritten' = lastWritten
    <3>1. ASSUME lastWritten # NoObject
          PROVE  lastWritten.segment.version \in Nat
      <4>1. lastWritten \in InputObject /\ lastWritten.segment # None
        BY <1>1, <3>1 DEF PipeInv, TypeOK, InHand
      <4>2. QED BY <4>1, BoundsAssumption DEF InputObject, Segment
    <3>2. QED BY <2>1, <3>1
  <2>2. CASE write
    BY <1>1, <2>2, WriteStep
  <2>3. write \/ lastWritten' = lastWritten
    <3>1. ASSUME NEW s \in Senders, pushInputMessage(s) \/ Sender(s) \/ joinOrLeave(s)
          PROVE  lastWritten' = lastWritten
      BY <3>1 DEF pushInputMessage, Sender, saveToDisc, add, notify, joinOrLeave, writeVars
    <3>2. CASE Writer \/ spuriousWakeup
      BY <3>2 DEF Writer, remove, lookup, GiveUp, leaveInnerLoop, testEmpty, wait, spuriousWakeup
    <3>3. CASE mixerRuns \/ mixerDies \/ tryToRead
      BY <1>1, <3>3, MixerStep
    <3>4. CASE UNCHANGED vars
      BY <3>4 DEF vars, writeVars
    <3>5. QED BY <1>1, <3>1, <3>2, <3>3, <3>4 DEF Next
  <2>4. QED BY <2>1, <2>2, <2>3
<1>2. PipeInv /\ [Next]_vars => [Ordered]_vars
  BY <1>1
<1>3. MasksInOrder <=> [][Ordered]_vars
  BY DEF MasksInOrder
<1> HIDE DEF Ordered
<1>4. QED BY <1>2, <1>3, PipeInvariant, PTL DEF Spec

-----------------------------------------------------------------------------
(* The queue without its segments, which is what MediaChannel sees.          *)
PlainObject == [sender : Senders \cup {None}, frame : Frames \cup {None}]

LEMMA PlainSequence ==
  ASSUME NEW q \in Seq(InputObject)
  PROVE  /\ PlainOnes(q) \in Seq(PlainObject) /\ Len(PlainOnes(q)) = Len(q)
         /\ \A i \in 1 .. Len(q) : PlainOnes(q)[i] = Plain(q[i])
<1>1. Len(q) \in Nat /\ \A i \in 1 .. Len(q) : q[i] \in InputObject
  BY LenProperties, ElementOfSeq
<1>2. \A i \in 1 .. Len(q) : Plain(q[i]) \in PlainObject
  BY <1>1 DEF Plain, PlainObject, InputObject
<1>3. PlainOnes(q) \in [1 .. Len(q) -> PlainObject]
  BY <1>2 DEF PlainOnes
<1>4. PlainOnes(q) \in Seq(PlainObject)
  BY <1>1, <1>3, SeqDef
<1>5. Len(PlainOnes(q)) = Len(q)
  BY <1>1, <1>3, <1>4, LenProperties
<1>6. QED BY <1>4, <1>5 DEF PlainOnes

LEMMA PlainAppend ==
  ASSUME NEW q \in Seq(InputObject), NEW o \in InputObject
  PROVE  PlainOnes(Append(q, o)) = Append(PlainOnes(q), Plain(o))
<1> DEFINE l == PlainOnes(Append(q, o))
           r == Append(PlainOnes(q), Plain(o))
<1>1. /\ Append(q, o) \in Seq(InputObject) /\ Len(Append(q, o)) = Len(q) + 1 /\ Len(q) \in Nat
      /\ \A i \in 1 .. Len(q) : Append(q, o)[i] = q[i]
      /\ Append(q, o)[Len(q) + 1] = o
  BY AppendProperties, LenProperties
<1>2. /\ l \in Seq(PlainObject) /\ Len(l) = Len(q) + 1
      /\ \A i \in 1 .. Len(q) + 1 : l[i] = Plain(Append(q, o)[i])
  BY <1>1, PlainSequence
<1>3. /\ PlainOnes(q) \in Seq(PlainObject) /\ Len(PlainOnes(q)) = Len(q)
      /\ \A i \in 1 .. Len(q) : PlainOnes(q)[i] = Plain(q[i])
  BY PlainSequence
<1>4. Plain(o) \in PlainObject
  BY DEF Plain, PlainObject, InputObject
<1>5. /\ r \in Seq(PlainObject) /\ Len(r) = Len(q) + 1
      /\ \A i \in 1 .. Len(q) : r[i] = Plain(q[i])
      /\ r[Len(q) + 1] = Plain(o)
  BY <1>3, <1>4, AppendProperties
<1> HIDE DEF l, r
<1>6. \A i \in 1 .. Len(q) + 1 : l[i] = r[i]
  BY <1>1, <1>2, <1>5
<1>7. l = r
  BY <1>2, <1>5, <1>6, SeqEqual
<1>8. QED BY <1>7 DEF l, r

(* With an object in hand the abstract queue has that one in front.          *)
LEMMA OneInFront ==
  ASSUME NEW q \in Seq(InputObject), NEW o \in InputObject
  PROVE  /\ <<o>> \o q \in Seq(InputObject) /\ Len(<<o>> \o q) = Len(q) + 1
         /\ (<<o>> \o q)[1] = o /\ \A i \in 1 .. Len(q) : (<<o>> \o q)[i + 1] = q[i]
<1>1. <<o>> \in Seq(InputObject) /\ Len(<<o>>) = 1 /\ <<o>>[1] = o
  OBVIOUS
<1>2. Len(q) \in Nat
  BY LenProperties
<1>3. /\ <<o>> \o q \in Seq(InputObject) /\ Len(<<o>> \o q) = 1 + Len(q)
      /\ \A i \in 1 .. 1 + Len(q) : (<<o>> \o q)[i] = IF i <= 1 THEN <<o>>[i] ELSE q[i - 1]
  BY <1>1, ConcatProperties
<1>4. (<<o>> \o q)[1] = o
  BY <1>1, <1>2, <1>3
<1>5. ASSUME NEW i \in 1 .. Len(q)
      PROVE  (<<o>> \o q)[i + 1] = q[i]
  <2>1. i + 1 \in 1 .. 1 + Len(q) /\ ~(i + 1 <= 1) /\ (i + 1) - 1 = i
    BY <1>2
  <2>2. QED BY <1>3, <2>1
<1>6. QED BY <1>2, <1>3, <1>4, <1>5

LEMMA PlainInFront ==
  ASSUME NEW q \in Seq(InputObject), NEW o \in InputObject
  PROVE  LET front == PlainOnes(<<o>> \o q)
         IN  front # <<>> /\ Head(front) = Plain(o) /\ Tail(front) = PlainOnes(q)
<1> DEFINE front == PlainOnes(<<o>> \o q)
           rest == PlainOnes(q)
<1>1. /\ <<o>> \o q \in Seq(InputObject) /\ Len(<<o>> \o q) = Len(q) + 1 /\ Len(q) \in Nat
      /\ (<<o>> \o q)[1] = o /\ \A i \in 1 .. Len(q) : (<<o>> \o q)[i + 1] = q[i]
  BY OneInFront, LenProperties
<1>2. /\ front \in Seq(PlainObject) /\ Len(front) = Len(q) + 1
      /\ \A i \in 1 .. Len(q) + 1 : front[i] = Plain((<<o>> \o q)[i])
  BY <1>1, PlainSequence
<1>3. /\ rest \in Seq(PlainObject) /\ Len(rest) = Len(q)
      /\ \A i \in 1 .. Len(q) : rest[i] = Plain(q[i])
  BY PlainSequence
<1> HIDE DEF front, rest
<1>4. front # <<>>
  BY <1>1, <1>2, EmptySeq
<1>5. Head(front) = Plain(o)
  BY <1>1, <1>2, <1>4
<1>6. /\ Tail(front) \in Seq(PlainObject) /\ Len(Tail(front)) = Len(q)
      /\ \A i \in 1 .. Len(q) : Tail(front)[i] = front[i + 1]
  BY <1>1, <1>2, <1>4, HeadTailProperties
<1>7. \A i \in 1 .. Len(q) : Tail(front)[i] = rest[i]
  <2>1. ASSUME NEW i \in 1 .. Len(q) PROVE Tail(front)[i] = rest[i]
    <3>1. i + 1 \in 1 .. Len(q) + 1
      BY <1>1
    <3>2. QED BY <1>1, <1>2, <1>3, <1>6, <3>1
  <2>2. QED BY <2>1
<1>8. Tail(front) = rest
  BY <1>3, <1>6, <1>7, SeqEqual
<1>9. QED BY <1>4, <1>5, <1>8 DEF front, rest

(* The abstract queue looks the same as long as the plain objects do.        *)
LEMMA PlainLooksTheSame ==
  ASSUME NEW q \in Seq(InputObject), NEW o \in InputObject, NEW p \in InputObject,
         Plain(o) = Plain(p)
  PROVE  PlainOnes(<<o>> \o q) = PlainOnes(<<p>> \o q)
<1> DEFINE l == PlainOnes(<<o>> \o q)
           r == PlainOnes(<<p>> \o q)
<1>0. Len(q) \in Nat
  BY LenProperties
<1>1. /\ l \in Seq(PlainObject) /\ Len(l) = Len(q) + 1
      /\ \A i \in 1 .. Len(q) + 1 : l[i] = Plain((<<o>> \o q)[i])
  BY OneInFront, PlainSequence
<1>2. /\ r \in Seq(PlainObject) /\ Len(r) = Len(q) + 1
      /\ \A i \in 1 .. Len(q) + 1 : r[i] = Plain((<<p>> \o q)[i])
  BY OneInFront, PlainSequence
<1> HIDE DEF l, r
<1>3. ASSUME NEW i \in 1 .. Len(q) + 1
      PROVE  l[i] = r[i]
  <2>1. CASE i = 1
    BY <1>1, <1>2, <2>1, OneInFront
  <2>2. CASE i # 1
    <3>1. i - 1 \in 1 .. Len(q) /\ (i - 1) + 1 = i
      BY <1>0, <2>2
    <3>2. (<<o>> \o q)[i] = q[i - 1] /\ (<<p>> \o q)[i] = q[i - 1]
      BY <3>1, OneInFront
    <3>3. QED BY <1>1, <1>2, <3>2
  <2>3. QED BY <2>1, <2>2
<1>4. l = r
  BY <1>1, <1>2, <1>3, SeqEqual
<1>5. QED BY <1>4 DEF l, r

LEMMA InitMaps ==
  ASSUME Init
  PROVE  Abstract!Init
<1>1. PipeInv
  BY InitStep
<1>2. outBuffers = <<>> /\ obj = NoObject /\ lastWritten = NoObject /\ bShouldContWriterThread = TRUE
  BY DEF Init
<1>3. PlainOnes(Queued) = <<>>
  <2>1. Queued = <<>> /\ Queued \in Seq(InputObject)
    BY <1>2, EmptySeq DEF Queued
  <2>2. PlainOnes(Queued) \in Seq(PlainObject) /\ Len(PlainOnes(Queued)) = 0
    BY <2>1, PlainSequence, EmptySeq
  <2>3. QED BY <2>2, EmptySeq
<1>4. Participants \subseteq {SenderOf(m) : m \in [sender : Senders, frame : Frames]}
  <2>1. PICK f \in Frames : TRUE
    BY SendersAssumption
  <2>2. \A s \in Senders : [sender |-> s, frame |-> f] \in [sender : Senders, frame : Frames]
                           /\ SenderOf([sender |-> s, frame |-> f]) = s
    BY DEF SenderOf
  <2>3. QED BY <2>2 DEF Participants
<1>5. QED BY <1>2, <1>3, <1>4 DEF Abstract!Init

(* Every step is one of the channel's or changes nothing that it sees.       *)
LEMMA StepMaps ==
  ASSUME PipeInv, PipeInv', [Next]_vars
  PROVE  [Abstract!Next]_(Abstract!vars)
<1>0. TypeOK /\ InHand /\ TypeOK' /\ InHand'
  BY DEF PipeInv
<1>1. outBuffers \in Seq(InputObject) /\ obj \in InputObject
  BY <1>0 DEF TypeOK
<1>2. NoObject \notin {o \in InputObject : IsMessage(o)}
  BY NoneAssumption DEF NoObject, IsMessage
<1>3. ASSUME UNCHANGED <<Queued, lastWritten, bShouldContWriterThread, Participants>>
      PROVE  UNCHANGED Abstract!vars
  BY <1>3 DEF Abstract!vars
<1>4. ASSUME UNCHANGED groupMappingTable
      PROVE  UNCHANGED Participants
  BY <1>4 DEF Participants
<1>5. ASSUME UNCHANGED <<outBuffers, obj>>
      PROVE  UNCHANGED Queued
  BY <1>5 DEF Queued
<1>6. ASSUME NEW s \in Senders, pushInputMessage(s) \/ saveToDisc(s) \/ notify(s)
      PROVE  UNCHANGED Abstract!vars
  <2>1. UNCHANGED <<groupMappingTable, outBuffers, obj, lastWritten, bShouldContWriterThread>>
    BY <1>6 DEF pushInputMessage, saveToDisc, notify, idVars, writeVars
  <2>2. QED BY <1>3, <1>4, <1>5, <2>1
<1>7. ASSUME NEW s \in Senders, joinOrLeave(s)
      PROVE  Abstract!JoinOrLeave
  <2>1. Participants' # Participants
    BY <1>7, JoinOrLeaveStep
  <2>2. UNCHANGED <<outBuffers, obj, lastWritten, bShouldContWriterThread>>
    BY <1>7 DEF joinOrLeave, writeVars
  <2>3. UNCHANGED Queued
    BY <1>5, <2>2
  <2>4. QED BY <2>1, <2>2, <2>3 DEF Abstract!JoinOrLeave
<1>8. ASSUME NEW s \in Senders, add(s)
      PROVE  Abstract!Accept
  <2>1. /\ sending[s] = "add" /\ outBuffers' = Append(outBuffers, input[s])
        /\ UNCHANGED <<groupMappingTable, obj, lastWritten, bShouldContWriterThread>>
    BY <1>8 DEF add, idVars, writeVars
  <2>2. input[s] \in InputObject /\ IsMessage(input[s])
    BY <1>0, <2>1 DEF TypeOK, InHand
  <2>3. Plain(input[s]) \in [sender : Senders, frame : Frames]
    BY <2>2 DEF Plain, IsMessage
  <2>4. Queued \in Seq(InputObject) /\ Queued' = Append(Queued, input[s])
    <3>1. CASE obj = NoObject
      BY <1>1, <2>1, <3>1 DEF Queued
    <3>2. CASE obj # NoObject
      <4>1. <<obj>> \in Seq(InputObject) /\ <<input[s]>> \in Seq(InputObject)
        BY <1>1, <2>2
      <4>2. Append(outBuffers, input[s]) = outBuffers \o <<input[s]>>
        BY <1>1, <2>2, AppendIsConcat
      <4>3. <<obj>> \o outBuffers \in Seq(InputObject)
        BY <1>1, OneInFront
      <4>4. Append(<<obj>> \o outBuffers, input[s]) = (<<obj>> \o outBuffers) \o <<input[s]>>
        BY <2>2, <4>3, AppendIsConcat
      <4>5. (<<obj>> \o outBuffers) \o <<input[s]>> = <<obj>> \o (outBuffers \o <<input[s]>>)
        BY <1>1, <4>1, ConcatAssociative
      <4>6. QED BY <2>1, <3>2, <4>2, <4>3, <4>4, <4>5 DEF Queued
    <3>3. QED BY <3>1, <3>2
  <2>5. PlainOnes(Queued)' = Append(PlainOnes(Queued), Plain(input[s]))
    BY <2>2, <2>4, PlainAppend DEF PlainOnes
  <2>6. UNCHANGED Participants
    BY <1>4, <2>1
  <2>7. QED BY <2>1, <2>3, <2>5, <2>6 DEF Abstract!Accept
<1>9. CASE remove
  <2>1. /\ obj = NoObject /\ outBuffers # <<>>
        /\ obj' = Head(outBuffers) /\ outBuffers' = Tail(outBuffers) /\ writer' = "lookup"
        /\ UNCHANGED <<groupMappingTable, lastWritten, bShouldContWriterThread>>
    BY <1>9, RemoveStep DEF PipeInv, remove, Elsewhere, idVars
  <2>2. obj' \in InputObject /\ obj' # NoObject
    BY <1>0, <1>2, <2>1 DEF InHand, TypeOK
  <2>3. <<Head(outBuffers)>> \o Tail(outBuffers) = outBuffers
    <3>1. /\ Head(outBuffers) \in InputObject /\ Tail(outBuffers) \in Seq(InputObject)
          /\ Len(Tail(outBuffers)) = Len(outBuffers) - 1
          /\ \A i \in 1 .. Len(Tail(outBuffers)) : Tail(outBuffers)[i] = outBuffers[i + 1]
      BY <1>1, <2>1, HeadTailProperties
    <3>2. Len(outBuffers) \in Nat \ {0} /\ Head(outBuffers) = outBuffers[1]
      BY <1>1, <2>1, EmptySeq
    <3> DEFINE again == <<Head(outBuffers)>> \o Tail(outBuffers)
    <3>3. /\ again \in Seq(InputObject) /\ Len(again) = Len(Tail(outBuffers)) + 1
          /\ again[1] = Head(outBuffers)
          /\ \A i \in 1 .. Len(Tail(outBuffers)) : again[i + 1] = Tail(outBuffers)[i]
      BY <3>1, OneInFront
    <3> HIDE DEF again
    <3>4. ASSUME NEW i \in 1 .. Len(again)
          PROVE  again[i] = outBuffers[i]
      <4>1. CASE i = 1
        BY <3>2, <3>3, <4>1
      <4>2. CASE i # 1
        <5>1. i - 1 \in 1 .. Len(Tail(outBuffers)) /\ (i - 1) + 1 = i
          BY <3>1, <3>2, <3>3, <4>2
        <5>2. QED BY <3>1, <3>3, <5>1
      <4>3. QED BY <4>1, <4>2
    <3>5. again = outBuffers
      BY <1>1, <3>1, <3>2, <3>3, <3>4, SeqEqual
    <3>6. QED BY <3>5 DEF again
  <2>4. UNCHANGED Queued
    BY <2>1, <2>2, <2>3 DEF Queued
  <2>5. QED BY <1>3, <1>4, <2>1, <2>4
<1>10. CASE lookup
  <2>1. /\ obj # NoObject /\ bShouldContWriterThread
        /\ UNCHANGED <<groupMappingTable, outBuffers, lastWritten, bShouldContWriterThread>>
        /\ \/ obj.sender \notin Participants /\ obj' = NoObject
           \/ obj'.sender = obj.sender /\ obj'.frame = obj.frame /\ obj' # NoObject
    <3>1. obj # NoObject /\ bShouldContWriterThread
      BY <1>10, LookupStep
    <3>2. \/ obj.sender \notin Participants /\ obj' = NoObject
          \/ obj'.sender = obj.sender /\ obj'.frame = obj.frame /\ obj' # NoObject
      BY <1>10, LookupStep
    <3>3. PipeInv'
      OBVIOUS
    <3>4. UNCHANGED <<groupMappingTable, outBuffers, lastWritten, bShouldContWriterThread>>
      <4>1. writer = "lookup" /\ IsMessage(obj) /\ obj.sender \in Senders /\ WellMade(obj)
        BY <1>10 DEF PipeInv, lookup, InHand, IsMessage, SegmentsWellMade
      <4>2. ~Overflows(toByteBuffer(obj))
        BY <1>1, <4>1, SegmentFits DEF PipeInv
      <4>3. QED BY <1>10, <4>2 DEF lookup, Elsewhere, idVars
    <3>5. QED BY <3>1, <3>2, <3>4
  <2>2. Queued = <<obj>> \o outBuffers
    BY <2>1 DEF Queued
  <2>3. /\ PlainOnes(Queued) # <<>> /\ Head(PlainOnes(Queued)) = Plain(obj)
        /\ Tail(PlainOnes(Queued)) = PlainOnes(outBuffers)
    BY <1>1, <2>2, PlainInFront
  <2>4. UNCHANGED Participants
    BY <1>4, <2>1
  <2>5. CASE obj.sender \notin Participants /\ obj' = NoObject
    <3>1. Queued' = outBuffers
      BY <2>1, <2>5 DEF Queued
    <3>2. PlainOnes(Queued)' = Tail(PlainOnes(Queued))
      BY <2>3, <3>1 DEF PlainOnes
    <3>3. SenderOf(Head(PlainOnes(Queued))) \notin Participants
      BY <2>3, <2>5 DEF SenderOf, Plain
    <3>4. Abstract!LeaveOut
      BY <2>1, <2>3, <2>4, <3>2, <3>3 DEF Abstract!LeaveOut
    <3>5. QED BY <3>4 DEF Abstract!Next
  <2>6. CASE obj'.sender = obj.sender /\ obj'.frame = obj.frame /\ obj' # NoObject
    <3>1. obj' \in InputObject /\ Plain(obj') = Plain(obj)
      BY <1>0, <2>6 DEF TypeOK, Plain
    <3>2. Queued' = <<obj'>> \o outBuffers
      BY <2>1, <2>6 DEF Queued
    <3>3. PlainOnes(Queued') = PlainOnes(Queued)
      BY <1>1, <2>2, <3>1, <3>2, PlainLooksTheSame
    <3>4. QED BY <2>1, <2>4, <3>3 DEF Abstract!vars, PlainOnes
  <2>7. QED BY <2>1, <2>5, <2>6
<1>11. CASE write
  <2>1. /\ obj # NoObject /\ obj' = NoObject /\ bShouldContWriterThread
        /\ UNCHANGED <<groupMappingTable, outBuffers>>
        /\ \/ lastWritten' = lastWritten /\ bShouldContWriterThread' = FALSE
           \/ lastWritten' = obj /\ UNCHANGED bShouldContWriterThread
    <3>1. UNCHANGED <<groupMappingTable, outBuffers>>
      BY <1>11 DEF write, GiveUp, Elsewhere, idVars
    <3>2. obj # NoObject /\ obj' = NoObject /\ bShouldContWriterThread
      BY <1>11, WriteStep
    <3>3. \/ lastWritten' = lastWritten /\ bShouldContWriterThread' = FALSE
          \/ lastWritten' = obj /\ UNCHANGED bShouldContWriterThread
      BY <1>11, WriteStep
    <3>4. QED BY <3>1, <3>2, <3>3
  <2>2. Queued = <<obj>> \o outBuffers /\ Queued' = outBuffers
    BY <2>1 DEF Queued
  <2>3. /\ PlainOnes(Queued) # <<>> /\ Head(PlainOnes(Queued)) = Plain(obj)
        /\ Tail(PlainOnes(Queued)) = PlainOnes(outBuffers)
    BY <1>1, <2>2, PlainInFront
  <2>4. PlainOnes(Queued)' = Tail(PlainOnes(Queued))
    BY <2>2, <2>3 DEF PlainOnes
  <2>5. UNCHANGED Participants
    BY <1>4, <2>1
  <2>6. CASE lastWritten' = lastWritten /\ bShouldContWriterThread' = FALSE
    BY <2>3, <2>4, <2>5, <2>6 DEF Abstract!Next, Abstract!Break
  <2>7. CASE lastWritten' = obj /\ UNCHANGED bShouldContWriterThread
    BY <2>1, <2>3, <2>4, <2>5, <2>7 DEF Abstract!Next, Abstract!Deliver
  <2>8. QED BY <2>1, <2>6, <2>7
<1>12. CASE leaveInnerLoop \/ testEmpty \/ wait \/ spuriousWakeup
  BY <1>3, <1>4, <1>5, <1>12, IdleStep
<1>13. CASE mixerRuns \/ mixerDies \/ tryToRead
  BY <1>3, <1>4, <1>5, <1>13, MixerStep
<1>14. CASE UNCHANGED vars
  <2>1. UNCHANGED <<groupMappingTable, outBuffers, obj, lastWritten, bShouldContWriterThread>>
    BY <1>14 DEF vars, idVars, writeVars
  <2>2. QED BY <1>3, <1>4, <1>5, <2>1
<1>15. QED
  BY <1>6, <1>7, <1>8, <1>9, <1>10, <1>11, <1>12, <1>13, <1>14 DEF Next, Sender, Writer, Abstract!Next

(* The pipe implements the channel: one queue for all participants, each       *)
(* message written once and in order, and left out only when its sender is  *)
(* no participant any more.                                                *)
THEOREM PipeImplementsChannel == Spec => ImplementsMediaChannel
<1>1. Init => Abstract!Init
  BY InitMaps
<1>2. PipeInv /\ PipeInv' /\ [Next]_vars => [Abstract!Next]_(Abstract!vars)
  BY StepMaps
<1>3. QED BY <1>1, <1>2, PipeInvariant, PTL DEF Spec, ImplementsMediaChannel, Abstract!Spec
=============================================================================
