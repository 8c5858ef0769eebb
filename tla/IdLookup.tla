------------------------------ MODULE IdLookup ------------------------------
(***************************************************************************)
(* IdLookup.java: the table that gives every published stream the two      *)
(* numbers the mixing path knows it by.                                    *)
(*                                                                         *)
(*   mixerId   the slot of the stream in mix_coder, and its bit in the     *)
(*             mask of every input segment;                                *)
(*   streamId  the number of its mixed stream on the all-in-one RTMP       *)
(*             connection.                                                 *)
(*                                                                         *)
(* Every public method holds syncObj from its first to its last access, so *)
(* a method is one action here.  The two BitSets are the sets of the bits  *)
(* they hold; the HashMap is a function on the names it maps.              *)
(***************************************************************************)
EXTENDS Integers, FiniteSets

CONSTANTS
  Names,             \* the stream names that may be published
  AllInOneNames,     \* the spellings equalsIgnoreCase takes for "allinone"
  KaraokeNames,      \* the spellings it takes for "karaoke"
  MAX_STREAM_COUNT   \* the slots mix_coder has for streams it mixes

ASSUME NamesAssumption ==
  /\ IsFiniteSet(Names)
  /\ AllInOneNames \cap KaraokeNames = {}
ASSUME MaxAssumption == MAX_STREAM_COUNT \in Nat \ {0}

VARIABLES
  groupMappingTable,   \* name -> [mixerId, streamId]
  totalInputStreams,   \* entries created less entries deleted
  reservedStreams,     \* bits of the stream id BitSet
  mixerStreams,        \* bits of the mixer id BitSet
  contractKept         \* history: every call so far kept the callers' contract

idVars == <<groupMappingTable, totalInputStreams, reservedStreams, mixerStreams>>
vars   == <<groupMappingTable, totalInputStreams, reservedStreams, mixerStreams,
            contractKept>>

ALL_IN_ONE_STREAM_MIXER_ID == MAX_STREAM_COUNT
KARAOKE_STREAM_MIXER_ID    == MAX_STREAM_COUNT + 68
TOTAL_EXCLUDE_COUNT        == 2

(* The streams that are outputs or sources only and take no mixer bit. *)
Excluded == AllInOneNames \cup KaraokeNames
Mapped   == DOMAIN groupMappingTable

(* The scan "for (i = 0; true; i++) if (!bits.get(i))" of both reserve      *)
(* methods: the lowest bit that is not set.                                *)
IsLowestClear(i, bits) == i \notin bits /\ \A j \in 0 .. i - 1 : j \in bits
LowestClear(bits) == CHOOSE i \in 0 .. Cardinality(bits) : IsLowestClear(i, bits)

reserveMixerId(name) ==
  IF name \in AllInOneNames THEN ALL_IN_ONE_STREAM_MIXER_ID
  ELSE IF name \in KaraokeNames THEN KARAOKE_STREAM_MIXER_ID
  ELSE LowestClear(mixerStreams)

(* Mutated form: the id is the BitSet index itself.                        *)
reserveStreamId_ZeroBased == LowestClear(reservedStreams)

reserveStreamId == LowestClear(reservedStreams) + 1

(* Mutated form: the loop stops before bit 0.                               *)
MixerMask_SkipsBitZero == mixerStreams \cap (1 .. MAX_STREAM_COUNT - 1)

(* getMixerMask looks at the first MAX_STREAM_COUNT bits only.             *)
MixerMask == mixerStreams \cap (0 .. MAX_STREAM_COUNT - 1)

(* The two lookups: -1 stands for "no such entry".                         *)
lookupStreamIdOf(mixerId) ==
  LET owners == {n \in Mapped : groupMappingTable[n].mixerId = mixerId}
  IN  IF owners = {} THEN {-1} ELSE {groupMappingTable[n].streamId : n \in owners}
lookupStreamId(name) ==
  IF name \in Mapped THEN groupMappingTable[name].streamId ELSE -1
lookupMixerIdAndMask(name) ==
  IF name \in Mapped
    THEN [mixerId |-> groupMappingTable[name].mixerId,
          mask    |-> MixerMask,
          total   |-> totalInputStreams - TOTAL_EXCLUDE_COUNT]
    ELSE [mixerId |-> -1, mask |-> {}, total |-> 0]

-----------------------------------------------------------------------------
Init ==
  /\ groupMappingTable = [n \in {} |-> 0]
  /\ totalInputStreams = 0
  /\ reservedStreams = {}
  /\ mixerStreams = {}
  /\ contractKept = TRUE

(* Mutated form: the stream id bit is left clear.                           *)
createNewEntry_StreamBitUnset(name) ==
  LET entry == [mixerId |-> reserveMixerId(name), streamId |-> reserveStreamId]
  IN  /\ groupMappingTable' =
           [n \in Mapped \cup {name} |-> IF n = name THEN entry ELSE groupMappingTable[n]]
      /\ totalInputStreams' = totalInputStreams + 1
      /\ UNCHANGED reservedStreams
      /\ mixerStreams' =
           IF name \in Excluded THEN mixerStreams ELSE mixerStreams \cup {entry.mixerId}

(* createNewEntry puts the entry whether or not the name is mapped: an      *)
(* entry that is replaced keeps its bits set and stays counted.            *)
createNewEntry(name) ==
  LET entry == [mixerId |-> reserveMixerId(name), streamId |-> reserveStreamId]
  IN  /\ groupMappingTable' =
           [n \in Mapped \cup {name} |-> IF n = name THEN entry ELSE groupMappingTable[n]]
      /\ totalInputStreams' = totalInputStreams + 1
      /\ reservedStreams' = reservedStreams \cup {entry.streamId - 1}
      /\ mixerStreams' =
           IF name \in Excluded THEN mixerStreams ELSE mixerStreams \cup {entry.mixerId}

(* Mutated forms of deleteEntry: the two ids swapped; the count kept.        *)
deleteEntry_IdsSwapped(name) ==
  IF name \in Mapped
    THEN LET entry == groupMappingTable[name]
         IN  /\ groupMappingTable' = [n \in Mapped \ {name} |-> groupMappingTable[n]]
             /\ totalInputStreams' = totalInputStreams - 1
             /\ reservedStreams' = reservedStreams \ {entry.mixerId}
             /\ mixerStreams' = mixerStreams \ {entry.streamId - 1}
    ELSE UNCHANGED idVars
deleteEntry_CountKept(name) ==
  IF name \in Mapped
    THEN LET entry == groupMappingTable[name]
         IN  /\ groupMappingTable' = [n \in Mapped \ {name} |-> groupMappingTable[n]]
             /\ UNCHANGED totalInputStreams
             /\ reservedStreams' = reservedStreams \ {entry.streamId - 1}
             /\ mixerStreams' = mixerStreams \ {entry.mixerId}
    ELSE UNCHANGED idVars

(* deleteEntry clears the bits of both ids, also those of an excluded       *)
(* stream, and does nothing for a name that is not mapped.                 *)
deleteEntry(name) ==
  IF name \in Mapped
    THEN LET entry == groupMappingTable[name]
         IN  /\ groupMappingTable' = [n \in Mapped \ {name} |-> groupMappingTable[n]]
             /\ totalInputStreams' = totalInputStreams - 1
             /\ reservedStreams' = reservedStreams \ {entry.streamId - 1}
             /\ mixerStreams' = mixerStreams \ {entry.mixerId}
    ELSE UNCHANGED idVars

(* Callers keep the contract when they create only names that are not       *)
(* mapped (StreamService.publish refuses a name that has a provider) and    *)
(* delete only names of the clients.  The table itself has no guard.       *)
Next ==
  \E name \in Names :
    \/ /\ createNewEntry(name)
       /\ contractKept' = (contractKept /\ name \notin Mapped)
    \/ /\ deleteEntry(name)
       /\ contractKept' = (contractKept /\ name \notin Excluded)

Spec == Init /\ [][Next]_vars

-----------------------------------------------------------------------------
Entry == [mixerId : Nat, streamId : Nat \ {0}]
TypeOK ==
  /\ Mapped \subseteq Names
  /\ groupMappingTable \in [Mapped -> Entry]
  /\ totalInputStreams \in Int
  /\ reservedStreams \in SUBSET Nat /\ IsFiniteSet(reservedStreams)
  /\ mixerStreams \in SUBSET Nat /\ IsFiniteSet(mixerStreams)
  /\ contractKept \in BOOLEAN

(* No two entries share a stream id: the frames of two participants are     *)
(* never sent to the same mixed stream, whatever calls came before,         *)
(* replaced entries and deletions of unknown names included.               *)
StreamIdsUnique ==
  \A m, n \in Mapped :
    groupMappingTable[m].streamId = groupMappingTable[n].streamId => m = n

(* No two entries share a slot of mix_coder that it mixes: the input of two  *)
(* participants never reaches the same decoder.                            *)
SlotsUnique ==
  \A m, n \in Mapped :
    /\ groupMappingTable[m].mixerId = groupMappingTable[n].mixerId
    /\ groupMappingTable[m].mixerId < MAX_STREAM_COUNT
    => m = n

(* Nothing is leaked: a bit is set exactly when an entry holds it, and the   *)
(* count is the number of entries, as long as the callers keep the contract. *)
NoLeak ==
  contractKept =>
    /\ totalInputStreams = Cardinality(Mapped)
    /\ reservedStreams = {groupMappingTable[n].streamId - 1 : n \in Mapped}
    /\ mixerStreams = {groupMappingTable[n].mixerId : n \in Mapped \ Excluded}

(* What InputObject.toByteBuffer relies on: with the two excluded streams    *)
(* mapped and every stream in a slot that is mixed, the header count of a   *)
(* segment (total) is the number of bits of its mask, and one of the bits   *)
(* is the sender's own.                                                    *)
TotalMatchesMask ==
  contractKept
  /\ Cardinality(Mapped \cap Excluded) = TOTAL_EXCLUDE_COUNT
  /\ (\A n \in Mapped \ Excluded : groupMappingTable[n].mixerId < MAX_STREAM_COUNT)
  => \A n \in Mapped \ Excluded :
       LET answer == lookupMixerIdAndMask(n)
       IN  answer.total = Cardinality(answer.mask) /\ answer.mixerId \in answer.mask

-----------------------------------------------------------------------------
(* The inductive strengthening of the invariants.                          *)
BitsHeld ==
  \A n \in Mapped :
    /\ groupMappingTable[n].streamId - 1 \in reservedStreams
    /\ n \in Excluded => groupMappingTable[n].mixerId >= MAX_STREAM_COUNT
    /\ n \notin Excluded /\ groupMappingTable[n].mixerId < MAX_STREAM_COUNT
         => groupMappingTable[n].mixerId \in mixerStreams

(* Under the contract the mixer ids of the mixed streams are unique also     *)
(* beyond the slots, so that deleting one frees no other's bit.            *)
MixerIdsUnique ==
  contractKept =>
    \A m, n \in Mapped \ Excluded :
      groupMappingTable[m].mixerId = groupMappingTable[n].mixerId => m = n

IdInv == TypeOK /\ BitsHeld /\ StreamIdsUnique /\ SlotsUnique /\ MixerIdsUnique /\ NoLeak
=============================================================================
