------------------------------ MODULE FLVTags ------------------------------
(***************************************************************************)
(* FLV tags on their three ways, byte by byte.                             *)
(*   publisher: InputObject.toByteBuffer -> FLVParser::readData            *)
(*   karaoke:   a song's file -> FLVParser.readData -> onFrameGenerated    *)
(*   mixed:     FLVOutput::package*Frame -> onFrameGenerated               *)
(* The two parsers get their bytes in pieces cut anywhere; a frame of the  *)
(* other two ways arrives whole, one tag or the file header and two.       *)
(*                                                                         *)
(* A byte knows its field and the field's value.  The parsers collect a    *)
(* tag from its first byte on; the C++ one keeps the value of the first    *)
(* four bytes instead of the bytes.                                        *)
(***************************************************************************)
EXTENDS Integers, SequencesExt

CONSTANTS
  SizeLen,           \* bytes of the type and the data size (4)
  RestLen,           \* bytes of the timestamp and the stream id (7)
  PrevLen,           \* bytes of the previous tag's size (4)
  SignatureLen,      \* bytes of the file header (13)
  TagLens,           \* lengths of a tag's data
  AdjustPTS,         \* what a song's timestamps are moved by
  ChunkLen,          \* bytes a parser is given at a time
  MaxTags            \* bound: tags written

ASSUME TagsAssumption ==
  /\ {SizeLen, RestLen, PrevLen, SignatureLen, ChunkLen} \subseteq Nat \ {0}
  /\ TagLens \subseteq Nat \ {0} /\ {AdjustPTS, MaxTags} \subseteq Nat

VARIABLES
  way,
  tags,              \* number of tags written
  flvHeaderSent,     \* of FLVOutput
  bytes, chunk,      \* on their way to a parser; being parsed
  scanState, tagBuf, curFlvTagSize,
  frames, curIndex,  \* on their way to onFrameGenerated; its place in the first
  expected, handled  \* history: tags written as they ought to arrive, and those that did

parserVars == <<bytes, chunk, scanState, tagBuf, curFlvTagSize>>
tagVars == <<way, tags, flvHeaderSent, parserVars, frames, curIndex, expected, handled>>

TagsInit ==
  /\ way \in {"publisher", "karaoke", "mixed"}
  /\ tags = 0 /\ flvHeaderSent = FALSE
  /\ bytes = <<>> /\ chunk = <<>>
  /\ scanState = "SCAN_HEADER" /\ tagBuf = <<>> /\ curFlvTagSize = 0
  /\ frames = <<>> /\ curIndex = 0
  /\ expected = <<>> /\ handled = <<>>

-----------------------------------------------------------------------------
(* Writers.  Tag n has timestamp n; the metadata of FLVOutput's header is tag 0. *)
BytesOf(field, len, value) == [i \in 1 .. len |-> [field |-> field, value |-> value]]
TagBytes(n, len) ==
  BytesOf("size", SizeLen, len) \o BytesOf("rest", RestLen, n)
    \o BytesOf("data", len, n) \o BytesOf("prev", PrevLen, SizeLen + RestLen + len)
TagOf(n, len, ts) == [ts |-> ts, data |-> BytesOf("data", len, n)]
Writes(n, len, ts) == tags' = n /\ tags < MaxTags /\ expected' = Append(expected, TagOf(n, len, ts))

(* A client's frame in its segment, or the next tag of the song.                *)
appendTag ==
  /\ way # "mixed"
  /\ \E len \in TagLens :
       /\ Writes(tags + 1, len, tags + 1 + (IF way = "karaoke" THEN AdjustPTS ELSE 0))
       /\ bytes' = bytes \o TagBytes(tags + 1, len)
  /\ UNCHANGED <<way, flvHeaderSent, chunk, scanState, tagBuf, curFlvTagSize, frames, curIndex, handled>>

newHeader(len) == BytesOf("signature", SignatureLen, 0) \o TagBytes(0, len)

(* Mutated form: the header goes before every frame.                            *)
packageFrame_HeaderEveryTime ==
  /\ way = "mixed" /\ tags < MaxTags
  /\ \E len \in TagLens :
       /\ frames' = Append(frames, newHeader(len) \o TagBytes(tags + 1, len))
       /\ expected' = expected \o (IF flvHeaderSent THEN <<>> ELSE <<TagOf(0, len, 0)>>)
                               \o <<TagOf(tags + 1, len, tags + 1)>>
  /\ tags' = tags + 1 /\ flvHeaderSent' = TRUE
  /\ UNCHANGED <<way, parserVars, curIndex, handled>>

(* packageVideoFrame and packageAudioFrame: the header, with its metadata,      *)
(* before the first frame.                                                   *)
packageFrame ==
  /\ way = "mixed" /\ tags < MaxTags
  /\ \E len \in TagLens :
       /\ frames' = Append(frames, (IF flvHeaderSent THEN <<>> ELSE newHeader(len))
                                     \o TagBytes(tags + 1, len))
       /\ expected' = expected \o (IF flvHeaderSent THEN <<>> ELSE <<TagOf(0, len, 0)>>)
                               \o <<TagOf(tags + 1, len, tags + 1)>>
  /\ tags' = tags + 1 /\ flvHeaderSent' = TRUE
  /\ UNCHANGED <<way, parserVars, curIndex, handled>>

-----------------------------------------------------------------------------
(* A field of what was collected; bytes of another field have no such value.     *)
FieldAt(buf, i, field) ==
  IF i \in DOMAIN buf /\ buf[i].field = field THEN buf[i].value ELSE 0
TagAt(buf, i) ==
  [ts   |-> FieldAt(buf, i + SizeLen + 1, "rest"),
   data |-> SubSeq(buf, i + SizeLen + RestLen + 1, i + SizeLen + RestLen + FieldAt(buf, i + 1, "size"))]

(* FLVParser.readData, in C++ and in Java: a piece, then one pass of the loop    *)
(* at a time.                                                                *)
readChunk ==
  /\ chunk = <<>>
  /\ \E n \in 1 .. ChunkLen :
       /\ n <= Len(bytes)
       /\ chunk' = SubSeq(bytes, 1, n) /\ bytes' = SubSeq(bytes, n + 1, Len(bytes))
  /\ UNCHANGED <<way, tags, flvHeaderSent, scanState, tagBuf, curFlvTagSize, frames, curIndex,
                 expected, handled>>

(* The C++ parser takes the type and the size first, the Java one also the rest. *)
TagHeaderLen == IF way = "karaoke" THEN SizeLen + RestLen ELSE SizeLen

copied(size) == IF Len(chunk) < size - Len(tagBuf) THEN Len(chunk) ELSE size - Len(tagBuf)
Grown(size) == tagBuf \o SubSeq(chunk, 1, copied(size))
Scan(state, size) ==
  /\ scanState = state /\ chunk # <<>>
  /\ chunk' = SubSeq(chunk, copied(size) + 1, Len(chunk))
  /\ UNCHANGED <<way, tags, flvHeaderSent, bytes, curIndex, expected>>

(* The Java parser writes the moved timestamp back into its buffer.              *)
Adjusted(buf) ==
  [i \in DOMAIN buf |-> IF way = "karaoke" /\ i > SizeLen THEN [buf[i] EXCEPT !.value = @ + AdjustPTS]
                                                         ELSE buf[i]]

scanHeader ==
  /\ Scan("SCAN_HEADER", TagHeaderLen)
  /\ IF Len(Grown(TagHeaderLen)) >= TagHeaderLen
     THEN /\ scanState' = "SCAN_REMAINING_TAG"
          /\ tagBuf' = Adjusted(Grown(TagHeaderLen))
          /\ curFlvTagSize' = FieldAt(Grown(TagHeaderLen), 1, "size") + PrevLen
                              + (IF way = "karaoke" THEN 0 ELSE RestLen)
     ELSE tagBuf' = Grown(TagHeaderLen) /\ UNCHANGED <<scanState, curFlvTagSize>>
  /\ UNCHANGED <<frames, handled>>

TagSize == TagHeaderLen + curFlvTagSize

(* Mutated form: a complete tag is noticed with the byte after it.               *)
scanRemainingTag_OneLate ==
  /\ Scan("SCAN_REMAINING_TAG", TagSize)
  /\ IF Len(Grown(TagSize)) >= TagSize /\ chunk' # <<>>
     THEN /\ scanState' = "SCAN_HEADER" /\ tagBuf' = <<>> /\ curFlvTagSize' = 0
          /\ IF way = "karaoke"
             THEN frames' = Append(frames, Grown(TagSize)) /\ UNCHANGED handled
             ELSE handled' = Append(handled, TagAt(Grown(TagSize), 0)) /\ UNCHANGED frames
     ELSE tagBuf' = Grown(TagSize) /\ UNCHANGED <<scanState, curFlvTagSize, frames, handled>>

scanRemainingTag ==
  /\ Scan("SCAN_REMAINING_TAG", TagSize)
  /\ IF Len(Grown(TagSize)) >= TagSize
     THEN /\ scanState' = "SCAN_HEADER" /\ tagBuf' = <<>> /\ curFlvTagSize' = 0
          /\ IF way = "karaoke"
             THEN frames' = Append(frames, Grown(TagSize)) /\ UNCHANGED handled
             ELSE handled' = Append(handled, TagAt(Grown(TagSize), 0)) /\ UNCHANGED frames
     ELSE tagBuf' = Grown(TagSize) /\ UNCHANGED <<scanState, curFlvTagSize, frames, handled>>

-----------------------------------------------------------------------------
(* GroupMixer.onFrameGenerated, one tag of the frame after another: audio, video *)
(* and metadata become a message each.                                       *)
onFrameGenerated ==
  /\ frames # <<>>
  /\ LET flvFrame == Head(frames)
         start == IF curIndex = 0 /\ flvFrame[1].field = "signature" THEN SignatureLen ELSE curIndex
         next  == start + SizeLen + RestLen + FieldAt(flvFrame, start + 1, "size") + PrevLen
     IN  /\ handled' = Append(handled, TagAt(flvFrame, start))
         /\ IF next < Len(flvFrame) THEN curIndex' = next /\ UNCHANGED frames
                                    ELSE curIndex' = 0 /\ frames' = Tail(frames)
  /\ UNCHANGED <<way, tags, flvHeaderSent, parserVars, expected>>

TagsNext ==
  \/ appendTag \/ packageFrame
  \/ readChunk \/ scanHeader \/ scanRemainingTag
  \/ onFrameGenerated

TagsSpec == TagsInit /\ [][TagsNext]_tagVars

-----------------------------------------------------------------------------
(* Every tag is handed on once, in its order, with its own data and its time,    *)
(* which a song's parser has moved; the metadata of the file header only        *)
(* before the first mixed frame.  However the bytes were cut, no parser takes *)
(* one of the next tag's for its own.                                        *)
TagsInOrder == IsPrefix(handled, expected)

(* A tag whose last byte has arrived waits for nothing else.                     *)
NoTagHeldBack == bytes = <<>> /\ chunk = <<>> /\ frames = <<>> => handled = expected
=============================================================================
