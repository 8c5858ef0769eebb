--------------------------- MODULE SegmentFraming ---------------------------
(***************************************************************************)
(* The segments between the server and mix_coder, byte by byte, both ways. *)
(* "SGI": InputObject.toByteBuffer writes, FLVSegmentParser::readData      *)
(* reads.  "SGO": FLVSegmentOutput::getOneFrameForAllStreams writes,       *)
(* SegmentParser.readData reads.  A read returns what the pipe has, cut    *)
(* anywhere; the two readers are the same four states.                     *)
(***************************************************************************)
EXTENDS Integers, FiniteSets, Sequences, SequencesExt

CONSTANTS
  MAX_XCODING_INSTANCES, \* slots, and the id of the all-in stream
  HeaderLen, MaskLen, StreamHeaderLen, \* bytes of the fields
  FrameLens,         \* lengths of a frame
  ReadLen,           \* a read's buffer
  AssertionsEnabled, \* in the server's JVM; those of mix_coder are compiled in
  MaxSegments        \* bound: segments written

ASSUME FramingAssumption ==
  /\ {MAX_XCODING_INSTANCES, HeaderLen, MaskLen, StreamHeaderLen, ReadLen} \subseteq Nat \ {0}
  /\ FrameLens \subseteq Nat \ {0}
  /\ MaxSegments \in Nat /\ AssertionsEnabled \in BOOLEAN

VARIABLES
  direction,         \* "SGI" or "SGO"
  outputBuffer,      \* stream -> length of the frame packaged for it, 0 for none
  segments,          \* segments written so far
  pipe,              \* bytes on their way
  src,               \* bytes of the read that is being parsed
  parsingState, curBuf, curStreamId, curStreamLen, curStreamCnt,
  running,           \* the reader has neither failed nor got into an endless loop
  written, delivered, \* history: frames, as <<stream, segment>>
  limit              \* history: frames written before the first mask that is not Readable

writerVars == <<outputBuffer, segments, written, limit>>
readerVars == <<parsingState, curBuf, curStreamId, curStreamLen, curStreamCnt, running, delivered>>
vars == <<direction, writerVars, pipe, src, readerVars>>

Streams == 0 .. MAX_XCODING_INSTANCES
Slots   == Streams \ {MAX_XCODING_INSTANCES}
AllIn   == MAX_XCODING_INSTANCES
Nothing == [i \in Streams |-> 0]
NoLimit == -1

Init ==
  /\ direction \in {"SGI", "SGO"}
  /\ outputBuffer = Nothing
  /\ segments = 0
  /\ pipe = <<>> /\ src = <<>>
  /\ parsingState = "SEARCHING_SEGHEADER" /\ curBuf = <<>>
  /\ curStreamId = 0 /\ curStreamLen = 0 /\ curStreamCnt = 0
  /\ running = TRUE
  /\ written = <<>> /\ delivered = <<>> /\ limit = NoLimit

-----------------------------------------------------------------------------
(* Mutated form: the all-in stream is not counted.                               *)
numStreams_NoAllIn(mask) == Cardinality(mask)

numStreams(mask) == Cardinality(mask) + (IF direction = "SGO" THEN 1 ELSE 0)

(* Both readers assert that the number of streams is below the limit.  Only the  *)
(* Java one shifts the mask, as a signed int, until it is zero: with the highest *)
(* bit set it never is.                                                      *)
Asserted(mask) ==
  (direction = "SGI" \/ AssertionsEnabled) => numStreams(mask) < MAX_XCODING_INSTANCES
Endless(mask) == direction = "SGO" /\ MAX_XCODING_INSTANCES - 1 \in mask
Readable(mask) == Asserted(mask) /\ ~Endless(mask)

(* A field is its bytes; each carries the whole field's value.                 *)
Field(kind, len, value) == [i \in 1 .. len |-> [kind |-> kind, value |-> value]]
StreamField(id, len) ==
  Field("stream header", StreamHeaderLen, [id |-> id, len |-> len])
    \o Field("data", len, <<id, segments>>)
Segment(mask, streams, lens) ==
  Field("header", HeaderLen, direction) \o Field("mask", MaskLen, mask)
    \o FlattenSeq([i \in DOMAIN streams |-> StreamField(streams[i], lens[streams[i]])])

(* The frames of a segment are those of the first entries; the others are empty. *)
Sends(mask, frames, empty, lens) ==
  /\ pipe' = pipe \o Segment(mask, frames \o empty, lens)
  /\ written' = written \o [i \in DOMAIN frames |-> <<frames[i], segments>>]
  /\ segments' = segments + 1
  /\ limit' = IF limit = NoLimit /\ ~Readable(mask) THEN Len(written) ELSE limit
InOrder(S) == CHOOSE q \in [1 .. Cardinality(S) -> S] : \A i, j \in DOMAIN q : i < j => q[i] < q[j]

(* InputObject.toByteBuffer: the sender's frame, then an empty entry for every *)
(* other bit of the mask.                                                   *)
toByteBuffer ==
  /\ direction = "SGI" /\ segments < MaxSegments
  /\ \E mask \in SUBSET Slots, sender \in Slots, len \in FrameLens :
       /\ sender \in mask
       /\ Sends(mask, <<sender>>, InOrder(mask \ {sender}), [Nothing EXCEPT ![sender] = len])
  /\ UNCHANGED <<direction, outputBuffer, src, readerVars>>

(* FLVSegmentOutput.packageAudioFrame and packageVideoFrame.                    *)
package(i) ==
  /\ direction = "SGO" /\ segments < MaxSegments
  /\ outputBuffer[i] = 0
  /\ \E len \in FrameLens : outputBuffer' = [outputBuffer EXCEPT ![i] = len]
  /\ UNCHANGED <<direction, segments, written, limit, pipe, src, readerVars>>

Packaged == {i \in Streams : outputBuffer[i] > 0}

Unpackaged == IF AllIn \in Packaged THEN <<>> ELSE <<AllIn>>

(* Mutated form: no entry for an all-in stream without a frame.                  *)
getOneFrameForAllStreams_NoEmptyAllIn ==
  /\ direction = "SGO" /\ Packaged # {}
  /\ Sends(Packaged \ {AllIn}, InOrder(Packaged), <<>>, outputBuffer)
  /\ outputBuffer' = Nothing
  /\ UNCHANGED <<direction, src, readerVars>>

(* The mask has no bit for the all-in stream, which ends every segment.          *)
getOneFrameForAllStreams ==
  /\ direction = "SGO" /\ Packaged # {}
  /\ Sends(Packaged \ {AllIn}, InOrder(Packaged), Unpackaged, outputBuffer)
  /\ outputBuffer' = Nothing
  /\ UNCHANGED <<direction, src, readerVars>>

-----------------------------------------------------------------------------
(* The reader: read(), then one pass of the loop at a time while bytes remain.   *)
read ==
  /\ running /\ src = <<>> /\ pipe # <<>>
  /\ \E n \in 1 .. ReadLen :
       /\ n <= Len(pipe)
       /\ src' = SubSeq(pipe, 1, n) /\ pipe' = SubSeq(pipe, n + 1, Len(pipe))
  /\ UNCHANGED <<direction, writerVars, readerVars>>

cpLen(size) == IF Len(src) < size - Len(curBuf) THEN Len(src) ELSE size - Len(curBuf)
Collected(size) == curBuf \o SubSeq(src, 1, cpLen(size))

(* Concatenate, and go on when the field is complete.                            *)
Pass(state, size) ==
  /\ running /\ parsingState = state /\ src # <<>>
  /\ src' = SubSeq(src, cpLen(size) + 1, Len(src))
  /\ curBuf' = IF Len(Collected(size)) >= size THEN <<>> ELSE Collected(size)
  /\ UNCHANGED <<direction, writerVars, pipe, running>>
Complete(size) == Len(Collected(size)) >= size
Value(size) == Last(Collected(size)).value

segHeader ==
  /\ Pass("SEARCHING_SEGHEADER", HeaderLen)
  /\ parsingState' = IF Complete(HeaderLen) THEN "SEARCHING_STREAM_MASK" ELSE parsingState
  /\ UNCHANGED <<curStreamId, curStreamLen, curStreamCnt, delivered>>

streamMask ==
  /\ Pass("SEARCHING_STREAM_MASK", MaskLen)
  /\ Complete(MaskLen) => Readable(Value(MaskLen))
  /\ IF Complete(MaskLen)
     THEN /\ parsingState' = "SEARCHING_STREAM_HEADER"
          /\ curStreamCnt' = numStreams(Value(MaskLen))
     ELSE UNCHANGED <<parsingState, curStreamCnt>>
  /\ UNCHANGED <<curStreamId, curStreamLen, delivered>>

(* An assertion fails, or the loop over the bits never ends: nothing is read any *)
(* more.                                                                     *)
maskRefused ==
  /\ running /\ parsingState = "SEARCHING_STREAM_MASK" /\ src # <<>>
  /\ Complete(MaskLen) /\ ~Readable(Value(MaskLen))
  /\ running' = FALSE
  /\ UNCHANGED <<direction, writerVars, pipe, src, parsingState, curBuf, curStreamId,
                 curStreamLen, curStreamCnt, delivered>>

(* Mutated form: the entries are taken to come in the order of the mask.          *)
streamHeader_ByPosition ==
  /\ Pass("SEARCHING_STREAM_HEADER", StreamHeaderLen)
  /\ IF Complete(StreamHeaderLen)
     THEN /\ parsingState' = "SEARCHING_STREAM_DATA"
          /\ curStreamId' = MAX_XCODING_INSTANCES + 1 - curStreamCnt
          /\ curStreamLen' = Value(StreamHeaderLen).len
     ELSE UNCHANGED <<parsingState, curStreamId, curStreamLen>>
  /\ UNCHANGED <<curStreamCnt, delivered>>

streamHeader ==
  /\ Pass("SEARCHING_STREAM_HEADER", StreamHeaderLen)
  /\ IF Complete(StreamHeaderLen)
     THEN /\ parsingState' = "SEARCHING_STREAM_DATA"
          /\ curStreamId' = Value(StreamHeaderLen).id
          /\ curStreamLen' = Value(StreamHeaderLen).len
     ELSE UNCHANGED <<parsingState, curStreamId, curStreamLen>>
  /\ UNCHANGED <<curStreamCnt, delivered>>

(* Mutated form: a complete frame is handed on with the next byte.               *)
streamData_OneLate ==
  /\ Pass("SEARCHING_STREAM_DATA", curStreamLen)
  /\ IF Complete(curStreamLen) /\ (src' # <<>> \/ curStreamLen = 0)
     THEN /\ delivered' = IF curStreamLen = 0 THEN delivered
                          ELSE Append(delivered, <<curStreamId, Value(curStreamLen)[2]>>)
          /\ curStreamCnt' = curStreamCnt - 1
          /\ parsingState' = IF curStreamCnt > 1 THEN "SEARCHING_STREAM_HEADER"
                                                 ELSE "SEARCHING_SEGHEADER"
     ELSE UNCHANGED <<delivered, curStreamCnt, parsingState>>
  /\ UNCHANGED <<curStreamId, curStreamLen>>

(* An entry without data needs no byte of its own, but the loop is entered for    *)
(* it only when there is one.                                                *)
streamData ==
  /\ Pass("SEARCHING_STREAM_DATA", curStreamLen)
  /\ IF Complete(curStreamLen)
     THEN /\ delivered' = IF curStreamLen = 0 THEN delivered
                          ELSE Append(delivered, <<curStreamId, Value(curStreamLen)[2]>>)
          /\ curStreamCnt' = curStreamCnt - 1
          /\ parsingState' = IF curStreamCnt > 1 THEN "SEARCHING_STREAM_HEADER"
                                                 ELSE "SEARCHING_SEGHEADER"
     ELSE UNCHANGED <<delivered, curStreamCnt, parsingState>>
  /\ UNCHANGED <<curStreamId, curStreamLen>>

Next ==
  \/ toByteBuffer \/ getOneFrameForAllStreams \/ \E i \in Streams : package(i)
  \/ read \/ segHeader \/ streamMask \/ maskRefused \/ streamHeader \/ streamData
Spec == Init /\ [][Next]_vars

-----------------------------------------------------------------------------
Expected == [SEARCHING_SEGHEADER |-> "header", SEARCHING_STREAM_MASK |-> "mask",
             SEARCHING_STREAM_HEADER |-> "stream header", SEARCHING_STREAM_DATA |-> "data"]

TypeOK ==
  /\ direction \in {"SGI", "SGO"}
  /\ outputBuffer \in [Streams -> FrameLens \cup {0}]
  /\ segments \in 0 .. MaxSegments
  /\ parsingState \in DOMAIN Expected
  /\ curStreamId \in Streams /\ curStreamLen \in FrameLens \cup {0}
  /\ curStreamCnt \in 0 .. MAX_XCODING_INSTANCES + 1
  /\ running \in BOOLEAN /\ limit \in Nat \cup {NoLimit}

(* However the bytes are cut, the reader takes none for another field's: what     *)
(* it collects are bytes of the field it waits for, those of a frame are of   *)
(* the stream it was announced for (the assertions on 'S' 'G' 'O',            *)
(* SegmentParser.java:64, and 'S' 'G' 'I', FLVSegmentParser.cpp:219).         *)
InStep ==
  \A i \in DOMAIN curBuf :
    /\ curBuf[i].kind = Expected[parsingState]
    /\ curBuf[i].kind = "data" => curBuf[i].value[1] = curStreamId

(* Frames arrive for the stream they were written for, in that order.             *)
DeliveredInOrder == IsPrefix(delivered, written)

(* No frame waits for the next segment: when every byte has been read, every      *)
(* frame has been handed on, an empty last entry notwithstanding.  The reader *)
(* stops only at a mask at the limit of streams, and then every frame of the  *)
(* segments before it has been handed on, and no other.                       *)
NothingHeldBack ==
  /\ running /\ pipe = <<>> /\ src = <<>> => delivered = written
  /\ ~running => limit # NoLimit /\ Len(delivered) = limit
=============================================================================
