--------------------------- MODULE MixCoderProofs ---------------------------
(***************************************************************************)
(* The variables of mix_coder keep their types, and the clock of its       *)
(* pictures goes forward and stays behind the audio, for any number of     *)
(* slots, any publishers and any timing of their tags; with one publisher  *)
(* for each slot no assertion fails; and the audio goes back only for a    *)
(* stream that was added, while no count of frames runs ahead of its       *)
(* publisher.                                                              *)
(***************************************************************************)
EXTENDS MixCoder, NumberLemmas, SequenceTheorems, TLAPS

LEMMA Greatest ==
  ASSUME NEW T, T \subseteq Nat, T # {}, IsFiniteSet(T)
  PROVE  MaxOf(T) \in T /\ \A y \in T : y <= MaxOf(T)
BY GreatestNumber DEF MaxOf

LEMMA Least ==
  ASSUME NEW T, T \subseteq Nat, T # {}
  PROVE  MinOf(T) \in T /\ \A y \in T : MinOf(T) <= y
BY LeastNumber DEF MinOf

Tag == [st : {"audio", "video"}, sps : SpsPps \cup {None}, ts : Nat]

(* The publisher's clock, moved: never negative, whatever the offset.          *)
LEMMA PtsAreNatural ==
  ASSUME NEW p \in Parser, NEW tag \in Tag, IsAudio(tag) => ~IsSps(tag), NEW g \in Nat
  PROVE  AdjustedPts(p, tag, g) \in Nat /\ Parsed(p, tag, g) \in Parser
<1>1. ~IsSps(tag) => Offset(p, tag, g) \in Int
  BY DEF Offset, Parser, Tag
<1>2. IsSps(tag) => Offset(p, tag, g) = p.rel
  BY DEF Offset, IsJump
<1>3. AdjustedPts(p, tag, g) \in Nat
  BY <1>1 DEF AdjustedPts, Parser, Tag
<1>4. Offset(p, tag, g) \in Int \cup {None}
  BY <1>1, <1>2 DEF Parser
<1>5. Parsed(p, tag, g) \in Parser
  <2> HIDE DEF Tag
  <2>1. tag.sps \in SpsPps \cup {None} /\ tag.ts \in Nat
    BY DEF Tag
  <2>2. QED BY <1>3, <1>4, <2>1 DEF Parsed, Parser
<1>6. QED BY <1>3, <1>5

LEMMA MappedAreNatural ==
  ASSUME NEW m \in Mapper, NEW ts \in Nat
  PROVE  MappedPts(m, ts) \in Nat /\ Mapped(m, ts) \in Mapper
<1>1. Mapped(m, ts) \in Mapper
  <2>1. CASE Restarts(m, ts)
    BY <2>1 DEF Mapped, Mapper
  <2>2. CASE ~Restarts(m, ts)
    <3>1. Mapped(m, ts) = [m EXCEPT !.cnt = m.cnt + 1, !.cur = ts]
      BY <2>2 DEF Mapped
    <3>2. m.cnt + 1 \in Nat
      BY DEF Mapper
    <3>3. QED BY <3>1, <3>2 DEF Mapper
  <2>3. QED BY <2>1, <2>2
<1>2. ~Restarts(m, ts) => m.starting \in Nat /\ m.cnt \in Nat
  BY DEF Restarts, Mapper
<1>3. MappedPts(m, ts) \in Nat
  <2>1. CASE Restarts(m, ts)
    BY <2>1 DEF MappedPts
  <2>2. CASE ~Restarts(m, ts)
    <3>1. m.cnt * AudioFrame \in Nat
      BY <1>2, <2>2, TimestampsAssumption
    <3>2. QED BY <1>2, <2>2, <3>1 DEF MappedPts
  <2>3. QED BY <2>1, <2>2
<1>4. QED BY <1>1, <1>3
-----------------------------------------------------------------------------
(* What is due: the timestamps exist and are naturals.                         *)
LEMMA AudioIsNatural ==
  ASSUME TypeOK, isNextAudioStreamReady
  PROVE  audioTimestamp \in Nat
<1> DEFINE Ready == {q \in Started(audioStreamStatus) : audioQueue[q] # <<>>}
           Heads == {Head(audioQueue[s]) : s \in Ready}
<1>1. Ready # {} /\ Ready \subseteq Slots
  BY DEF isNextAudioStreamReady, Started
<1>2. \A s \in Ready : Head(audioQueue[s]) \in Nat
  <2>1. TAKE s \in Ready
  <2>2. audioQueue[s] \in Seq(Nat) /\ audioQueue[s] # <<>>
    BY <1>1 DEF TypeOK
  <2>3. QED BY <2>2
<1>3. Heads \subseteq Nat /\ Heads # {}
  BY <1>1, <1>2
<1>4. audioTimestamp = MinOf(Heads)
  BY DEF audioTimestamp
<1> HIDE DEF Heads
<1>5. QED BY <1>3, <1>4, Least

LEMMA PicturesAreNatural ==
  ASSUME TypeOK
  PROVE  \A s \in Waiting : Head(videoQueue[s]) \in VideoRawData /\ Head(videoQueue[s]).pts \in Nat
<1>1. TAKE s \in Waiting
<1>2. videoQueue[s] \in Seq(VideoRawData) /\ videoQueue[s] # <<>>
  BY <1>1 DEF TypeOK, Waiting, Started
<1>3. Head(videoQueue[s]) \in VideoRawData
  BY <1>2
<1>4. QED BY <1>3 DEF VideoRawData

LEMMA FrameIsHead ==
  ASSUME TypeOK, Recorded # {}
  PROVE  \E s \in Recorded : frameTimestamp = Head(videoQueue[s]).pts
<1> DEFINE Heads == {Head(videoQueue[s]).pts : s \in Recorded}
<1>1. Recorded \subseteq Waiting /\ Waiting \subseteq Slots
  BY DEF Recorded, Waiting, Started
<1>2. IsFiniteSet(Recorded)
  BY <1>1, MixCoderAssumption, FS_Subset
<1>3. IsFiniteSet(Heads)
  <2>1. [s \in Recorded |-> Head(videoQueue[s]).pts] \in Surjection(Recorded, Heads)
    BY DEF Surjection
  <2>2. QED BY <1>2, <2>1, FS_Surjection
<1>4. Heads \subseteq Nat /\ Heads # {}
  BY <1>1, PicturesAreNatural
<1>5. frameTimestamp \in Heads
  <2>1. frameTimestamp = MaxOf(Heads)
    BY DEF frameTimestamp
  <2> HIDE DEF Heads
  <2>2. QED BY <1>3, <1>4, <2>1, Greatest
<1>6. QED BY <1>5

LEMMA FrameIsNatural ==
  ASSUME TypeOK, Recorded # {}
  PROVE  frameTimestamp \in Nat
<1>1. PICK s \in Recorded : frameTimestamp = Head(videoQueue[s]).pts
  BY FrameIsHead
<1>2. QED BY <1>1, PicturesAreNatural DEF Recorded

(* The bucket of the audio is between the clock of the pictures and the audio. *)
LEMMA BucketOfAudio ==
  ASSUME TypeOK, isNextAudioStreamReady
  PROVE  /\ audioBucketTimestamp \in Nat
         /\ audioBucketTimestamp > lastBucketTimestamp => audioBucketTimestamp <= audioTimestamp
<1> DEFINE a == audioTimestamp
           l == lastBucketTimestamp
<1>1. a \in Nat /\ l \in Nat /\ Interval \in Nat \ {0}
  BY AudioIsNatural, MixCoderAssumption DEF TypeOK
<1>2. audioBucketTimestamp = IF a - l >= 0 THEN l + Interval * ((a - l) \div Interval)
                                           ELSE l - Interval * ((-(a - l)) \div Interval)
  BY DEF audioBucketTimestamp
<1> HIDE DEF a, l
<1>3. CASE a - l >= 0
  <2>1. a - l \in Nat
    BY <1>1, <1>3
  <2>2. /\ Interval * ((a - l) \div Interval) \in Nat
        /\ Interval * ((a - l) \div Interval) <= a - l
    BY <1>1, <2>1, Division
  <2>3. audioBucketTimestamp = l + Interval * ((a - l) \div Interval)
    BY <1>2, <1>3
  <2>4. audioBucketTimestamp \in Nat /\ audioBucketTimestamp <= a
    BY <1>1, <2>2, <2>3
  <2>5. QED BY <2>4 DEF a
<1>4. CASE ~(a - l >= 0)
  <2>1. -(a - l) \in Nat
    BY <1>1, <1>4
  <2>2. /\ Interval * ((-(a - l)) \div Interval) \in Nat
        /\ Interval * ((-(a - l)) \div Interval) <= -(a - l)
    BY <1>1, <2>1, Division
  <2>3. audioBucketTimestamp = l - Interval * ((-(a - l)) \div Interval)
    BY <1>2, <1>4
  <2>4. audioBucketTimestamp \in Nat /\ audioBucketTimestamp <= l
    BY <1>1, <2>2, <2>3
  <2>5. QED BY <1>1, <2>4 DEF l
<1>5. QED BY <1>3, <1>4

LEMMA VideoIsNatural ==
  ASSUME TypeOK, isNextAudioStreamReady, isNextVideoStreamReady
  PROVE  videoTimestamp \in Nat
<1>1. CASE FollowsUp
  <2>1. nextBucketTimestamp \in Nat
    BY MixCoderAssumption DEF TypeOK, nextBucketTimestamp
  <2>2. frameTimestamp \in Nat
    BY <1>1, FrameIsNatural DEF FollowsUp
  <2>3. ~CatchesUp /\ ~FirstFrame
    BY <1>1, <2>1, <2>2 DEF FollowsUp, CatchesUp, FirstFrame
  <2>4. videoTimestamp = nextBucketTimestamp
    BY <1>1, <2>3 DEF videoTimestamp
  <2>5. QED BY <2>1, <2>4
<1>2. CASE CatchesUp
  <2>1. ~FollowsUp
    <3>1. nextBucketTimestamp \in Nat
      BY MixCoderAssumption DEF TypeOK, nextBucketTimestamp
    <3>2. Recorded # {}
      BY <1>2 DEF CatchesUp
    <3>3. frameTimestamp \in Nat
      BY <3>2, FrameIsNatural
    <3>4. QED BY <1>2, <3>1, <3>3 DEF FollowsUp, CatchesUp
  <2>2. videoTimestamp = audioBucketTimestamp
    BY <1>2, <2>1 DEF videoTimestamp, CatchesUp, FirstFrame
  <2>3. QED BY <2>2, BucketOfAudio
<1>3. CASE FirstFrame
  <2>1. Recorded # {}
    BY <1>3 DEF FirstFrame, Recorded
  <2>2. videoTimestamp = frameTimestamp
    BY <1>3 DEF videoTimestamp, FollowsUp, CatchesUp, FirstFrame
  <2>3. QED BY <2>1, <2>2, FrameIsNatural
<1>4. CASE OnlySpsPps
  <2>1. Waiting # {} /\ Waiting \subseteq Nat /\ IsFiniteSet(Waiting)
    BY <1>4, MixCoderAssumption, FS_Subset DEF OnlySpsPps, Waiting, Started
  <2>2. MaxOf(Waiting) \in Waiting
    BY <2>1, Greatest
  <2>3. videoTimestamp = Head(videoQueue[MaxOf(Waiting)]).pts
    BY <1>4 DEF videoTimestamp, FollowsUp, CatchesUp, FirstFrame, OnlySpsPps
  <2>4. QED BY <2>2, <2>3, PicturesAreNatural
<1>5. QED BY <1>1, <1>2, <1>3, <1>4 DEF isNextVideoStreamReady

(* Popped: the longest run from the front that is due.                          *)
LEMMA PoppedIsTheMost ==
  ASSUME TypeOK, NEW s \in Slots
  PROVE  /\ Popped(s) \in 0 .. Len(videoQueue[s])
         /\ \A i \in 1 .. Popped(s) : videoQueue[s][i].pts <= videoTimestamp
         /\ \A n \in 0 .. Len(videoQueue[s]) :
              (\A i \in 1 .. n : videoQueue[s][i].pts <= videoTimestamp) => n <= Popped(s)
<1> DEFINE q == videoQueue[s]
           T == {n \in 0 .. Len(q) : \A i \in 1 .. n : q[i].pts <= videoTimestamp}
<1>1. Len(q) \in Nat
  BY DEF TypeOK
<1>2. T \subseteq Nat /\ 0 \in T
  BY <1>1
<1>3. IsFiniteSet(T)
  <2>1. IsFiniteSet(0 .. Len(q))
    BY <1>1, FS_Interval
  <2>2. T \subseteq 0 .. Len(q)
    OBVIOUS
  <2>3. QED BY <2>1, <2>2, FS_Subset
<1>4. Popped(s) = MaxOf(T)
  BY DEF Popped
<1>5. MaxOf(T) \in T /\ \A n \in T : n <= MaxOf(T)
  <2>1. T # {}
    BY <1>2
  <2> HIDE DEF T
  <2>2. QED BY <1>2, <1>3, <2>1, Greatest
<1>6. QED BY <1>4, <1>5

(* The clock of the pictures is a natural after every getOutput.             *)
LEMMA ClockIsNatural ==
  ASSUME TypeOK, isNextAudioStreamReady, advanceBucket
  PROVE  hasStarted' \in BOOLEAN /\ lastBucketTimestamp' \in Nat
<1>1. hasStarted' \in BOOLEAN
  BY DEF advanceBucket
<1>2. CASE ~isNextVideoStreamReady
  <2>1. ~OnlySpsPps
    BY <1>2 DEF isNextVideoStreamReady
  <2>2. lastBucketTimestamp' = lastBucketTimestamp
    BY <1>2, <2>1 DEF advanceBucket
  <2>3. QED BY <1>1, <2>2 DEF TypeOK
<1>3. CASE isNextVideoStreamReady /\ OnlySpsPps
  BY <1>1, <1>3, BucketOfAudio DEF advanceBucket
<1>4. CASE isNextVideoStreamReady /\ ~OnlySpsPps
  BY <1>1, <1>4, VideoIsNatural DEF advanceBucket
<1>5. QED BY <1>2, <1>3, <1>4
-----------------------------------------------------------------------------
Publisher == [number : Nat, audio : Nat, video : Nat, spsPps : Nat]

LEMMA MaskKeepsTypes ==
  ASSUME TypeOK, readMask PROVE TypeOK'
<1>1. PICK mask \in SUBSET Slots \ {{}}, fresh \in SUBSET Slots :
        /\ online' = mask
        /\ source' = [s \in Slots |-> IF s \in fresh THEN NewPublisher(source[s].number + 1)
                                                     ELSE source[s]]
        /\ videoStreamStatus' = Masked(videoStreamStatus, mask)
        /\ audioStreamStatus' = Masked(audioStreamStatus, mask)
  BY DEF readMask
<1>2. source' \in [Slots -> Publisher]
  <2>1. \A s \in Slots : NewPublisher(source[s].number + 1)
                           \in Publisher
    BY DEF TypeOK, NewPublisher, Publisher
  <2>2. QED BY <1>1, <2>1 DEF TypeOK, Publisher
<1>3. \A status \in [Slots -> Status] : Masked(status, mask) \in [Slots -> Status]
  BY DEF Masked, Status
<1>4. QED BY <1>1, <1>2, <1>3
          DEF readMask, TypeOK, Publisher, parseVars, queueVars, clockVars, outVars

LEMMA SpsPpsKeepsTypes ==
  ASSUME TypeOK, NEW s \in Slots, readSpsPps(s) PROVE TypeOK'
<1>1. PICK c \in SpsPps :
        LET tag == [st |-> "video", sps |-> c, ts |-> source[s].video]
        IN  /\ Parse(s, tag)
            /\ IF IsFrameReady(parser[s], tag)
               THEN /\ decoder' = [decoder EXCEPT ![s].bHasFirstFrameStarted = FALSE]
                    /\ enqueueVideo(s, [sp |-> "SpsPps", pts |-> Pts(s, tag)])
               ELSE UNCHANGED <<decoder, videoQueue, videoStreamStatus>>
  BY DEF readSpsPps
<1> DEFINE tag == [st |-> "video", sps |-> c, ts |-> source[s].video]
<1>2. tag \in Tag /\ ~IsAudio(tag)
  BY DEF Tag, IsAudio, TypeOK
<1>3. Parse(s, tag) /\ (\/ /\ decoder' = [decoder EXCEPT ![s].bHasFirstFrameStarted = FALSE]
                           /\ enqueueVideo(s, [sp |-> "SpsPps", pts |-> Pts(s, tag)])
                        \/ UNCHANGED <<decoder, videoQueue, videoStreamStatus>>)
  BY <1>1
<1> HIDE DEF tag
<1>4. Pts(s, tag) \in Nat /\ Parsed(parser[s], tag, globalAudioTimestamp) \in Parser
  BY <1>2, PtsAreNatural DEF TypeOK, Pts
<1>5. parser' \in [Slots -> Parser]
  BY <1>3, <1>4 DEF Parse, TypeOK
<1>6. decoder' \in [Slots -> [bHasFirstFrameStarted : BOOLEAN, firstFramePts : Nat \cup {None}]]
  <2> DEFINE over == [decoder[s] EXCEPT !.bHasFirstFrameStarted = FALSE]
  <2>1. over \in [bHasFirstFrameStarted : BOOLEAN, firstFramePts : Nat \cup {None}]
    BY DEF TypeOK
  <2>2. \/ decoder' = decoder
        \/ decoder' = [decoder EXCEPT ![s] = over]
    BY <1>3
  <2> HIDE DEF over
  <2>3. QED BY <2>1, <2>2 DEF TypeOK
<1>7. videoQueue' \in [Slots -> Seq(VideoRawData)] /\ videoStreamStatus' \in [Slots -> Status]
  <2> DEFINE v == [sp |-> "SpsPps", pts |-> Pts(s, tag)]
  <2>1. v \in VideoRawData
    BY <1>4 DEF VideoRawData
  <2>2. \/ enqueueVideo(s, v)
        \/ UNCHANGED <<videoQueue, videoStreamStatus>>
    BY <1>3
  <2> HIDE DEF v
  <2>3. Append(videoQueue[s], v) \in Seq(VideoRawData)
    BY <2>1, AppendProperties DEF TypeOK
  <2>4. videoQueue' \in [Slots -> Seq(VideoRawData)]
    BY <2>2, <2>3 DEF enqueueVideo, TypeOK
  <2>5. videoStreamStatus' \in [Slots -> Status]
    BY <2>2 DEF enqueueVideo, TypeOK, Status
  <2>6. QED BY <2>4, <2>5
<1>8. source' \in [Slots -> Publisher]
  <2>1. source' = [source EXCEPT ![s] = [source[s] EXCEPT !.spsPps = source[s].spsPps + 1]]
    BY DEF readSpsPps
  <2>2. source[s] \in Publisher /\ source \in [Slots -> Publisher]
    BY DEF TypeOK, Publisher
  <2>3. source[s].spsPps + 1 \in Nat
    BY <2>2 DEF Publisher
  <2>4. [source[s] EXCEPT !.spsPps = source[s].spsPps + 1] \in Publisher
    BY <2>2, <2>3 DEF Publisher
  <2>5. QED BY <2>1, <2>2, <2>4
<1>9. QED BY <1>5, <1>6, <1>7, <1>8
          DEF readSpsPps, TypeOK, Publisher, Untouched, clockVars, outVars

LEMMA VideoKeepsTypes ==
  ASSUME TypeOK, NEW s \in Slots, readVideo(s) PROVE TypeOK'
<1> DEFINE tag == [st |-> "video", sps |-> None, ts |-> source[s].video]
<1>1. tag \in Tag /\ ~IsAudio(tag)
  BY DEF Tag, IsAudio, TypeOK
<1>2. Parse(s, tag)
        /\ (\/ /\ enqueueVideo(s, [sp |-> "RawData", pts |-> Pts(s, tag)])
               /\ decoder' = [decoder EXCEPT ![s] =
                    IF @.bHasFirstFrameStarted THEN @
                    ELSE [bHasFirstFrameStarted |-> TRUE, firstFramePts |-> Pts(s, tag)]]
            \/ UNCHANGED <<decoder, videoQueue, videoStreamStatus>>)
  BY DEF readVideo
<1>3. PICK d \in VideoSteps : source' = [source EXCEPT ![s].video = @ + d]
  BY DEF readVideo
<1> HIDE DEF tag
<1>4. Pts(s, tag) \in Nat /\ Parsed(parser[s], tag, globalAudioTimestamp) \in Parser
  BY <1>1, PtsAreNatural DEF TypeOK, Pts
<1>5. parser' \in [Slots -> Parser]
  BY <1>2, <1>4 DEF Parse, TypeOK
<1>6. decoder' \in [Slots -> [bHasFirstFrameStarted : BOOLEAN, firstFramePts : Nat \cup {None}]]
  <2> DEFINE started == [bHasFirstFrameStarted |-> TRUE, firstFramePts |-> Pts(s, tag)]
  <2>1. started \in [bHasFirstFrameStarted : BOOLEAN, firstFramePts : Nat \cup {None}]
    BY <1>4
  <2>2. \/ decoder' = decoder
        \/ decoder' = [decoder EXCEPT ![s] = started]
    BY <1>2 DEF TypeOK
  <2> HIDE DEF started
  <2>3. QED BY <2>1, <2>2 DEF TypeOK
<1>7. videoQueue' \in [Slots -> Seq(VideoRawData)] /\ videoStreamStatus' \in [Slots -> Status]
  <2> DEFINE v == [sp |-> "RawData", pts |-> Pts(s, tag)]
  <2>1. v \in VideoRawData
    BY <1>4 DEF VideoRawData
  <2>2. \/ enqueueVideo(s, v)
        \/ UNCHANGED <<videoQueue, videoStreamStatus>>
    BY <1>2
  <2> HIDE DEF v
  <2>3. Append(videoQueue[s], v) \in Seq(VideoRawData)
    BY <2>1, AppendProperties DEF TypeOK
  <2>4. videoQueue' \in [Slots -> Seq(VideoRawData)]
    BY <2>2, <2>3 DEF enqueueVideo, TypeOK
  <2>5. videoStreamStatus' \in [Slots -> Status]
    BY <2>2 DEF enqueueVideo, TypeOK, Status
  <2>6. QED BY <2>4, <2>5
<1>8. source' \in [Slots -> Publisher]
  <2>1. source' = [source EXCEPT ![s] = [source[s] EXCEPT !.video = source[s].video + d]]
    BY <1>3
  <2>2. source[s] \in Publisher /\ source \in [Slots -> Publisher]
    BY DEF TypeOK, Publisher
  <2>3. source[s].video + d \in Nat
    BY <2>2, MixCoderAssumption DEF Publisher
  <2>4. [source[s] EXCEPT !.video = source[s].video + d] \in Publisher
    BY <2>2, <2>3 DEF Publisher
  <2>5. QED BY <2>1, <2>2, <2>4
<1>9. QED BY <1>5, <1>6, <1>7, <1>8
          DEF readVideo, TypeOK, Publisher, Untouched, clockVars, outVars

LEMMA AudioKeepsTypes ==
  ASSUME TypeOK, NEW s \in Slots, readAudio(s) PROVE TypeOK'
<1> DEFINE tag == [st |-> "audio", sps |-> None, ts |-> source[s].audio]
           m == audioTsMapper[s]
<1>1. tag \in Tag /\ ~IsSps(tag) /\ m \in Mapper
  BY DEF Tag, IsSps, TypeOK
<1>2. Parse(s, tag)
        /\ \/ UNCHANGED <<audioTsMapper, audioQueue, globalAudioTimestamp>>
           \/ /\ audioTsMapper' = [audioTsMapper EXCEPT ![s] = Mapped(m, Pts(s, tag))]
              /\ audioQueue' = [audioQueue EXCEPT ![s] = Append(@, MappedPts(m, Pts(s, tag)))]
              /\ globalAudioTimestamp' = MappedPts(m, Pts(s, tag))
  BY DEF readAudio
<1>3. PICK d \in AudioSteps : source' = [source EXCEPT ![s].audio = @ + d]
  BY DEF readAudio
<1> HIDE DEF tag, m
<1>4. Pts(s, tag) \in Nat /\ Parsed(parser[s], tag, globalAudioTimestamp) \in Parser
  BY <1>1, PtsAreNatural DEF TypeOK, Pts
<1>5. Mapped(m, Pts(s, tag)) \in Mapper /\ MappedPts(m, Pts(s, tag)) \in Nat
  BY <1>1, <1>4, MappedAreNatural
<1>6. parser' \in [Slots -> Parser]
  BY <1>2, <1>4 DEF Parse, TypeOK
<1>7. /\ audioTsMapper' \in [Slots -> Mapper] /\ audioQueue' \in [Slots -> Seq(Nat)]
      /\ globalAudioTimestamp' \in Nat
  <2>1. Append(audioQueue[s], MappedPts(m, Pts(s, tag))) \in Seq(Nat)
    BY <1>5, AppendProperties DEF TypeOK
  <2>2. audioTsMapper' \in [Slots -> Mapper]
    BY <1>2, <1>5 DEF TypeOK
  <2>3. audioQueue' \in [Slots -> Seq(Nat)]
    BY <1>2, <2>1 DEF TypeOK
  <2>4. globalAudioTimestamp' \in Nat
    BY <1>2, <1>5 DEF TypeOK
  <2>5. QED BY <2>2, <2>3, <2>4
<1>8. source' \in [Slots -> Publisher]
  <2>1. source' = [source EXCEPT ![s] = [source[s] EXCEPT !.audio = source[s].audio + d]]
    BY <1>3
  <2>2. source[s] \in Publisher /\ source \in [Slots -> Publisher]
    BY DEF TypeOK, Publisher
  <2>3. source[s].audio + d \in Nat
    BY <2>2, MixCoderAssumption DEF Publisher
  <2>4. [source[s] EXCEPT !.audio = source[s].audio + d] \in Publisher
    BY <2>2, <2>3 DEF Publisher
  <2>5. QED BY <2>1, <2>2, <2>4
<1>9. audioStreamStatus' \in [Slots -> Status] /\ audioJoined' \in BOOLEAN
  BY DEF readAudio, TypeOK, Status
<1>10. QED BY <1>6, <1>7, <1>8, <1>9 DEF readAudio, TypeOK, Publisher, clockVars, outVars

LEMMA InputKeepsTypes ==
  ASSUME TypeOK, newInput \/ notReady PROVE TypeOK'
BY DEF newInput, notReady, TypeOK, sourceVars, parseVars, statusVars, queueVars, clockVars,
       outVars, Unparsed

LEMMA PopAudioKeepsTypes ==
  ASSUME TypeOK, popAudio PROVE TypeOK'
<1>1. hasStarted' \in BOOLEAN /\ lastBucketTimestamp' \in Nat
  BY ClockIsNatural DEF popAudio
<1>2. running' \in BOOLEAN
  BY DEF popAudio
<1>3. audioQueue' \in [Slots -> Seq(Nat)]
  <2>1. audioQueue' = [s \in Slots |->
          IF s \in Started(audioStreamStatus) THEN SubSeq(audioQueue[s], 2, Len(audioQueue[s]))
                                              ELSE audioQueue[s]]
    BY DEF popAudio
  <2>2. \A s \in Slots : SubSeq(audioQueue[s], 2, Len(audioQueue[s])) \in Seq(Nat)
    <3>1. TAKE s \in Slots
    <3>2. audioQueue[s] \in Seq(Nat) /\ Len(audioQueue[s]) \in Nat
      BY <3>1 DEF TypeOK
    <3>3. \A i \in 2 .. Len(audioQueue[s]) : audioQueue[s][i] \in Nat
      BY <3>2
    <3>4. QED BY <3>2, <3>3, SubSeqProperties
  <2>3. QED BY <2>1, <2>2 DEF TypeOK
<1>4. lastAudio' \in Nat /\ audioJoined' \in BOOLEAN /\ loop' \in {"read", "getOutput"}
  BY AudioIsNatural DEF popAudio, TypeOK
<1>5. QED BY <1>1, <1>2, <1>3, <1>4
          DEF popAudio, TypeOK, Unparsed, sourceVars, parseVars, statusVars

LEMMA PopVideoKeepsTypes ==
  ASSUME TypeOK, popVideo PROVE TypeOK'
<1> DEFINE started == Started(videoStreamStatus)
           n == [s \in Slots |-> IF s \in started THEN Popped(s) ELSE 0]
<1>1. hasStarted' \in BOOLEAN /\ lastBucketTimestamp' \in Nat
  BY ClockIsNatural DEF popVideo
<1>2. running' = AssertionsHold
  BY DEF popVideo
<1>3. \A s \in Slots : videoQueue[s] \in Seq(VideoRawData) /\ Len(videoQueue[s]) \in Nat
                        /\ n[s] \in 0 .. Len(videoQueue[s])
  <2>1. TAKE s \in Slots
  <2>2. videoQueue[s] \in Seq(VideoRawData) /\ Len(videoQueue[s]) \in Nat
    BY <2>1 DEF TypeOK
  <2>3. QED BY <2>1, <2>2, PoppedIsTheMost
<1>4. /\ videoQueue' = [s \in Slots |-> SubSeq(videoQueue[s], n[s] + 1, Len(videoQueue[s]))]
      /\ rawVideoData' = [s \in Slots |-> IF n[s] = 0 THEN rawVideoData[s]
                                          ELSE videoQueue[s][n[s]].sp]
  BY DEF popVideo
<1>5. mixed' \subseteq Slots /\ loop' \in {"read", "getOutput"}
      /\ (lastVideo' = videoTimestamp \/ lastVideo' = lastVideo)
  BY DEF popVideo, Started
<1> HIDE DEF n
<1>6. videoQueue' \in [Slots -> Seq(VideoRawData)]
  <2>1. \A s \in Slots : SubSeq(videoQueue[s], n[s] + 1, Len(videoQueue[s])) \in Seq(VideoRawData)
    <3>1. TAKE s \in Slots
    <3>2. \A i \in n[s] + 1 .. Len(videoQueue[s]) : videoQueue[s][i] \in VideoRawData
      BY <1>3, <3>1
    <3>3. n[s] + 1 \in Int /\ Len(videoQueue[s]) \in Int
      BY <1>3, <3>1
    <3>4. QED BY <3>2, <3>3, SubSeqProperties
  <2>2. QED BY <1>4, <2>1
<1>7. rawVideoData' \in [Slots -> {"SpsPps", "RawData", None}]
  <2>1. \A s \in Slots : n[s] # 0 => videoQueue[s][n[s]].sp \in {"SpsPps", "RawData"}
    <3>1. TAKE s \in Slots
    <3>2. HAVE n[s] # 0
    <3>3. videoQueue[s][n[s]] \in VideoRawData
      BY <1>3, <3>1, <3>2, ElementOfSeq
    <3>4. QED BY <3>3 DEF VideoRawData
  <2>2. \A s \in Slots : rawVideoData[s] \in {"SpsPps", "RawData", None}
    BY DEF TypeOK
  <2>3. QED BY <1>4, <2>1, <2>2
<1>8. lastVideo' \in Nat
  BY <1>5, VideoIsNatural DEF popVideo, TypeOK
<1>9. running' \in BOOLEAN
  <2>1. AssertionsHold \in BOOLEAN
    BY DEF AssertionsHold
  <2>2. QED BY <1>2, <2>1
<1>10. QED BY <1>1, <1>5, <1>6, <1>7, <1>8, <1>9
          DEF popVideo, TypeOK, Unparsed, sourceVars, parseVars, statusVars
-----------------------------------------------------------------------------
LEMMA NextKeepsTypes ==
  ASSUME TypeOK, [Next]_vars PROVE TypeOK'
<1>1. CASE readMask
  BY <1>1, MaskKeepsTypes
<1>2. ASSUME NEW s \in Slots, readSpsPps(s) \/ readVideo(s) \/ readAudio(s) PROVE TypeOK'
  BY <1>2, SpsPpsKeepsTypes, VideoKeepsTypes, AudioKeepsTypes
<1>3. CASE newInput \/ notReady
  BY <1>3, InputKeepsTypes
<1>4. CASE popAudio
  BY <1>4, PopAudioKeepsTypes
<1>5. CASE popVideo
  BY <1>5, PopVideoKeepsTypes
<1>6. CASE UNCHANGED vars
  BY <1>6 DEF vars, TypeOK, sourceVars, parseVars, statusVars, queueVars, clockVars, outVars
<1>7. QED BY <1>1, <1>2, <1>3, <1>4, <1>5, <1>6 DEF Next

(* Every variable of mix_coder keeps its type: no offset, jump, count or bucket *)
(* makes a timestamp negative, and a queue holds only frames that have one.  *)
THEOREM TypeCorrect == Spec => []TypeOK
<1>1. Init => TypeOK
  <2> SUFFICES ASSUME Init PROVE TypeOK
    OBVIOUS
  <2>1. NewPublisher(0) \in Publisher /\ NewParser \in Parser /\ NewMapper \in Mapper
    BY DEF NewPublisher, Publisher, NewParser, Parser, NewMapper, Mapper
  <2>2. source \in [Slots -> Publisher] /\ parser \in [Slots -> Parser]
        /\ audioTsMapper \in [Slots -> Mapper]
    BY <2>1 DEF Init
  <2>3. decoder \in [Slots -> [bHasFirstFrameStarted : BOOLEAN, firstFramePts : Nat \cup {None}]]
    BY DEF Init
  <2>4. videoQueue \in [Slots -> Seq(VideoRawData)] /\ audioQueue \in [Slots -> Seq(Nat)]
    BY DEF Init
  <2>5. QED BY <2>2, <2>3, <2>4 DEF Init, TypeOK, Publisher, Status
<1>2. TypeOK /\ [Next]_vars => TypeOK'
  BY NextKeepsTypes
<1>3. QED BY <1>1, <1>2, PTL DEF Spec
-----------------------------------------------------------------------------
(* Once the clock of the pictures has started, a getOutput that does not abort *)
(* leaves it alone or moves it forward to the timestamp of what is due, which *)
(* the audio has reached.                                                  *)
LEMMA ClockGoesForward ==
  ASSUME TypeOK, hasStarted, isNextAudioStreamReady, advanceBucket, AssertionsHold
  PROVE  \/ /\ ~isNextVideoStreamReady
            /\ lastBucketTimestamp' = lastBucketTimestamp
         \/ /\ isNextVideoStreamReady
            /\ lastBucketTimestamp' = videoTimestamp
            /\ videoTimestamp > lastBucketTimestamp
            /\ videoTimestamp <= audioTimestamp
<1>1. ~FirstFrame /\ ~OnlySpsPps
  BY DEF FirstFrame, OnlySpsPps
<1>2. /\ lastBucketTimestamp \in Nat /\ audioBucketTimestamp \in Nat /\ audioTimestamp \in Nat
      /\ nextBucketTimestamp \in Nat /\ nextBucketTimestamp > lastBucketTimestamp
  <2>1. lastBucketTimestamp \in Nat
    BY DEF TypeOK
  <2>2. nextBucketTimestamp \in Nat /\ nextBucketTimestamp > lastBucketTimestamp
    BY <2>1, MixCoderAssumption DEF nextBucketTimestamp
  <2>3. QED BY <2>1, <2>2, BucketOfAudio, AudioIsNatural
<1>3. CASE ~isNextVideoStreamReady
  BY <1>1, <1>3 DEF advanceBucket
<1>4. CASE isNextVideoStreamReady
  <2>1. lastBucketTimestamp' = videoTimestamp
    BY <1>1, <1>4 DEF advanceBucket
  <2>2. FollowsUp \/ CatchesUp
    BY <1>1, <1>4 DEF isNextVideoStreamReady
  <2>3. frameTimestamp \in Nat
    BY <2>2, FrameIsNatural DEF FollowsUp, CatchesUp
  <2>4. CASE FollowsUp
    <3>1. ~CatchesUp
      BY <1>2, <2>3, <2>4 DEF FollowsUp, CatchesUp
    <3>2. videoTimestamp = nextBucketTimestamp
      BY <1>1, <2>4, <3>1 DEF videoTimestamp
    <3>3. nextBucketTimestamp <= audioBucketTimestamp
      BY <1>2, <2>4 DEF FollowsUp
    <3>4. QED BY <1>2, <1>4, <2>1, <3>2, <3>3, BucketOfAudio
  <2>5. CASE CatchesUp
    <3>1. ~FollowsUp
      BY <1>2, <2>3, <2>5 DEF FollowsUp, CatchesUp
    <3>2. videoTimestamp = audioBucketTimestamp
      BY <1>1, <2>5, <3>1 DEF videoTimestamp
    <3>3. audioBucketTimestamp > nextBucketTimestamp
      BY <2>5 DEF AssertionsHold
    <3>4. QED BY <1>2, <1>4, <2>1, <3>2, <3>3, BucketOfAudio
  <2>6. QED BY <2>2, <2>4, <2>5
<1>5. QED BY <1>3, <1>4

(* What a step of the process does to the clock and to the pictures put out.   *)
LEMMA StepOfTheClock ==
  ASSUME TypeOK, hasStarted, [Next]_vars, running'
  PROVE  \/ /\ lastBucketTimestamp' = lastBucketTimestamp /\ lastVideo' = lastVideo
         \/ /\ lastBucketTimestamp' > lastBucketTimestamp
            /\ lastBucketTimestamp' <= audioTimestamp
            /\ lastVideo' = lastVideo \/ lastVideo' = lastBucketTimestamp'
<1>1. CASE popAudio
  <2>1. isNextAudioStreamReady /\ advanceBucket /\ AssertionsHold /\ lastVideo' = lastVideo
    BY <1>1 DEF popAudio
  <2>2. QED BY <2>1, ClockGoesForward
<1>2. CASE popVideo
  <2>1. /\ isNextAudioStreamReady /\ advanceBucket /\ AssertionsHold /\ isNextVideoStreamReady
        /\ lastVideo' = lastVideo \/ lastVideo' = videoTimestamp
    BY <1>2 DEF popVideo
  <2>2. QED BY <2>1, ClockGoesForward
<1>3. CASE readMask \/ newInput \/ notReady
  BY <1>3 DEF readMask, newInput, notReady, clockVars, outVars
<1>4. ASSUME NEW s \in Slots, readSpsPps(s) \/ readVideo(s) \/ readAudio(s)
      PROVE  lastBucketTimestamp' = lastBucketTimestamp /\ lastVideo' = lastVideo
  BY <1>4 DEF readSpsPps, readVideo, readAudio, Untouched, clockVars, outVars
<1>5. CASE UNCHANGED vars
  BY <1>5 DEF vars, clockVars, outVars
<1>6. QED BY <1>1, <1>2, <1>3, <1>4, <1>5 DEF Next

(* The pictures never go back, however the tags of the publishers arrive.      *)
THEOREM PicturesGoForward == Spec => VideoNeverGoesBack
<1>1. TypeOK /\ [Next]_vars
        => [hasStarted /\ running' =>
              /\ lastBucketTimestamp' >= lastBucketTimestamp
              /\ lastVideo' # lastVideo => lastVideo' > lastBucketTimestamp
                                           /\ lastBucketTimestamp' = lastVideo']_vars
  <2> SUFFICES ASSUME TypeOK, [Next]_vars, hasStarted, running'
               PROVE  /\ lastBucketTimestamp' >= lastBucketTimestamp
                      /\ lastVideo' # lastVideo => lastVideo' > lastBucketTimestamp
                                                   /\ lastBucketTimestamp' = lastVideo'
    OBVIOUS
  <2>1. lastBucketTimestamp \in Nat
    BY DEF TypeOK
  <2>2. CASE lastBucketTimestamp' = lastBucketTimestamp /\ lastVideo' = lastVideo
    BY <2>1, <2>2
  <2>3. CASE /\ lastBucketTimestamp' > lastBucketTimestamp
             /\ lastVideo' = lastVideo \/ lastVideo' = lastBucketTimestamp'
    <3>1. lastBucketTimestamp' \in Nat
      BY NextKeepsTypes DEF TypeOK
    <3>2. QED BY <2>1, <2>3, <3>1
  <2>4. QED BY <2>2, <2>3, StepOfTheClock
<1>2. QED BY <1>1, TypeCorrect, PTL DEF Spec, VideoNeverGoesBack

(* No picture is ahead of the audio that is mixed next.                        *)
THEOREM PicturesStayBehindAudio == Spec => VideoIsNotFasterThanAudio
<1>1. TypeOK /\ [Next]_vars
        => [hasStarted /\ running' /\ lastBucketTimestamp' # lastBucketTimestamp
              => lastBucketTimestamp' <= audioTimestamp]_vars
  BY StepOfTheClock
<1>2. QED BY <1>1, TypeCorrect, PTL DEF Spec, VideoIsNotFasterThanAudio

-----------------------------------------------------------------------------
(* While every slot has one publisher that sends one SPS/PPS, mix_coder       *)
(* does not abort and mixes only pictures that were decoded: for any         *)
(* number of slots and any timing, loss and drift of their tags.             *)
OneEach == MaxSpsPps <= 1 /\ MaxPublishers <= 1

(* Nothing of the slot's video has reached mix_coder.                          *)
Unused(s) ==
  /\ parser[s].prevVideo = 0
  /\ videoQueue[s] = <<>>
  /\ rawVideoData[s] = None
  /\ ~decoder[s].bHasFirstFrameStarted

(* A slot without SPS/PPS was not used, nor is one without a publisher.        *)
UnusedBefore(s) ==
  /\ source[s].number = 0 => s \notin online /\ Unused(s)
  /\ source[s].spsPps = 0 => Unused(s)

(* The SPS/PPS is the first of the slot's queue, has the first timestamp, and     *)
(* no frame was taken out before it.                                       *)
SpsPpsIsFirst(s) ==
  \A k \in DOMAIN videoQueue[s] :
    videoQueue[s][k].sp = "SpsPps" => /\ k = 1 /\ videoQueue[s][k].pts = 1
                                      /\ rawVideoData[s] = None

(* The frame the decoder started with is in the queue, behind the SPS/PPS at    *)
(* most, or a picture was taken out already.                               *)
IsFirstFrame(s, k) ==
  /\ videoQueue[s][k] = [sp |-> "RawData", pts |-> decoder[s].firstFramePts]
  /\ \A j \in 1 .. k - 1 : videoQueue[s][j].sp = "SpsPps"
FirstFrameKept(s) ==
  /\ decoder[s].bHasFirstFrameStarted
       => \/ /\ rawVideoData[s] = "RawData"
             /\ \A k \in DOMAIN videoQueue[s] : videoQueue[s][k].sp # "SpsPps"
          \/ \E k \in DOMAIN videoQueue[s] : IsFirstFrame(s, k)
  /\ ~decoder[s].bHasFirstFrameStarted
       => \A k \in DOMAIN videoQueue[s] : videoQueue[s][k].sp = "SpsPps"

SlotInv(s) == UnusedBefore(s) /\ SpsPpsIsFirst(s) /\ FirstFrameKept(s)
AssertionInv == (\A s \in Slots : SlotInv(s)) /\ NoAssertionFails /\ MixedHavePictures

-----------------------------------------------------------------------------
(* What is recorded is not beyond the limit: a SPS/PPS has the first timestamp.  *)
LEMMA AssertionsHoldHere ==
  ASSUME TypeOK, isNextAudioStreamReady, \A s \in Slots : SpsPpsIsFirst(s)
  PROVE  AssertionsHold
<1> SUFFICES ASSUME CatchesUp PROVE /\ audioBucketTimestamp >= frameTimestamp
                                    /\ audioBucketTimestamp > nextBucketTimestamp
  BY DEF AssertionsHold
<1> DEFINE Limits == {nextBucketTimestamp, audioBucketTimestamp}
<1>1. /\ lastBucketTimestamp \in Nat /\ nextBucketTimestamp \in Nat
      /\ nextBucketTimestamp >= 1 /\ audioBucketTimestamp \in Nat
  <2>1. lastBucketTimestamp \in Nat
    BY DEF TypeOK
  <2>2. nextBucketTimestamp \in Nat /\ nextBucketTimestamp >= 1
    BY <2>1, MixCoderAssumption DEF nextBucketTimestamp
  <2>3. QED BY <2>1, <2>2, BucketOfAudio
<1>2. nextLimitTimestamp \in Limits /\ \A y \in Limits : y <= nextLimitTimestamp
  <2>1. IsFiniteSet(Limits)
    <3>1. IsFiniteSet({nextBucketTimestamp})
      BY FS_Singleton
    <3>2. IsFiniteSet({nextBucketTimestamp} \cup {audioBucketTimestamp})
      BY <3>1, FS_AddElement
    <3>3. Limits = {nextBucketTimestamp} \cup {audioBucketTimestamp}
      OBVIOUS
    <3>4. QED BY <3>2, <3>3
  <2>2. Limits \subseteq Nat /\ Limits # {}
    BY <1>1
  <2>3. nextLimitTimestamp = MaxOf(Limits)
    BY DEF nextLimitTimestamp
  <2> HIDE DEF Limits
  <2>4. QED BY <2>1, <2>2, <2>3, Greatest
<1>3. PICK s \in Recorded : frameTimestamp = Head(videoQueue[s]).pts
  <2>1. Recorded # {}
    BY DEF CatchesUp
  <2>2. QED BY <2>1, FrameIsHead
<1>4. s \in Waiting /\ s \in Slots
  BY <1>3 DEF Recorded, Waiting, Started
<1>5. frameTimestamp \in Nat /\ frameTimestamp > nextBucketTimestamp /\ hasStarted
  <2>1. Recorded # {} /\ frameTimestamp > nextBucketTimestamp /\ hasStarted
    BY DEF CatchesUp
  <2>2. QED BY <2>1, FrameIsNatural
<1>6. ~HeadIsSpsPps(s)
  <2> SUFFICES ASSUME HeadIsSpsPps(s) PROVE FALSE
    OBVIOUS
  <2>1. videoQueue[s] \in Seq(VideoRawData) /\ videoQueue[s] # <<>>
    BY <1>4 DEF TypeOK, Waiting
  <2>2. Head(videoQueue[s]) = videoQueue[s][1] /\ 1 \in DOMAIN videoQueue[s]
    BY <2>1
  <2>3. Head(videoQueue[s]).pts = 1
    BY <1>4, <2>2 DEF SpsPpsIsFirst, HeadIsSpsPps
  <2>4. QED BY <1>1, <1>3, <1>5, <2>3
<1>7. frameTimestamp <= nextLimitTimestamp
  BY <1>3, <1>5, <1>6 DEF Recorded
<1>8. QED BY <1>1, <1>2, <1>5, <1>7
-----------------------------------------------------------------------------
(* A slot of which nothing changed keeps its invariant.                        *)
LEMMA SlotAlone ==
  ASSUME NEW t \in Slots, SlotInv(t),
         source'[t] = source[t], t \in online' => t \in online,
         parser'[t] = parser[t], videoQueue'[t] = videoQueue[t],
         rawVideoData'[t] = rawVideoData[t], decoder'[t] = decoder[t]
  PROVE  SlotInv(t)'
<1>1. Unused(t) => Unused(t)'
  BY DEF Unused
<1>2. UnusedBefore(t)'
  BY <1>1 DEF SlotInv, UnusedBefore
<1>3. SpsPpsIsFirst(t)'
  BY DEF SlotInv, SpsPpsIsFirst
<1>4. FirstFrameKept(t)'
  BY DEF SlotInv, FirstFrameKept, IsFirstFrame
<1>5. QED BY <1>2, <1>3, <1>4 DEF SlotInv

(* Only a slot without a publisher gets one.                                   *)
LEMMA MaskKeepsSlots ==
  ASSUME OneEach, TypeOK, \A s \in Slots : SlotInv(s), readMask
  PROVE  \A s \in Slots : SlotInv(s)'
<1>1. PICK mask \in SUBSET Slots \ {{}}, fresh \in SUBSET Slots :
        /\ mask \ online \subseteq fresh
        /\ \A s \in fresh : source[s].number < MaxPublishers
        /\ online' = mask
        /\ source' = [s \in Slots |-> IF s \in fresh THEN NewPublisher(source[s].number + 1)
                                                     ELSE source[s]]
  BY DEF readMask
<1>2. parser' = parser /\ videoQueue' = videoQueue /\ rawVideoData' = rawVideoData
      /\ decoder' = decoder
  BY DEF readMask, parseVars, queueVars
<1>3. TAKE s \in Slots
<1>4. CASE s \notin fresh
  <2>1. s \in online' => s \in online
    BY <1>1, <1>4
  <2>2. source'[s] = source[s]
    BY <1>1, <1>3, <1>4
  <2>3. QED BY <1>2, <1>3, <2>1, <2>2, SlotAlone
<1>5. CASE s \in fresh
  <2>1. source[s].number = 0
    BY <1>1, <1>3, <1>5, MixCoderAssumption DEF OneEach, TypeOK
  <2>2. source'[s].number = 1
    BY <1>1, <1>3, <1>5, <2>1 DEF NewPublisher
  <2>3. Unused(s)'
    BY <1>2, <1>3, <2>1 DEF SlotInv, UnusedBefore, Unused
  <2>4. UnusedBefore(s)'
    BY <2>2, <2>3 DEF UnusedBefore
  <2>5. SpsPpsIsFirst(s)' /\ FirstFrameKept(s)'
    BY <1>2, <1>3 DEF SlotInv, SpsPpsIsFirst, FirstFrameKept, IsFirstFrame
  <2>6. QED BY <2>4, <2>5 DEF SlotInv
<1>6. QED BY <1>4, <1>5

(* The other slots, when a tag of one slot is read.                              *)
LEMMA OtherSlots ==
  ASSUME TypeOK, \A s \in Slots : SlotInv(s), NEW s \in Slots,
         readSpsPps(s) \/ readVideo(s) \/ readAudio(s), NEW t \in Slots, t # s
  PROVE  SlotInv(t)'
<1>1. source'[t] = source[t] /\ online' = online /\ rawVideoData' = rawVideoData
  BY DEF readSpsPps, readVideo, readAudio, Untouched, TypeOK
<1>2. parser'[t] = parser[t]
  BY DEF readSpsPps, readVideo, readAudio, Parse, TypeOK
<1>3. videoQueue'[t] = videoQueue[t]
  <2>1. (\E v : enqueueVideo(s, v)) \/ videoQueue' = videoQueue
    <3>1. CASE readSpsPps(s)
      BY <3>1 DEF readSpsPps
    <3>2. CASE readVideo(s)
      BY <3>2 DEF readVideo
    <3>3. CASE readAudio(s)
      BY <3>3 DEF readAudio
    <3>4. QED BY <3>1, <3>2, <3>3
  <2>2. QED BY <2>1 DEF enqueueVideo, TypeOK
<1>4. decoder'[t] = decoder[t]
  BY DEF readSpsPps, readVideo, readAudio, TypeOK
<1>5. QED BY <1>1, <1>2, <1>3, <1>4, SlotAlone

(* The one SPS/PPS of the slot comes before its frames.                          *)
LEMMA SpsPpsKeepsSlot ==
  ASSUME OneEach, TypeOK, NEW s \in Slots, SlotInv(s), readSpsPps(s)
  PROVE  SlotInv(s)'
<1>1. PICK c \in SpsPps :
        LET tag == [st |-> "video", sps |-> c, ts |-> source[s].video]
        IN  /\ Parse(s, tag)
            /\ IF IsFrameReady(parser[s], tag)
               THEN /\ decoder' = [decoder EXCEPT ![s].bHasFirstFrameStarted = FALSE]
                    /\ enqueueVideo(s, [sp |-> "SpsPps", pts |-> Pts(s, tag)])
               ELSE UNCHANGED <<decoder, videoQueue, videoStreamStatus>>
  BY DEF readSpsPps
<1> DEFINE tag == [st |-> "video", sps |-> c, ts |-> source[s].video]
<1>2. source[s].spsPps = 0
  <2>1. source[s].spsPps < MaxSpsPps
    BY DEF readSpsPps
  <2>2. source[s].spsPps \in Nat
    BY DEF TypeOK
  <2>3. QED BY <2>1, <2>2, MixCoderAssumption DEF OneEach
<1>3. Unused(s)
  BY <1>2 DEF SlotInv, UnusedBefore
<1>4. s \in online /\ online' = online /\ rawVideoData' = rawVideoData
  BY DEF readSpsPps, Sends, Untouched
<1>5. UnusedBefore(s)'
  <2>1. source' = [source EXCEPT ![s] = [source[s] EXCEPT !.spsPps = source[s].spsPps + 1]]
    BY DEF readSpsPps
  <2>2. source[s] \in Publisher /\ source \in [Slots -> Publisher]
    BY DEF TypeOK, Publisher
  <2>3. source'[s].number = source[s].number /\ source'[s].spsPps = 1
    BY <1>2, <2>1, <2>2 DEF Publisher
  <2>4. source[s].number # 0
    BY <1>4 DEF SlotInv, UnusedBefore
  <2>5. QED BY <2>3, <2>4 DEF UnusedBefore
<1>6. CASE UNCHANGED <<decoder, videoQueue>>
  BY <1>4, <1>5, <1>6 DEF SlotInv, SpsPpsIsFirst, FirstFrameKept, IsFirstFrame
<1>7. CASE /\ decoder' = [decoder EXCEPT ![s].bHasFirstFrameStarted = FALSE]
           /\ enqueueVideo(s, [sp |-> "SpsPps", pts |-> Pts(s, tag)])
  <2> DEFINE v == [sp |-> "SpsPps", pts |-> Pts(s, tag)]
  <2>1. Pts(s, tag) = 1
    <3>1. tag.sps # None
      BY MixCoderAssumption
    <3>2. QED BY <1>3, <3>1 DEF Pts, AdjustedPts, IsSps, Unused
  <2>2. videoQueue'[s] = Append(<<>>, v)
    BY <1>3, <1>7 DEF enqueueVideo, Unused, TypeOK
  <2>3. DOMAIN videoQueue'[s] = {1} /\ videoQueue'[s][1] = v
    BY <2>2
  <2>4. ~decoder'[s].bHasFirstFrameStarted
    BY <1>7 DEF TypeOK
  <2>5. rawVideoData'[s] = None
    BY <1>3, <1>4 DEF Unused
  <2>6. SpsPpsIsFirst(s)'
    BY <2>1, <2>3, <2>5 DEF SpsPpsIsFirst
  <2>7. FirstFrameKept(s)'
    BY <2>3, <2>4 DEF FirstFrameKept
  <2>8. QED BY <1>5, <2>6, <2>7 DEF SlotInv
<1>8. \/ UNCHANGED <<decoder, videoQueue>>
      \/ /\ decoder' = [decoder EXCEPT ![s].bHasFirstFrameStarted = FALSE]
         /\ enqueueVideo(s, [sp |-> "SpsPps", pts |-> Pts(s, tag)])
  BY <1>1
<1>9. QED BY <1>6, <1>7, <1>8

LEMMA VideoKeepsSlot ==
  ASSUME TypeOK, NEW s \in Slots, SlotInv(s), readVideo(s)
  PROVE  SlotInv(s)'
<1> DEFINE tag == [st |-> "video", sps |-> None, ts |-> source[s].video]
           v == [sp |-> "RawData", pts |-> Pts(s, tag)]
           q == videoQueue[s]
<1>1. \/ /\ enqueueVideo(s, v)
         /\ decoder' = [decoder EXCEPT ![s] =
              IF @.bHasFirstFrameStarted THEN @
              ELSE [bHasFirstFrameStarted |-> TRUE, firstFramePts |-> Pts(s, tag)]]
      \/ UNCHANGED <<decoder, videoQueue>>
  BY DEF readVideo
<1>2. s \in online /\ online' = online /\ rawVideoData' = rawVideoData
  BY DEF readVideo, Sends, Untouched
<1> HIDE DEF tag
<1>3. UnusedBefore(s)'
  <2>1. PICK d \in VideoSteps :
          source' = [source EXCEPT ![s] = [source[s] EXCEPT !.video = source[s].video + d]]
    BY DEF readVideo
  <2>2. source[s] \in Publisher /\ source \in [Slots -> Publisher]
    BY DEF TypeOK, Publisher
  <2>3. source'[s].number = source[s].number /\ source'[s].spsPps = source[s].spsPps
    BY <2>1, <2>2 DEF Publisher
  <2>4. source[s].number # 0
    BY <1>2 DEF SlotInv, UnusedBefore
  <2>5. source[s].spsPps # 0
    BY DEF readVideo, TypeOK
  <2>6. QED BY <2>3, <2>4, <2>5 DEF UnusedBefore
<1>4. CASE UNCHANGED <<decoder, videoQueue>>
  BY <1>2, <1>3, <1>4 DEF SlotInv, SpsPpsIsFirst, FirstFrameKept, IsFirstFrame
<1>5. CASE /\ enqueueVideo(s, v)
           /\ decoder' = [decoder EXCEPT ![s] =
                IF @.bHasFirstFrameStarted THEN @
                ELSE [bHasFirstFrameStarted |-> TRUE, firstFramePts |-> Pts(s, tag)]]
  <2>1. q \in Seq(VideoRawData) /\ Len(q) \in Nat /\ DOMAIN q = 1 .. Len(q)
    BY DEF TypeOK
  <2>2. videoQueue'[s] = Append(q, v)
    BY <1>5 DEF enqueueVideo, TypeOK
  <2>3. /\ DOMAIN videoQueue'[s] = 1 .. Len(q) + 1
        /\ videoQueue'[s][Len(q) + 1] = v
        /\ \A k \in 1 .. Len(q) : videoQueue'[s][k] = q[k]
    <3> HIDE DEF v, q
    <3>1. QED BY <2>1, <2>2
  <2>4. v.sp = "RawData" /\ v.sp # "SpsPps" /\ v.pts = Pts(s, tag)
    OBVIOUS
  <2> HIDE DEF v
  <2>5. SpsPpsIsFirst(s)'
    <3>1. SUFFICES ASSUME NEW k \in 1 .. Len(q) + 1, videoQueue'[s][k].sp = "SpsPps"
                   PROVE  k = 1 /\ videoQueue'[s][k].pts = 1 /\ rawVideoData'[s] = None
      BY <2>3 DEF SpsPpsIsFirst
    <3>2. k # Len(q) + 1
      BY <2>3, <2>4, <3>1
    <3>3. k \in 1 .. Len(q) /\ videoQueue'[s][k] = q[k]
      BY <2>1, <2>3, <3>1, <3>2
    <3>4. QED BY <1>2, <2>1, <3>1, <3>3 DEF SlotInv, SpsPpsIsFirst
  <2>6. decoder'[s].bHasFirstFrameStarted
    BY <1>5 DEF TypeOK
  <2>7. FirstFrameKept(s)'
    <3>1. CASE decoder[s].bHasFirstFrameStarted
      <4>1. decoder'[s] = decoder[s]
        BY <1>5, <3>1 DEF TypeOK
      <4>2. CASE rawVideoData[s] = "RawData" /\ \A k \in DOMAIN q : q[k].sp # "SpsPps"
        <5>1. \A k \in DOMAIN videoQueue'[s] : videoQueue'[s][k].sp # "SpsPps"
          <6>1. TAKE k \in DOMAIN videoQueue'[s]
          <6>2. CASE k = Len(q) + 1
            BY <2>3, <2>4, <6>2
          <6>3. CASE k # Len(q) + 1
            <7>1. k \in 1 .. Len(q)
              BY <2>1, <2>3, <6>1, <6>3
            <7>2. QED BY <2>1, <2>3, <4>2, <7>1
          <6>4. QED BY <6>2, <6>3
        <5>2. QED BY <1>2, <2>6, <4>2, <5>1 DEF FirstFrameKept
      <4>3. CASE \E k \in DOMAIN q : IsFirstFrame(s, k)
        <5>1. PICK k \in DOMAIN q : IsFirstFrame(s, k)
          BY <4>3
        <5>2. k \in 1 .. Len(q) + 1 /\ \A j \in 1 .. k - 1 : j \in 1 .. Len(q)
          BY <2>1, <5>1
        <5>3. IsFirstFrame(s, k)'
          BY <2>1, <2>3, <4>1, <5>1, <5>2 DEF IsFirstFrame
        <5>4. QED BY <2>3, <2>6, <5>2, <5>3 DEF FirstFrameKept
      <4>4. QED BY <3>1, <4>2, <4>3 DEF SlotInv, FirstFrameKept
    <3>2. CASE ~decoder[s].bHasFirstFrameStarted
      <4>1. decoder'[s].firstFramePts = Pts(s, tag)
        BY <1>5, <3>2 DEF TypeOK
      <4>2. \A k \in 1 .. Len(q) : videoQueue'[s][k].sp = "SpsPps"
        BY <2>1, <2>3, <3>2 DEF SlotInv, FirstFrameKept
      <4>3. PICK last \in Nat : last = Len(q) + 1
        BY <2>1
      <4>4. IsFirstFrame(s, last)'
        <5>1. \A j \in 1 .. last - 1 : videoQueue'[s][j].sp = "SpsPps"
          BY <2>1, <4>2, <4>3
        <5>2. v = [sp |-> "RawData", pts |-> decoder'[s].firstFramePts]
          BY <4>1 DEF v
        <5>3. QED BY <2>3, <4>3, <5>1, <5>2 DEF IsFirstFrame
      <4>5. last \in DOMAIN videoQueue'[s]
        BY <2>1, <2>3, <4>3
      <4>6. QED BY <2>6, <4>4, <4>5 DEF FirstFrameKept
    <3>3. QED BY <3>1, <3>2
  <2>8. QED BY <1>3, <2>5, <2>7 DEF SlotInv
<1>6. QED BY <1>1, <1>4, <1>5

(* A tag of audio does not touch what belongs to the pictures.                   *)
LEMMA AudioKeepsSlot ==
  ASSUME TypeOK, NEW s \in Slots, SlotInv(s), readAudio(s)
  PROVE  SlotInv(s)'
<1>1. s \in online /\ online' = online /\ rawVideoData' = rawVideoData
      /\ decoder' = decoder /\ videoQueue' = videoQueue
  BY DEF readAudio, Sends
<1>2. PICK d \in AudioSteps :
        source' = [source EXCEPT ![s] = [source[s] EXCEPT !.audio = source[s].audio + d]]
  BY DEF readAudio
<1>3. source'[s].number = source[s].number /\ source'[s].spsPps = source[s].spsPps
  <2>1. source[s] \in Publisher /\ source \in [Slots -> Publisher]
    BY DEF TypeOK, Publisher
  <2>2. QED BY <1>2, <2>1 DEF Publisher
<1>4. parser'[s].prevVideo = parser[s].prevVideo
  <2> DEFINE tag == [st |-> "audio", sps |-> None, ts |-> source[s].audio]
  <2>1. parser'[s] = Parsed(parser[s], tag, globalAudioTimestamp)
    BY DEF readAudio, Parse, TypeOK
  <2>2. IsAudio(tag) /\ parser[s] \in Parser
    BY DEF IsAudio, TypeOK
  <2> HIDE DEF tag
  <2>3. QED BY <2>1, <2>2 DEF Parsed, Parser
<1>5. Unused(s) => Unused(s)'
  BY <1>1, <1>4 DEF Unused
<1>6. UnusedBefore(s)'
  BY <1>1, <1>3, <1>5 DEF SlotInv, UnusedBefore
<1>7. SpsPpsIsFirst(s)' /\ FirstFrameKept(s)'
  BY <1>1 DEF SlotInv, SpsPpsIsFirst, FirstFrameKept, IsFirstFrame
<1>8. QED BY <1>6, <1>7 DEF SlotInv
-----------------------------------------------------------------------------
(* What popVideo does to the video of one slot: n frames go, the last of them is   *)
(* kept, and if the slot is mixed the frame the decoder started with is due.  *)
LEMMA PopOfSlot ==
  ASSUME TypeOK, popVideo, NEW s \in Slots
  PROVE  \E n \in 0 .. Len(videoQueue[s]) :
           /\ videoQueue'[s] = SubSeq(videoQueue[s], n + 1, Len(videoQueue[s]))
           /\ rawVideoData'[s] = IF n = 0 THEN rawVideoData[s] ELSE videoQueue[s][n].sp
           /\ \A i \in 1 .. n : videoQueue[s][i].pts <= videoTimestamp
           /\ s \in mixed' =>
                /\ decoder[s].bHasFirstFrameStarted /\ decoder[s].firstFramePts <= videoTimestamp
                /\ rawVideoData'[s] # None
                /\ \A k \in 0 .. Len(videoQueue[s]) :
                     (\A i \in 1 .. k : videoQueue[s][i].pts <= videoTimestamp) => k <= n
<1> DEFINE started == Started(videoStreamStatus)
           n == [t \in Slots |-> IF t \in started THEN Popped(t) ELSE 0]
<1>1. /\ videoQueue' = [t \in Slots |-> SubSeq(videoQueue[t], n[t] + 1, Len(videoQueue[t]))]
      /\ rawVideoData' = [t \in Slots |-> IF n[t] = 0 THEN rawVideoData[t]
                                          ELSE videoQueue[t][n[t]].sp]
      /\ mixed' \subseteq {t \in started : hasFirstFrameDecoded(t) /\ rawVideoData'[t] # None}
  BY DEF popVideo
<1>2. CASE s \in started
  <2>1. n[s] = Popped(s)
    BY <1>2
  <2>2. s \in mixed' => hasFirstFrameDecoded(s) /\ rawVideoData'[s] # None
    BY <1>1
  <2> HIDE DEF n
  <2>3. QED BY <1>1, <2>1, <2>2, PoppedIsTheMost DEF hasFirstFrameDecoded
<1>3. CASE s \notin started
  <2>1. n[s] = 0 /\ s \notin mixed'
    BY <1>1, <1>3
  <2>2. Len(videoQueue[s]) \in Nat
    BY DEF TypeOK
  <2> HIDE DEF n
  <2>3. WITNESS 0 \in 0 .. Len(videoQueue[s])
  <2>4. QED BY <1>1, <2>1, <2>2
<1>4. QED BY <1>2, <1>3

(* Frames are taken out from the front: the one the decoder started with stays,  *)
(* or a picture is kept; and a slot that is mixed has got that far.          *)
LEMMA PopKeepsSlot ==
  ASSUME TypeOK, popVideo, NEW s \in Slots, SlotInv(s)
  PROVE  SlotInv(s)' /\ (s \in mixed' => rawVideoData'[s] = "RawData")
<1> DEFINE q == videoQueue[s]
<1>1. PICK n \in 0 .. Len(q) :
           /\ videoQueue'[s] = SubSeq(q, n + 1, Len(q))
           /\ rawVideoData'[s] = IF n = 0 THEN rawVideoData[s] ELSE q[n].sp
           /\ \A i \in 1 .. n : q[i].pts <= videoTimestamp
           /\ s \in mixed' =>
                /\ decoder[s].bHasFirstFrameStarted /\ decoder[s].firstFramePts <= videoTimestamp
                /\ rawVideoData'[s] # None
                /\ \A k \in 0 .. Len(q) :
                     (\A i \in 1 .. k : q[i].pts <= videoTimestamp) => k <= n
  BY PopOfSlot
<1>2. q \in Seq(VideoRawData) /\ Len(q) \in Nat /\ DOMAIN q = 1 .. Len(q)
  BY DEF TypeOK
<1>3. source' = source /\ online' = online /\ parser' = parser /\ decoder' = decoder
  BY DEF popVideo, Unparsed, sourceVars, parseVars
<1>4. /\ DOMAIN videoQueue'[s] = 1 .. Len(q) - n
      /\ \A k \in 1 .. Len(q) - n : videoQueue'[s][k] = q[k + n]
  <2> HIDE DEF q
  <2>1. QED BY <1>1, <1>2
<1>5. \A k \in 1 .. Len(q) : q[k].sp \in {"SpsPps", "RawData"}
  <2>1. \A k \in 1 .. Len(q) : q[k] \in VideoRawData
    BY <1>2, ElementOfSeq
  <2>2. QED BY <2>1 DEF VideoRawData
<1>6. SpsPpsIsFirst(s) /\ FirstFrameKept(s) /\ UnusedBefore(s)
  BY DEF SlotInv
<1>7. Unused(s) => Unused(s)'
  <2> SUFFICES ASSUME Unused(s) PROVE Unused(s)'
    OBVIOUS
  <2>1. q = <<>> /\ n = 0
    BY <1>1 DEF Unused
  <2>2. rawVideoData'[s] = rawVideoData[s] /\ videoQueue'[s] = <<>>
    BY <1>1, <2>1
  <2>3. QED BY <1>3, <2>2 DEF Unused
<1>8. UnusedBefore(s)'
  BY <1>3, <1>6, <1>7 DEF UnusedBefore
<1> HIDE DEF q
<1>9. n # 0 => \A k \in DOMAIN videoQueue'[s] : videoQueue'[s][k].sp # "SpsPps"
  <2> SUFFICES ASSUME n # 0, NEW k \in 1 .. Len(q) - n PROVE q[k + n].sp # "SpsPps"
    BY <1>4
  <2>1. k + n \in 1 .. Len(q) /\ k + n # 1
    BY <1>1, <1>2
  <2>2. QED BY <1>2, <1>6, <2>1 DEF SpsPpsIsFirst, q
<1>10. n = 0 => videoQueue'[s] = q /\ rawVideoData'[s] = rawVideoData[s]
  BY <1>1, <1>2
<1>11. SpsPpsIsFirst(s)'
  <2>1. CASE n = 0
    BY <1>6, <1>10, <2>1 DEF SpsPpsIsFirst, q
  <2>2. CASE n # 0
    BY <1>9, <2>2 DEF SpsPpsIsFirst
  <2>3. QED BY <2>1, <2>2
<1>12. FirstFrameKept(s)'
  <2>1. CASE n = 0
    BY <1>3, <1>6, <1>10, <2>1 DEF FirstFrameKept, IsFirstFrame, q
  <2>2. CASE n # 0 /\ ~decoder[s].bHasFirstFrameStarted
    <3>1. \A k \in 1 .. Len(q) - n : q[k + n].sp = "SpsPps"
      <4>1. TAKE k \in 1 .. Len(q) - n
      <4>2. k + n \in 1 .. Len(q)
        BY <1>1, <1>2
      <4>3. QED BY <1>2, <1>6, <2>2, <4>2 DEF FirstFrameKept, q
    <3>2. QED BY <1>3, <1>4, <2>2, <3>1 DEF FirstFrameKept
  <2>3. CASE n # 0 /\ decoder[s].bHasFirstFrameStarted
    <3>1. CASE rawVideoData'[s] = "RawData"
      BY <1>3, <1>9, <2>3, <3>1 DEF FirstFrameKept
    <3>2. CASE rawVideoData'[s] # "RawData"
      <4>1. n \in 1 .. Len(q) /\ q[n].sp = "SpsPps"
        BY <1>1, <1>2, <1>5, <2>3, <3>2
      <4>2. PICK k \in 1 .. Len(q) : IsFirstFrame(s, k)
        BY <1>2, <1>6, <2>3, <4>1 DEF FirstFrameKept, q
      <4>3. n = 1
        BY <1>2, <1>6, <4>1 DEF SpsPpsIsFirst, q
      <4>4. k # 1
        BY <4>1, <4>2, <4>3 DEF IsFirstFrame, q
      <4>5. k = 2
        <5> SUFFICES ASSUME k > 2 PROVE FALSE
          BY <4>4
        <5>1. 2 \in 1 .. k - 1 /\ 2 \in 1 .. Len(q)
          BY <1>2
        <5>2. q[2].sp = "SpsPps"
          BY <4>2, <5>1 DEF IsFirstFrame, q
        <5>3. QED BY <1>2, <1>6, <5>1, <5>2 DEF SpsPpsIsFirst, q
      <4>6. 1 \in DOMAIN videoQueue'[s] /\ videoQueue'[s][1] = q[2]
        BY <1>2, <1>4, <4>2, <4>3, <4>5
      <4>7. IsFirstFrame(s, 1)'
        BY <1>3, <4>2, <4>5, <4>6 DEF IsFirstFrame, q
      <4>8. QED BY <1>3, <2>3, <4>6, <4>7 DEF FirstFrameKept
    <3>3. QED BY <3>1, <3>2
  <2>4. QED BY <2>1, <2>2, <2>3
<1>13. s \in mixed' => rawVideoData'[s] = "RawData"
  <2> SUFFICES ASSUME s \in mixed', rawVideoData'[s] # "RawData" PROVE FALSE
    OBVIOUS
  <2>1. /\ decoder[s].bHasFirstFrameStarted /\ decoder[s].firstFramePts <= videoTimestamp
        /\ rawVideoData'[s] # None
    BY <1>1
  <2>2. \E k \in 1 .. Len(q) : IsFirstFrame(s, k)
    <3>1. CASE n = 0
      BY <1>2, <1>6, <1>10, <2>1, <3>1 DEF FirstFrameKept, q
    <3>2. CASE n # 0
      <4>1. n \in 1 .. Len(q) /\ q[n].sp = "SpsPps"
        BY <1>1, <1>2, <1>5, <3>2
      <4>2. QED BY <1>2, <1>6, <2>1, <4>1 DEF FirstFrameKept, q
    <3>3. QED BY <3>1, <3>2
  <2>3. PICK k \in 1 .. Len(q) : IsFirstFrame(s, k)
    BY <2>2
  <2>4. q[k].sp = "RawData" /\ q[k].pts <= videoTimestamp
    BY <2>1, <2>3 DEF IsFirstFrame, q
  <2>5. CASE n = 0
    <3>1. k # 1
      <4> SUFFICES ASSUME k = 1 PROVE FALSE
        OBVIOUS
      <4>1. \A i \in 1 .. 1 : q[i].pts <= videoTimestamp
        BY <2>4
      <4>2. 1 \in 0 .. Len(q)
        BY <1>2
      <4>3. (\A i \in 1 .. 1 : q[i].pts <= videoTimestamp) => 1 <= n
        BY <1>1, <4>2
      <4>4. QED BY <2>5, <4>1, <4>3
    <3>2. 1 \in 1 .. k - 1 /\ 1 \in DOMAIN q
      BY <1>2, <3>1
    <3>3. q[1].sp = "SpsPps"
      BY <2>3, <3>2 DEF IsFirstFrame, q
    <3>4. rawVideoData[s] = None
      BY <1>6, <3>2, <3>3 DEF SpsPpsIsFirst, q
    <3>5. QED BY <1>10, <2>1, <2>5, <3>4
  <2>6. CASE n # 0
    <3>1. n \in 1 .. Len(q) /\ q[n].sp = "SpsPps"
      BY <1>1, <1>2, <1>5, <2>6
    <3>2. n = 1 /\ q[1].sp = "SpsPps"
      BY <1>2, <1>6, <3>1 DEF SpsPpsIsFirst, q
    <3>3. \A j \in 1 .. k - 1 : j = 1
      <4>1. TAKE j \in 1 .. k - 1
      <4>2. j \in 1 .. Len(q) /\ q[j].sp = "SpsPps"
        BY <1>2, <2>3 DEF IsFirstFrame, q
      <4>3. QED BY <1>2, <1>6, <4>2 DEF SpsPpsIsFirst, q
    <3>4. \A i \in 1 .. k : q[i].pts <= videoTimestamp
      <4>1. TAKE i \in 1 .. k
      <4>2. CASE i = k
        BY <2>4, <4>2
      <4>3. CASE i # k
        <5>1. i = 1
          BY <3>3, <4>3
        <5>2. QED BY <1>1, <3>1, <3>2, <5>1
      <4>4. QED BY <4>2, <4>3
    <3>5. k <= n
      BY <1>1, <1>2, <3>4
    <3>6. QED BY <2>4, <3>2, <3>5
  <2>7. QED BY <2>5, <2>6
<1>14. QED BY <1>8, <1>11, <1>12, <1>13 DEF SlotInv
-----------------------------------------------------------------------------
LEMMA NextKeepsAssertions ==
  ASSUME OneEach, TypeOK, AssertionInv, [Next]_vars
  PROVE  AssertionInv'
<1>1. \A s \in Slots : SlotInv(s)
  BY DEF AssertionInv
<1>2. CASE readMask
  <2>1. \A s \in Slots : SlotInv(s)'
    BY <1>1, <1>2, MaskKeepsSlots
  <2>2. running' = running /\ mixed' = mixed /\ rawVideoData' = rawVideoData
    BY <1>2 DEF readMask, outVars
  <2>3. QED BY <2>1, <2>2 DEF AssertionInv, NoAssertionFails, MixedHavePictures
<1>3. ASSUME NEW s \in Slots, readSpsPps(s) \/ readVideo(s) \/ readAudio(s)
      PROVE  AssertionInv'
  <2>1. \A t \in Slots : SlotInv(t)'
    <3>1. TAKE t \in Slots
    <3>2. CASE t # s
      BY <1>1, <1>3, <3>2, OtherSlots
    <3>3. CASE t = s
      BY <1>1, <1>3, <3>3, SpsPpsKeepsSlot, VideoKeepsSlot, AudioKeepsSlot
    <3>4. QED BY <3>2, <3>3
  <2>2. running' = running /\ mixed' = mixed /\ rawVideoData' = rawVideoData
    BY <1>3 DEF readSpsPps, readVideo, readAudio, Untouched, outVars
  <2>3. QED BY <2>1, <2>2 DEF AssertionInv, NoAssertionFails, MixedHavePictures
<1>4. CASE newInput \/ notReady \/ popAudio \/ UNCHANGED vars
  <2>1. /\ source' = source /\ online' = online /\ parser' = parser /\ decoder' = decoder
        /\ videoQueue' = videoQueue /\ rawVideoData' = rawVideoData
    BY <1>4 DEF newInput, notReady, popAudio, vars, Unparsed, sourceVars, parseVars, queueVars
  <2>2. \A s \in Slots : SlotInv(s)'
    BY <1>1, <2>1, SlotAlone
  <2>3. mixed' = mixed \/ mixed' = {}
    BY <1>4 DEF newInput, notReady, popAudio, vars, outVars
  <2>4. running'
    <3>1. CASE popAudio
      <4>1. AssertionsHold
        BY <1>1, <3>1, AssertionsHoldHere DEF popAudio, SlotInv
      <4>2. \A s \in Started(audioStreamStatus) : audioQueue[s] # <<>>
        BY <3>1 DEF popAudio, isNextAudioStreamReady
      <4>3. QED BY <3>1, <4>1, <4>2 DEF popAudio
    <3>2. CASE newInput \/ notReady \/ UNCHANGED vars
      BY <3>2 DEF newInput, notReady, vars, AssertionInv, NoAssertionFails
    <3>3. QED BY <1>4, <3>1, <3>2
  <2>5. QED BY <2>1, <2>2, <2>3, <2>4 DEF AssertionInv, NoAssertionFails, MixedHavePictures
<1>5. CASE popVideo
  <2>1. \A s \in Slots : SlotInv(s)' /\ (s \in mixed' => rawVideoData'[s] = "RawData")
    BY <1>1, <1>5, PopKeepsSlot
  <2>2. mixed' \subseteq Slots
    BY <1>5 DEF popVideo, Started
  <2>3. running'
    <3>1. AssertionsHold
      BY <1>1, <1>5, AssertionsHoldHere DEF popVideo, SlotInv
    <3>2. QED BY <1>5, <3>1 DEF popVideo
  <2>4. QED BY <2>1, <2>2, <2>3 DEF AssertionInv, NoAssertionFails, MixedHavePictures
<1>6. QED BY <1>2, <1>3, <1>4, <1>5 DEF Next

LEMMA AssertionInvariant == OneEach => (Spec => []AssertionInv)
<1> SUFFICES ASSUME OneEach PROVE Spec => []AssertionInv
  OBVIOUS
<1>1. Init => AssertionInv
  <2> SUFFICES ASSUME Init PROVE AssertionInv
    OBVIOUS
  <2>1. \A s \in Slots : Unused(s) /\ s \notin online
    BY DEF Init, Unused, NewParser
  <2>2. \A s \in Slots : SpsPpsIsFirst(s) /\ FirstFrameKept(s)
    BY <2>1 DEF Unused, SpsPpsIsFirst, FirstFrameKept
  <2>3. QED BY <2>1, <2>2 DEF Init, AssertionInv, SlotInv, UnusedBefore, NoAssertionFails,
                              MixedHavePictures
<1>2. TypeOK /\ AssertionInv /\ [Next]_vars => AssertionInv'
  BY NextKeepsAssertions
<1>3. QED BY <1>1, <1>2, TypeCorrect, PTL DEF Spec

(* mix_coder does not abort while every slot has one publisher with one SPS/PPS: *)
(* the assertions of isNextVideoStreamReady hold and getOutput gets a frame of  *)
(* every started slot.  With a second SPS/PPS it does abort.                *)
THEOREM OnePublisherNeverAborts ==
  ASSUME MaxSpsPps <= 1, MaxPublishers <= 1
  PROVE  Spec => []NoAssertionFails
<1>1. OneEach
  BY DEF OneEach
<1>2. AssertionInv => NoAssertionFails
  BY DEF AssertionInv
<1>3. QED BY <1>1, <1>2, AssertionInvariant, PTL

(* Then a slot that is mixed has a decoded picture, never that of a SPS/PPS.    *)
THEOREM OnePublisherIsMixedDecoded ==
  ASSUME MaxSpsPps <= 1, MaxPublishers <= 1
  PROVE  Spec => []MixedHavePictures
<1>1. OneEach
  BY DEF OneEach
<1>2. AssertionInv => MixedHavePictures
  BY DEF AssertionInv
<1>3. QED BY <1>1, <1>2, AssertionInvariant, PTL
-----------------------------------------------------------------------------
(* While the frames counted for a slot are no more than the drift ahead of its    *)
(* publisher's clock, the audio that is mixed goes back only for a stream     *)
(* that was added: for any publishers and any tags.                          *)
NextMapped(m) == m.starting + m.cnt * AudioFrame

(* The condition: mix_coder's count of a slot is not too far ahead.               *)
CountClose ==
  \A s \in Slots : audioTsMapper[s].starting # None =>
    NextMapped(audioTsMapper[s]) <= audioTsMapper[s].cur + Drift

(* What is queued is in order and before what is mapped next.                  *)
QueueFollows(m, q) ==
  /\ m.starting # None => m.cur # None
  /\ q # <<>> => m.starting # None
  /\ \A i \in DOMAIN q : q[i] <= NextMapped(m)
  /\ \A i, j \in DOMAIN q : i < j => q[i] <= q[j]

(* What a stream that was mixed before has to come is not before the output last.  *)
NotBefore(last, m, q) ==
  /\ m.starting # None /\ last <= NextMapped(m)
  /\ \A i \in DOMAIN q : last <= q[i]
AudioInOrder ==
  /\ \A s \in Slots : QueueFollows(audioTsMapper[s], audioQueue[s])
  /\ ~audioJoined => \A s \in Started(audioStreamStatus) :
                         NotBefore(lastAudio, audioTsMapper[s], audioQueue[s])

LEMMA NextMappedIsNatural ==
  ASSUME NEW m \in Mapper, m.starting # None PROVE NextMapped(m) \in Nat
<1>1. m.starting \in Nat /\ m.cnt \in Nat
  BY DEF Mapper
<1>2. m.cnt * AudioFrame \in Nat
  BY <1>1, TimestampsAssumption
<1>3. QED BY <1>1, <1>2 DEF NextMapped

(* A frame that is mapped takes the time that was next, or a later one when the     *)
(* count restarts, and the time that is next moves on by a frame.             *)
LEMMA MappingAdvances ==
  ASSUME NEW m \in Mapper, NEW ts \in Nat
  PROVE  /\ Mapped(m, ts).starting # None /\ Mapped(m, ts).cur = ts
         /\ NextMapped(Mapped(m, ts)) = MappedPts(m, ts) + AudioFrame
         /\ Restarts(m, ts) => MappedPts(m, ts) = ts
         /\ ~Restarts(m, ts) => m.starting # None /\ MappedPts(m, ts) = NextMapped(m)
<1>1. ts # None /\ AudioFrame \in Nat
  BY TimestampsAssumption
<1>2. CASE Restarts(m, ts)
  <2>1. Mapped(m, ts) = [starting |-> ts, cnt |-> 1, cur |-> ts] /\ MappedPts(m, ts) = ts
    BY <1>2 DEF Mapped, MappedPts
  <2>2. QED BY <1>1, <1>2, <2>1 DEF NextMapped
<1>3. CASE ~Restarts(m, ts)
  <2>1. /\ Mapped(m, ts) = [m EXCEPT !.cnt = m.cnt + 1, !.cur = ts]
        /\ MappedPts(m, ts) = m.starting + m.cnt * AudioFrame
    BY <1>3 DEF Mapped, MappedPts
  <2>2. m.starting # None /\ m.starting \in Nat /\ m.cnt \in Nat
    BY <1>3 DEF Restarts, Mapper
  <2>3. /\ Mapped(m, ts).starting = m.starting /\ Mapped(m, ts).cnt = m.cnt + 1
        /\ Mapped(m, ts).cur = ts
    BY <2>1 DEF Mapper
  <2>4. (m.cnt + 1) * AudioFrame = m.cnt * AudioFrame + AudioFrame /\ m.cnt * AudioFrame \in Nat
    BY <1>1, <2>2
  <2>5. QED BY <1>1, <1>3, <2>1, <2>2, <2>3, <2>4 DEF NextMapped
<1>4. QED BY <1>2, <1>3

(* The condition leaves no restart that goes back.                              *)
LEMMA MappingGoesForward ==
  ASSUME NEW m \in Mapper, NEW ts \in Nat, m.starting # None, m.cur # None,
         NextMapped(m) <= m.cur + Drift
  PROVE  NextMapped(m) <= MappedPts(m, ts)
<1>1. NextMapped(m) \in Nat /\ m.cur \in Nat /\ Drift \in Nat
  BY NextMappedIsNatural, TimestampsAssumption DEF Mapper
<1>2. CASE Restarts(m, ts)
  <2>1. ts > m.cur + Drift /\ MappedPts(m, ts) = ts
    BY <1>2, MappingAdvances DEF Restarts
  <2>2. QED BY <1>1, <2>1
<1>3. CASE ~Restarts(m, ts)
  BY <1>1, <1>3, MappingAdvances
<1>4. QED BY <1>2, <1>3

(* A tag of audio: the slot's mapper and queue are as before, or a frame is       *)
(* mapped and queued.                                                       *)
LEMMA TagOfAudio ==
  ASSUME TypeOK, NEW s \in Slots, readAudio(s)
  PROVE  /\ \A t \in Slots \ {s} : /\ audioTsMapper'[t] = audioTsMapper[t]
                                   /\ audioQueue'[t] = audioQueue[t]
         /\ lastAudio' = lastAudio
         /\ \/ audioTsMapper'[s] = audioTsMapper[s] /\ audioQueue'[s] = audioQueue[s]
            \/ LET pts == Pts(s, [st |-> "audio", sps |-> None, ts |-> source[s].audio])
                   m   == audioTsMapper[s]
               IN  /\ pts \in Nat
                   /\ audioTsMapper'[s] = Mapped(m, pts)
                   /\ audioQueue'[s] = Append(audioQueue[s], MappedPts(m, pts))
<1> DEFINE tag == [st |-> "audio", sps |-> None, ts |-> source[s].audio]
           m == audioTsMapper[s]
<1>1. tag \in Tag /\ ~IsSps(tag)
  BY DEF Tag, IsSps, TypeOK
<1>2. /\ lastAudio' = lastAudio
      /\ \/ UNCHANGED <<audioTsMapper, audioQueue, globalAudioTimestamp>>
         \/ /\ audioTsMapper' = [audioTsMapper EXCEPT ![s] = Mapped(m, Pts(s, tag))]
            /\ audioQueue' = [audioQueue EXCEPT ![s] = Append(@, MappedPts(m, Pts(s, tag)))]
  BY DEF readAudio, outVars
<1> HIDE DEF tag
<1>3. Pts(s, tag) \in Nat
  BY <1>1, PtsAreNatural DEF TypeOK, Pts
<1>4. /\ audioTsMapper \in [Slots -> Mapper] /\ audioQueue \in [Slots -> Seq(Nat)]
  BY DEF TypeOK
<1> HIDE DEF m
<1>5. QED BY <1>2, <1>3, <1>4 DEF tag, m

LEMMA AudioStaysInOrder ==
  ASSUME TypeOK, CountClose, AudioInOrder, NEW s \in Slots, readAudio(s)
  PROVE  AudioInOrder'
<1> DEFINE m == audioTsMapper[s]
           q == audioQueue[s]
           pts == Pts(s, [st |-> "audio", sps |-> None, ts |-> source[s].audio])
           v == MappedPts(m, pts)
<1>1. /\ m \in Mapper /\ q \in Seq(Nat) /\ Len(q) \in Nat /\ DOMAIN q = 1 .. Len(q)
      /\ QueueFollows(m, q)
  BY DEF TypeOK, AudioInOrder
<1>2. /\ audioStreamStatus' = [audioStreamStatus EXCEPT ![s] = "OnlineStarted"]
      /\ audioJoined' = (audioJoined \/ audioStreamStatus[s] # "OnlineStarted")
  BY DEF readAudio
<1>3. /\ \A t \in Slots \ {s} : audioTsMapper'[t] = audioTsMapper[t] /\ audioQueue'[t] = audioQueue[t]
      /\ lastAudio' = lastAudio
  BY TagOfAudio
<1>4. ~audioJoined' => ~audioJoined /\ Started(audioStreamStatus)' = Started(audioStreamStatus)
                       /\ s \in Started(audioStreamStatus)
  BY <1>2 DEF Started, TypeOK
<1>5. CASE audioTsMapper'[s] = m /\ audioQueue'[s] = q
  <2>1. \A t \in Slots : audioTsMapper'[t] = audioTsMapper[t] /\ audioQueue'[t] = audioQueue[t]
    BY <1>3, <1>5
  <2>2. Started(audioStreamStatus) \subseteq Slots
    BY DEF Started
  <2>3. QED BY <1>3, <1>4, <2>1, <2>2 DEF AudioInOrder
<1>6. CASE pts \in Nat /\ audioTsMapper'[s] = Mapped(m, pts) /\ audioQueue'[s] = Append(q, v)
  <2>1. /\ Mapped(m, pts).starting # None /\ Mapped(m, pts).cur # None
        /\ NextMapped(Mapped(m, pts)) = v + AudioFrame /\ v \in Nat /\ AudioFrame \in Nat
    <3> HIDE DEF m, q, pts
    <3>1. pts \in Nat /\ pts # None /\ AudioFrame \in Nat
      BY <1>6, TimestampsAssumption
    <3>2. v \in Nat
      BY <1>1, <3>1, MappedAreNatural DEF v
    <3>3. /\ Mapped(m, pts).starting # None /\ Mapped(m, pts).cur = pts
          /\ NextMapped(Mapped(m, pts)) = v + AudioFrame
      BY <1>1, <3>1, MappingAdvances DEF v
    <3>4. QED BY <3>1, <3>2, <3>3
  <2>2. m.starting # None => NextMapped(m) <= v /\ NextMapped(m) \in Nat
    <3>1. m.starting # None => m.cur # None /\ NextMapped(m) <= m.cur + Drift
      BY <1>1 DEF QueueFollows, CountClose
    <3> HIDE DEF m, pts
    <3>2. QED BY <1>1, <1>6, <3>1, MappingGoesForward, NextMappedIsNatural DEF v
  <2>3. \A i \in 1 .. Len(q) : q[i] \in Nat /\ m.starting # None /\ q[i] <= NextMapped(m)
    <3> HIDE DEF m, q
    <3>1. \A i \in 1 .. Len(q) : q[i] \in Nat /\ q # <<>>
      BY <1>1, ElementOfSeq
    <3>2. QED BY <1>1, <3>1 DEF QueueFollows
  <2>4. /\ DOMAIN Append(q, v) = 1 .. Len(q) + 1
        /\ Append(q, v)[Len(q) + 1] = v
        /\ \A i \in 1 .. Len(q) : Append(q, v)[i] = q[i]
    <3> HIDE DEF m, q, v
    <3>1. QED BY <1>1, <2>1, AppendProperties
  <2>5. \A i \in 1 .. Len(q) : q[i] <= v
    <3>1. TAKE i \in 1 .. Len(q)
    <3> HIDE DEF m, q, v
    <3>2. QED BY <2>1, <2>2, <2>3
  <2>6. QueueFollows(Mapped(m, pts), Append(q, v))
    <3> HIDE DEF m, q, v, pts
    <3>1. \A i \in 1 .. Len(q) + 1 : Append(q, v)[i] <= v + AudioFrame
      BY <1>1, <2>1, <2>3, <2>4, <2>5
    <3>2. ASSUME NEW i \in 1 .. Len(q) + 1, NEW j \in 1 .. Len(q) + 1, i < j
          PROVE  Append(q, v)[i] <= Append(q, v)[j]
      <4>1. i \in 1 .. Len(q)
        BY <1>1, <3>2
      <4>2. CASE j = Len(q) + 1
        BY <2>4, <2>5, <4>1, <4>2
      <4>3. CASE j \in 1 .. Len(q)
        BY <1>1, <2>4, <3>2, <4>1, <4>3 DEF QueueFollows
      <4>4. QED BY <1>1, <4>2, <4>3
    <3>3. QED BY <2>1, <2>4, <3>1, <3>2 DEF QueueFollows
  <2>7. ~audioJoined' => NotBefore(lastAudio, Mapped(m, pts), Append(q, v))
    <3> SUFFICES ASSUME ~audioJoined' PROVE NotBefore(lastAudio, Mapped(m, pts), Append(q, v))
      OBVIOUS
    <3>1. NotBefore(lastAudio, m, q) /\ lastAudio \in Nat
      BY <1>4 DEF AudioInOrder, TypeOK
    <3> HIDE DEF m, q, v, pts
    <3>2. lastAudio <= v /\ lastAudio <= NextMapped(Mapped(m, pts))
      BY <2>1, <2>2, <3>1 DEF NotBefore
    <3>3. \A i \in 1 .. Len(q) + 1 : lastAudio <= Append(q, v)[i]
      BY <1>1, <2>4, <3>1, <3>2 DEF NotBefore
    <3>4. QED BY <2>1, <2>4, <3>2, <3>3 DEF NotBefore
  <2>8. \A t \in Slots : QueueFollows(audioTsMapper'[t], audioQueue'[t])
    BY <1>3, <1>6, <2>6 DEF AudioInOrder
  <2>9. ~audioJoined' => \A t \in Started(audioStreamStatus) :
                           NotBefore(lastAudio, audioTsMapper'[t], audioQueue'[t])
    <3> SUFFICES ASSUME ~audioJoined', NEW t \in Started(audioStreamStatus)
                 PROVE  NotBefore(lastAudio, audioTsMapper'[t], audioQueue'[t])
      OBVIOUS
    <3>1. CASE t = s
      BY <1>6, <2>7, <3>1
    <3>2. CASE t # s
      <4>1. t \in Slots \ {s} /\ NotBefore(lastAudio, audioTsMapper[t], audioQueue[t])
        BY <1>4, <3>2 DEF AudioInOrder, Started
      <4>2. QED BY <1>3, <4>1
    <3>3. QED BY <3>1, <3>2
  <2>10. QED BY <1>3, <1>4, <2>8, <2>9 DEF AudioInOrder
<1>7. QED BY <1>5, <1>6, TagOfAudio

(* A tick of audio is taken out: every started slot loses its first frame, and the *)
(* earliest of them has the timestamp of what is put out.                     *)
LEMMA TickIsEarliest ==
  ASSUME TypeOK, isNextAudioStreamReady
  PROVE  /\ \A s \in Started(audioStreamStatus) : audioTimestamp <= audioQueue[s][1]
         /\ \E s \in Started(audioStreamStatus) :
              audioQueue[s] # <<>> /\ audioTimestamp = audioQueue[s][1]
<1> DEFINE Ready == {q \in Started(audioStreamStatus) : audioQueue[q] # <<>>}
           Heads == {Head(audioQueue[s]) : s \in Ready}
<1>1. Ready = Started(audioStreamStatus) /\ Ready # {} /\ Ready \subseteq Slots
  BY DEF isNextAudioStreamReady, Started
<1>2. \A s \in Ready : audioQueue[s] # <<>> /\ Head(audioQueue[s]) = audioQueue[s][1]
                       /\ Head(audioQueue[s]) \in Nat
  <2>1. TAKE s \in Ready
  <2>2. audioQueue[s] \in Seq(Nat) /\ audioQueue[s] # <<>>
    BY <1>1 DEF TypeOK
  <2>3. QED BY <2>2
<1>3. Heads \subseteq Nat /\ Heads # {}
  BY <1>1, <1>2
<1>4. audioTimestamp = MinOf(Heads)
  BY DEF audioTimestamp
<1>5. audioTimestamp \in Heads /\ \A h \in Heads : audioTimestamp <= h
  <2> HIDE DEF Heads
  <2>1. QED BY <1>3, <1>4, Least
<1>6. QED BY <1>1, <1>2, <1>5

LEMMA TickStaysInOrder ==
  ASSUME TypeOK, AudioInOrder, popAudio
  PROVE  AudioInOrder' /\ (lastAudio' # lastAudio => audioJoined \/ lastAudio' >= lastAudio)
<1> DEFINE started == Started(audioStreamStatus)
<1>1. /\ audioQueue' = [s \in Slots |-> IF s \in started THEN SubSeq(audioQueue[s], 2, Len(audioQueue[s]))
                                                         ELSE audioQueue[s]]
      /\ audioTsMapper' = audioTsMapper /\ audioStreamStatus' = audioStreamStatus
      /\ isNextAudioStreamReady /\ started # {}
      /\ \/ lastAudio' = lastAudio /\ audioJoined' = audioJoined
         \/ lastAudio' = audioTimestamp /\ audioJoined' = FALSE
  BY DEF popAudio, Unparsed, parseVars, statusVars, isNextAudioStreamReady
<1>2. started \subseteq Slots /\ lastAudio \in Nat /\ audioTimestamp \in Nat
  BY <1>1, AudioIsNatural DEF Started, TypeOK
<1>3. \A s \in started : audioQueue[s] # <<>> /\ audioTimestamp <= audioQueue[s][1]
  BY <1>1, TickIsEarliest DEF isNextAudioStreamReady
<1>4. ASSUME NEW s \in started
      PROVE  LET m == audioTsMapper[s]
                 q == audioQueue[s]
             IN  /\ QueueFollows(m, audioQueue'[s])
                 /\ NotBefore(lastAudio, m, q) => NotBefore(lastAudio, m, audioQueue'[s])
                 /\ NotBefore(audioTimestamp, m, audioQueue'[s])
  <2> DEFINE m == audioTsMapper[s]
             q == audioQueue[s]
             r == audioQueue'[s]
  <2>1. /\ q \in Seq(Nat) /\ q # <<>> /\ QueueFollows(m, q) /\ m \in Mapper
        /\ r = SubSeq(q, 2, Len(q)) /\ audioTimestamp <= q[1]
    BY <1>1, <1>2, <1>3 DEF TypeOK, AudioInOrder
  <2> HIDE DEF m, q, r
  <2>2. /\ Len(q) \in Nat \ {0} /\ DOMAIN q = 1 .. Len(q) /\ DOMAIN r = 1 .. Len(q) - 1
        /\ \A i \in 1 .. Len(q) - 1 : r[i] = q[i + 1] /\ i + 1 \in 1 .. Len(q)
    BY <2>1
  <2>3. \A i \in 1 .. Len(q) : q[i] \in Nat /\ q[1] <= q[i]
    <3>1. \A i \in 1 .. Len(q) : q[i] \in Nat
      BY <2>1, ElementOfSeq
    <3>2. \A i, j \in 1 .. Len(q) : i < j => q[i] <= q[j]
      BY <2>1, <2>2 DEF QueueFollows
    <3>3. 1 \in 1 .. Len(q) /\ \A i \in 1 .. Len(q) : i = 1 \/ 1 < i
      BY <2>2
    <3>4. TAKE i \in 1 .. Len(q)
    <3>5. QED BY <3>1, <3>2, <3>3
  <2>4. QueueFollows(m, r)
    <3>1. m.starting # None /\ m.cur # None
      BY <2>1 DEF QueueFollows
    <3>2. \A i \in 1 .. Len(q) - 1 : r[i] <= NextMapped(m)
      BY <2>1, <2>2 DEF QueueFollows
    <3>3. ASSUME NEW i \in 1 .. Len(q) - 1, NEW j \in 1 .. Len(q) - 1, i < j
          PROVE  r[i] <= r[j]
      <4>1. i + 1 \in DOMAIN q /\ j + 1 \in DOMAIN q /\ i + 1 < j + 1
        BY <2>2, <3>3
      <4>2. q[i + 1] <= q[j + 1]
        BY <2>1, <4>1 DEF QueueFollows
      <4>3. QED BY <2>2, <4>2
    <3>4. QED BY <2>2, <3>1, <3>2, <3>3 DEF QueueFollows
  <2>5. NotBefore(lastAudio, m, q) => NotBefore(lastAudio, m, r)
    BY <2>2 DEF NotBefore
  <2>6. NotBefore(audioTimestamp, m, r)
    <3>1. m.starting # None /\ NextMapped(m) \in Nat
      BY <2>1, NextMappedIsNatural DEF QueueFollows
    <3>2. q[1] \in Nat /\ q[1] <= NextMapped(m)
      BY <2>1, <2>2, <2>3 DEF QueueFollows
    <3>3. audioTimestamp <= NextMapped(m)
      BY <1>2, <2>1, <3>1, <3>2
    <3>4. \A i \in 1 .. Len(q) - 1 : audioTimestamp <= r[i]
      BY <1>2, <2>1, <2>2, <2>3
    <3>5. QED BY <2>2, <3>1, <3>3, <3>4 DEF NotBefore
  <2>7. QED BY <2>4, <2>5, <2>6 DEF m, q, r
<1>5. \A s \in Slots : QueueFollows(audioTsMapper'[s], audioQueue'[s])
  <2>1. TAKE s \in Slots
  <2>2. CASE s \in started
    BY <1>1, <1>4, <2>2
  <2>3. CASE s \notin started
    <3>1. audioQueue'[s] = audioQueue[s]
      BY <1>1, <2>3
    <3>2. QED BY <1>1, <3>1 DEF AudioInOrder
  <2>4. QED BY <2>2, <2>3
<1>6. ~audioJoined' => \A s \in started : NotBefore(lastAudio', audioTsMapper'[s], audioQueue'[s])
  <2>1. CASE lastAudio' = lastAudio /\ audioJoined' = audioJoined
    BY <1>1, <1>4, <2>1 DEF AudioInOrder
  <2>2. CASE lastAudio' = audioTimestamp
    BY <1>1, <1>4, <2>2
  <2>3. QED BY <1>1, <2>1, <2>2
<1>7. Started(audioStreamStatus)' = started
  BY <1>1 DEF Started
<1>8. AudioInOrder'
  BY <1>5, <1>6, <1>7 DEF AudioInOrder
<1>9. ASSUME lastAudio' # lastAudio, ~audioJoined
      PROVE  lastAudio' >= lastAudio
  <2>1. PICK s \in started : audioQueue[s] # <<>> /\ audioTimestamp = audioQueue[s][1]
    BY <1>1, TickIsEarliest
  <2>2. 1 \in DOMAIN audioQueue[s]
    BY <1>2, <2>1 DEF TypeOK
  <2>3. lastAudio <= audioQueue[s][1]
    BY <1>9, <2>2 DEF AudioInOrder, NotBefore
  <2>4. QED BY <1>1, <1>2, <1>9, <2>1, <2>3
<1>10. QED BY <1>8, <1>9

(* No other step touches the mappers, the queues of audio or what was put out; a  *)
(* mask starts no stream.                                                   *)
LEMMA NextKeepsAudioInOrder ==
  ASSUME TypeOK, CountClose, AudioInOrder, [Next]_vars
  PROVE  AudioInOrder' /\ (lastAudio' # lastAudio => audioJoined \/ lastAudio' >= lastAudio)
<1>1. ASSUME /\ audioTsMapper' = audioTsMapper /\ audioQueue' = audioQueue
             /\ lastAudio' = lastAudio /\ audioJoined' = audioJoined
             /\ Started(audioStreamStatus)' \subseteq Started(audioStreamStatus)
      PROVE  AudioInOrder' /\ lastAudio' = lastAudio
  BY <1>1 DEF AudioInOrder
<1>2. CASE readMask
  <2>1. PICK mask \in SUBSET Slots : audioStreamStatus' = Masked(audioStreamStatus, mask)
    BY <1>2 DEF readMask
  <2>2. Started(audioStreamStatus)' \subseteq Started(audioStreamStatus)
    BY <2>1 DEF Started, Masked
  <2>3. QED BY <1>1, <1>2, <2>2 DEF readMask, parseVars, queueVars, outVars
<1>3. ASSUME NEW s \in Slots, readSpsPps(s) \/ readVideo(s)
      PROVE  AudioInOrder' /\ lastAudio' = lastAudio
  <2>1. /\ audioTsMapper' = audioTsMapper /\ audioQueue' = audioQueue
        /\ lastAudio' = lastAudio /\ audioJoined' = audioJoined
        /\ audioStreamStatus' = audioStreamStatus
    BY <1>3 DEF readSpsPps, readVideo, Untouched, outVars
  <2>2. QED BY <1>1, <2>1 DEF Started
<1>4. ASSUME NEW s \in Slots, readAudio(s)
      PROVE  AudioInOrder' /\ lastAudio' = lastAudio
  BY <1>4, AudioStaysInOrder, TagOfAudio
<1>5. CASE newInput \/ notReady \/ popVideo \/ UNCHANGED vars
  <2>1. /\ audioTsMapper' = audioTsMapper /\ audioQueue' = audioQueue
        /\ lastAudio' = lastAudio /\ audioJoined' = audioJoined
        /\ audioStreamStatus' = audioStreamStatus
    BY <1>5 DEF newInput, notReady, popVideo, vars, Unparsed, parseVars, statusVars, queueVars,
                outVars
  <2>2. QED BY <1>1, <2>1 DEF Started
<1>6. CASE popAudio
  BY <1>6, TickStaysInOrder
<1>7. QED BY <1>2, <1>3, <1>4, <1>5, <1>6 DEF Next

(* The audio of the mix goes back only for a stream that was added, as long as no *)
(* slot's count of frames is more than the drift ahead of its publisher's clock. *)
THEOREM AudioGoesForward == Spec /\ []CountClose => AudioGoesBackOnlyForANewStream
<1>1. Init => AudioInOrder
  BY DEF Init, AudioInOrder, QueueFollows, NewMapper, Started
<1>2. TypeOK /\ CountClose /\ AudioInOrder /\ [Next]_vars => AudioInOrder'
  BY NextKeepsAudioInOrder
<1>3. TypeOK /\ CountClose /\ AudioInOrder /\ [Next]_vars
        => [lastAudio' # lastAudio => audioJoined \/ lastAudio' >= lastAudio]_vars
  BY NextKeepsAudioInOrder
<1>4. QED BY <1>1, <1>2, <1>3, TypeCorrect, PTL DEF Spec, AudioGoesBackOnlyForANewStream
-----------------------------------------------------------------------------
(* The condition holds while every slot has one publisher and a tag of its audio   *)
(* is no shorter than a frame and no longer than the drift: then the offset   *)
(* of the stream is set once, and the count of its frames does not pass the   *)
(* publisher's clock on the common one.                                      *)
OneClock(s) ==
  LET p == parser[s]
      m == audioTsMapper[s]
      a == source[s].audio
  IN  /\ source[s].number = 0 => s \notin online
      /\ a <= p.prevAudioOrig + Drift
      /\ p.rel = None => a = 0 /\ source[s].video = 0 /\ m.starting = None
      /\ p.rel # None => p.rel >= 0
      /\ m.starting # None => /\ m.cur # None
                              /\ NextMapped(m) <= a + p.rel
                              /\ NextMapped(m) <= m.cur + Drift
      /\ source[s].number = 0 => p.rel = None /\ p.prevAudioOrig = 0

(* One publisher for a slot, and tags of audio between a frame and the drift.     *)
SteadyAudio ==
  /\ MaxPublishers <= 1
  /\ \A d \in AudioSteps : AudioFrame <= d /\ d <= Drift

(* A step that leaves the audio of a slot alone keeps its clock.                  *)
LEMMA ClockAlone ==
  ASSUME NEW s \in Slots, OneClock(s), audioTsMapper'[s] = audioTsMapper[s],
         parser'[s].rel = parser[s].rel, parser'[s].prevAudioOrig = parser[s].prevAudioOrig,
         source'[s].audio = source[s].audio, source'[s].number = source[s].number,
         source'[s].video = source[s].video \/ parser[s].rel # None, online' = online
  PROVE  OneClock(s)'
BY DEF OneClock

(* A new publisher finds the slot unused.                                        *)
LEMMA MaskKeepsClock ==
  ASSUME SteadyAudio, TypeOK, NEW s \in Slots, OneClock(s), readMask
  PROVE  OneClock(s)'
<1>1. PICK mask \in SUBSET Slots, fresh \in SUBSET Slots :
        /\ mask \ online \subseteq fresh /\ online' = mask
        /\ \A t \in fresh : source[t].number < MaxPublishers
        /\ source' = [t \in Slots |-> IF t \in fresh THEN NewPublisher(source[t].number + 1)
                                                     ELSE source[t]]
  BY DEF readMask
<1>2. parser' = parser /\ audioTsMapper' = audioTsMapper
  BY DEF readMask, parseVars
<1>3. source[s].number \in Nat /\ Drift \in Nat
  BY TimestampsAssumption DEF TypeOK
<1>4. CASE s \in fresh
  <2>1. source[s].number = 0
    BY <1>1, <1>3, <1>4, MixCoderAssumption DEF SteadyAudio
  <2>2. source'[s].number = 1 /\ source'[s].audio = 0 /\ source'[s].video = 0
    BY <1>1, <1>4, <2>1 DEF NewPublisher
  <2>3. parser[s].rel = None /\ parser[s].prevAudioOrig = 0 /\ audioTsMapper[s].starting = None
    BY <2>1 DEF OneClock
  <2>4. QED BY <1>2, <1>3, <2>2, <2>3 DEF OneClock
<1>5. CASE s \notin fresh
  <2>1. source'[s] = source[s] /\ (s \in online' => s \in online)
    BY <1>1, <1>5
  <2>2. QED BY <1>2, <2>1 DEF OneClock
<1>6. QED BY <1>4, <1>5

(* A SPS/PPS sets no offset; the first picture sets it to the common clock, as it   *)
(* is the publisher's first tag.                                             *)
LEMMA VideoKeepsClock ==
  ASSUME TypeOK, NEW s \in Slots, OneClock(s), readSpsPps(s) \/ readVideo(s)
  PROVE  OneClock(s)'
<1>1. PICK tag \in Tag :
        /\ Parse(s, tag) /\ ~IsAudio(tag)
        /\ \/ IsSps(tag) /\ source'[s].video = source[s].video
           \/ ~IsSps(tag) /\ tag.ts = source[s].video
        /\ source'[s].audio = source[s].audio /\ source'[s].number = source[s].number
  <2>1. source \in [Slots -> Publisher] /\ source[s] \in Publisher
    BY DEF TypeOK, Publisher
  <2>2. CASE readSpsPps(s)
    <3>1. PICK c \in SpsPps : Parse(s, [st |-> "video", sps |-> c, ts |-> source[s].video])
      BY <2>2 DEF readSpsPps
    <3>2. source' = [source EXCEPT ![s] = [source[s] EXCEPT !.spsPps = source[s].spsPps + 1]]
      BY <2>2 DEF readSpsPps
    <3>3. /\ source'[s].video = source[s].video /\ source'[s].audio = source[s].audio
          /\ source'[s].number = source[s].number
      BY <2>1, <3>2 DEF Publisher
    <3> DEFINE tag == [st |-> "video", sps |-> c, ts |-> source[s].video]
    <3>4. tag \in Tag /\ ~IsAudio(tag) /\ IsSps(tag)
      BY <2>1, MixCoderAssumption DEF Tag, IsAudio, IsSps, Publisher
    <3>5. Parse(s, tag)
      BY <3>1
    <3> HIDE DEF tag
    <3>6. QED BY <3>3, <3>4, <3>5
  <2>3. CASE readVideo(s)
    <3> DEFINE tag == [st |-> "video", sps |-> None, ts |-> source[s].video]
    <3>1. PICK d \in VideoSteps :
            source' = [source EXCEPT ![s] = [source[s] EXCEPT !.video = source[s].video + d]]
      BY <2>3 DEF readVideo
    <3>2. source'[s].audio = source[s].audio /\ source'[s].number = source[s].number
      BY <2>1, <3>1 DEF Publisher
    <3>3. tag \in Tag /\ ~IsAudio(tag) /\ ~IsSps(tag) /\ tag.ts = source[s].video
      BY <2>1 DEF Tag, IsAudio, IsSps, Publisher
    <3>4. Parse(s, tag)
      BY <2>3 DEF readVideo
    <3> HIDE DEF tag
    <3>5. QED BY <3>2, <3>3, <3>4
  <2>4. QED BY <2>2, <2>3
<1>2. /\ parser[s] \in Parser /\ globalAudioTimestamp \in Nat /\ source[s].video \in Nat
      /\ tag.ts \in Nat
  BY DEF TypeOK, Tag
<1>3. /\ parser'[s].rel = Offset(parser[s], tag, globalAudioTimestamp)
      /\ parser'[s].prevAudioOrig = parser[s].prevAudioOrig
  <2>1. parser'[s] = Parsed(parser[s], tag, globalAudioTimestamp)
    BY <1>1 DEF Parse, TypeOK
  <2>2. QED BY <1>1, <1>2, <2>1 DEF Parsed, Parser
<1>4. audioTsMapper' = audioTsMapper /\ online' = online
  BY DEF readSpsPps, readVideo, Untouched
<1>5. ~IsJump(parser[s], tag)
  BY <1>1 DEF IsJump
<1>6. CASE parser[s].rel # None \/ IsSps(tag)
  <2>1. parser'[s].rel = parser[s].rel
    BY <1>3, <1>5, <1>6 DEF Offset
  <2>2. source'[s].video = source[s].video \/ parser[s].rel # None
    BY <1>1, <1>6
  <2>3. QED BY <1>1, <1>3, <1>4, <2>1, <2>2, ClockAlone
<1>7. CASE parser[s].rel = None /\ ~IsSps(tag)
  <2>1. source[s].audio = 0 /\ source[s].video = 0 /\ audioTsMapper[s].starting = None
    BY <1>7 DEF OneClock
  <2>2. parser'[s].rel = globalAudioTimestamp
    BY <1>1, <1>2, <1>3, <1>7, <2>1 DEF Offset
  <2>3. parser'[s].rel # None /\ parser'[s].rel >= 0
    BY <1>2, <2>2, TimestampsAssumption
  <2>4. source[s].number # 0
    <3>1. s \in online
      BY DEF readSpsPps, readVideo, Sends
    <3>2. QED BY <3>1 DEF OneClock
  <2>5. QED BY <1>1, <1>3, <1>4, <2>1, <2>3, <2>4 DEF OneClock
<1>8. QED BY <1>6, <1>7

(* A tag of audio is no jump, and moves the publisher's clock on by a frame or     *)
(* more.                                                                    *)
LEMMA AudioKeepsClock ==
  ASSUME SteadyAudio, TypeOK, NEW s \in Slots, OneClock(s), readAudio(s)
  PROVE  OneClock(s)'
<1> DEFINE tag == [st |-> "audio", sps |-> None, ts |-> source[s].audio]
           p == parser[s]
           m == audioTsMapper[s]
           a == source[s].audio
           g == globalAudioTimestamp
           off == Offset(p, tag, g)
<1>1. /\ p \in Parser /\ m \in Mapper /\ a \in Nat /\ g \in Nat
      /\ IsAudio(tag) /\ ~IsSps(tag) /\ tag.ts = a
      /\ Drift \in Nat /\ AudioFrame \in Nat
  BY TimestampsAssumption DEF TypeOK, IsAudio, IsSps
<1>2. PICK d \in AudioSteps :
        source' = [source EXCEPT ![s] = [source[s] EXCEPT !.audio = source[s].audio + d]]
  BY DEF readAudio
<1>3. source'[s].audio = a + d /\ source'[s].number = source[s].number
  <2>1. source \in [Slots -> Publisher] /\ source[s] \in Publisher
    BY DEF TypeOK, Publisher
  <2>2. QED BY <1>2, <2>1 DEF Publisher
<1>4. d \in Nat /\ AudioFrame <= d /\ d <= Drift
  BY MixCoderAssumption DEF SteadyAudio
<1>5. online' = online /\ s \in online /\ source[s].number # 0
  BY DEF readAudio, Sends, OneClock
<1>6. parser'[s] = Parsed(p, tag, g)
  BY DEF readAudio, Parse, TypeOK
<1>7. p.prevAudioOrig \in Nat /\ a <= p.prevAudioOrig + Drift
  BY <1>1 DEF OneClock, Parser
<1>8. /\ off \in Nat /\ off # None
      /\ p.rel # None => off = p.rel
  <2>1. ~IsJump(p, tag)
    <3> HIDE DEF tag, p, a
    <3>1. QED BY <1>1, <1>7 DEF IsJump
  <2>2. CASE p.rel = None
    <3>1. a = 0
      BY <2>2 DEF OneClock
    <3>2. off = g
      BY <1>1, <2>2, <3>1 DEF Offset
    <3>3. QED BY <1>1, <2>2, <3>2, TimestampsAssumption
  <2>3. CASE p.rel # None
    <3>1. off = p.rel
      BY <2>1, <2>3 DEF Offset
    <3>2. p.rel \in Nat
      BY <1>1, <2>3 DEF OneClock, Parser
    <3>3. QED BY <2>3, <3>1, <3>2
  <2>4. QED BY <2>2, <2>3
<1>9. Pts(s, tag) = a + off /\ a + off \in Nat
  <2>1. Pts(s, tag) = AdjustedPts(p, tag, g)
    BY DEF Pts
  <2> HIDE DEF tag, p, a, g
  <2>2. off \in Nat /\ tag.ts + Offset(p, tag, g) >= 0
    BY <1>1, <1>8
  <2>3. AdjustedPts(p, tag, g) = tag.ts + Offset(p, tag, g)
    BY <1>1, <2>2 DEF AdjustedPts
  <2>4. QED BY <1>1, <2>1, <2>2, <2>3
<1>10. parser'[s].rel = off /\ parser'[s].prevAudioOrig = a
  <2> HIDE DEF tag, p, a, g
  <2>1. QED BY <1>1, <1>6 DEF Parsed, Parser
<1>11. \/ audioTsMapper'[s] = m
       \/ audioTsMapper'[s] = Mapped(m, a + off)
  BY <1>9, TagOfAudio
<1>12. m.starting # None => NextMapped(m) \in Nat /\ NextMapped(m) <= a + off
                            /\ m.cur # None /\ NextMapped(m) <= m.cur + Drift
  <2>1. m.starting # None => p.rel # None /\ m.cur # None /\ NextMapped(m) <= a + p.rel
                             /\ NextMapped(m) <= m.cur + Drift
    BY DEF OneClock
  <2>2. m.starting # None => NextMapped(m) \in Nat
    <3> HIDE DEF m
    <3>1. QED BY <1>1, NextMappedIsNatural
  <2>3. QED BY <1>8, <2>1, <2>2
<1> HIDE DEF tag, p, m, a, g, off
<1>13. CASE audioTsMapper'[s] = m
  <2>1. m.starting # None => NextMapped(m) <= a + d + off
    BY <1>1, <1>4, <1>8, <1>12
  <2>2. QED BY <1>1, <1>3, <1>4, <1>5, <1>8, <1>10, <1>12, <1>13, <2>1 DEF OneClock
<1>14. CASE audioTsMapper'[s] = Mapped(m, a + off)
  <2> DEFINE ts == a + off
  <2>1. /\ Mapped(m, ts).starting # None /\ Mapped(m, ts).cur = ts
        /\ NextMapped(Mapped(m, ts)) = MappedPts(m, ts) + AudioFrame
        /\ Restarts(m, ts) => MappedPts(m, ts) = ts
        /\ ~Restarts(m, ts) => m.starting # None /\ MappedPts(m, ts) = NextMapped(m)
    <3>1. ts \in Nat
      BY <1>9
    <3> HIDE DEF ts
    <3>2. QED BY <1>1, <3>1, MappingAdvances
  <2>2. MappedPts(m, ts) \in Nat /\ MappedPts(m, ts) <= ts
    BY <1>9, <1>12, <2>1
  <2>3. NextMapped(Mapped(m, ts)) <= ts + AudioFrame
    BY <1>1, <1>9, <2>1, <2>2
  <2>4. /\ NextMapped(Mapped(m, ts)) \in Nat
        /\ NextMapped(Mapped(m, ts)) <= a + d + off /\ NextMapped(Mapped(m, ts)) <= ts + Drift
    BY <1>1, <1>4, <1>8, <1>9, <2>1, <2>2, <2>3
  <2>5. ts # None
    BY <1>9, TimestampsAssumption
  <2>6. QED BY <1>1, <1>3, <1>4, <1>5, <1>8, <1>10, <1>14, <2>1, <2>4, <2>5 DEF OneClock
<1>15. QED BY <1>11, <1>13, <1>14

LEMMA NextKeepsClock ==
  ASSUME SteadyAudio, TypeOK, \A s \in Slots : OneClock(s), [Next]_vars
  PROVE  \A s \in Slots : OneClock(s)'
<1>1. TAKE s \in Slots
<1>2. CASE readMask
  BY <1>2, MaskKeepsClock
<1>3. CASE readSpsPps(s) \/ readVideo(s) \/ readAudio(s)
  BY <1>3, VideoKeepsClock, AudioKeepsClock
<1>4. ASSUME NEW t \in Slots \ {s}, readSpsPps(t) \/ readVideo(t) \/ readAudio(t)
      PROVE  OneClock(s)'
  <2>1. /\ parser'[s] = parser[s] /\ source'[s] = source[s] /\ online' = online
        /\ audioTsMapper'[s] = audioTsMapper[s]
    <3>1. parser'[s] = parser[s] /\ source'[s] = source[s] /\ online' = online
      BY <1>4 DEF readSpsPps, readVideo, readAudio, Parse, Untouched, TypeOK
    <3>2. CASE readAudio(t)
      BY <3>1, <3>2, TagOfAudio
    <3>3. CASE readSpsPps(t) \/ readVideo(t)
      BY <3>1, <3>3 DEF readSpsPps, readVideo
    <3>4. QED BY <1>4, <3>2, <3>3
  <2>2. QED BY <2>1, ClockAlone
<1>5. CASE newInput \/ notReady \/ popAudio \/ popVideo \/ UNCHANGED vars
  <2>1. /\ parser' = parser /\ source' = source /\ online' = online
        /\ audioTsMapper' = audioTsMapper
    BY <1>5 DEF newInput, notReady, popAudio, popVideo, vars, Unparsed, sourceVars, parseVars
  <2>2. QED BY <2>1, ClockAlone
<1>6. QED BY <1>2, <1>3, <1>4, <1>5 DEF Next

(* With one publisher for each slot, whose tags of audio are between a frame and   *)
(* the drift, mix_coder's count of a slot stays close to the publisher's clock. *)
THEOREM SteadyCountIsClose ==
  ASSUME MaxPublishers <= 1, \A d \in AudioSteps : AudioFrame <= d /\ d <= Drift
  PROVE  Spec => []CountClose
<1>1. SteadyAudio
  BY DEF SteadyAudio
<1>2. Init => \A s \in Slots : OneClock(s)
  BY TimestampsAssumption DEF Init, OneClock, NewParser, NewMapper, NewPublisher
<1>3. TypeOK /\ (\A s \in Slots : OneClock(s)) /\ [Next]_vars => (\A s \in Slots : OneClock(s))'
  BY <1>1, NextKeepsClock
<1>4. (\A s \in Slots : OneClock(s)) => CountClose
  BY DEF OneClock, CountClose
<1>5. QED BY <1>2, <1>3, <1>4, TypeCorrect, PTL DEF Spec

(* Then its audio goes back only for a stream that was added: for any number of    *)
(* slots, any interleaving and however long a resampler keeps its samples.     *)
THEOREM SteadyAudioGoesForward ==
  ASSUME MaxPublishers <= 1, \A d \in AudioSteps : AudioFrame <= d /\ d <= Drift
  PROVE  Spec => AudioGoesBackOnlyForANewStream
BY SteadyCountIsClose, AudioGoesForward, PTL
=============================================================================
