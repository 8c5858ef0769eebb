------------------------------ MODULE MixCoder ------------------------------
(***************************************************************************)
(* The mix_coder process: one thread that reads segments, puts the decoded *)
(* frames of every slot into queues, and between two reads takes out what  *)
(* is due: a tick of audio when every started slot has one, a picture when *)
(* the audio has reached the next bucket (FLVSegmentParser, MixCoder).     *)
(*                                                                         *)
(* A segment's parse is the mask and then the tag of one slot; a read may  *)
(* end anywhere between them.  Decoding and encoding are external.         *)
(***************************************************************************)
EXTENDS FLVTimestamps, FiniteSets, Sequences

CONSTANTS
  Slots,             \* the slots in use, 0 .. MAX_XCODING_INSTANCES - 1 at most
  Interval,          \* 1000 / OUTPUT_VIDEO_FRAME_RATE (33.3 ms)
  VideoSteps, AudioSteps, \* time between two tags of a publisher
  SpsPps,            \* contents of a SPS/PPS
  Decodes,           \* may a frame fail to decode: a set of BOOLEANs
  Skew,              \* how far one track of a publisher may be ahead of the other
  MaxTime,           \* bound: time of a publisher's last tag
  MaxSpsPps,         \* bound: SPS/PPS of a publisher
  MaxPublishers      \* bound: publishers that use a slot, one after another

ASSUME MixCoderAssumption ==
  /\ Slots \subseteq Nat /\ IsFiniteSet(Slots)
  /\ Interval \in Nat \ {0}
  /\ VideoSteps \cup AudioSteps \subseteq Nat \ {0}
  /\ Decodes \subseteq BOOLEAN
  /\ {Skew, MaxTime, MaxSpsPps, MaxPublishers} \subseteq Nat
  /\ None \notin SpsPps

VARIABLES
  source,            \* the publishers: their clocks, the tags they sent
  online,            \* the mask read last
  videoStreamStatus, audioStreamStatus,
  parser, audioTsMapper, decoder,
  videoQueue, audioQueue,
  globalAudioTimestamp, hasStarted, lastBucketTimestamp,
  rawVideoData,      \* slot -> the frame kept for mixing, here what it is
  loop,              \* main: "read" or "getOutput"
  running,           \* no assertion has failed
  lastAudio, lastVideo, \* history: timestamps of the outputs
  audioJoined,       \* history: a slot's audio started since the last audio output
  mixed              \* history: the slots in the picture just put out

sourceVars == <<source, online>>
parseVars  == <<parser, audioTsMapper, decoder, globalAudioTimestamp>>
statusVars == <<videoStreamStatus, audioStreamStatus>>
queueVars  == <<videoQueue, audioQueue>>
clockVars  == <<hasStarted, lastBucketTimestamp>>
outVars    == <<lastAudio, lastVideo, mixed>>
vars == <<sourceVars, parseVars, statusVars, queueVars, clockVars, rawVideoData,
          loop, running, outVars, audioJoined>>

NewPublisher(n) == [number |-> n, audio |-> 0, video |-> 0, spsPps |-> 0]
MaxOf(S) == CHOOSE x \in S : \A y \in S : y <= x
MinOf(S) == CHOOSE x \in S : \A y \in S : x <= y

Init ==
  /\ source = [s \in Slots |-> NewPublisher(0)]
  /\ online = {}
  /\ videoStreamStatus = [s \in Slots |-> "Offline"]
  /\ audioStreamStatus = [s \in Slots |-> "Offline"]
  /\ parser = [s \in Slots |-> NewParser]
  /\ audioTsMapper = [s \in Slots |-> NewMapper]
  /\ decoder = [s \in Slots |-> [bHasFirstFrameStarted |-> FALSE, firstFramePts |-> None]]
  /\ videoQueue = [s \in Slots |-> <<>>] /\ audioQueue = [s \in Slots |-> <<>>]
  /\ globalAudioTimestamp = 0 /\ hasStarted = FALSE /\ lastBucketTimestamp = 0
  /\ rawVideoData = [s \in Slots |-> None]
  /\ loop = "read" /\ running = TRUE
  /\ lastAudio = 0 /\ lastVideo = 0 /\ audioJoined = FALSE /\ mixed = {}

-----------------------------------------------------------------------------
(* FLVSegmentParser.readData: the mask.                                       *)
Reading == running /\ loop = "read"

Masked(status, mask) ==
  [s \in Slots |-> CASE s \notin mask -> "Offline"
                     [] s \in mask /\ status[s] = "Offline" -> "OnlineNotStarted"
                     [] OTHER -> status[s]]

(* Publishers come, go, or follow another in its slot: a segment is from      *)
(* somebody, so its mask is not empty.                                     *)
readMask ==
  /\ Reading
  /\ \E mask \in SUBSET Slots \ {{}}, fresh \in SUBSET Slots :
       /\ mask \ online \subseteq fresh /\ fresh \subseteq mask
       /\ mask # online \/ fresh # {}
       /\ \A s \in fresh : source[s].number < MaxPublishers
       /\ online' = mask
       /\ source' = [s \in Slots |-> IF s \in fresh THEN NewPublisher(source[s].number + 1)
                                                     ELSE source[s]]
       /\ videoStreamStatus' = Masked(videoStreamStatus, mask)
       /\ audioStreamStatus' = Masked(audioStreamStatus, mask)
  /\ UNCHANGED <<parseVars, queueVars, clockVars, rawVideoData, loop, running, outVars, audioJoined>>

-----------------------------------------------------------------------------
(* FLVSegmentParser.readData: the data of a slot, one tag.                     *)
Sends(s) == Reading /\ s \in online
Parse(s, tag) == parser' = [parser EXCEPT ![s] = Parsed(@, tag, globalAudioTimestamp)]
Pts(s, tag) == AdjustedPts(parser[s], tag, globalAudioTimestamp)

enqueueVideo(s, v) ==
  /\ videoQueue' = [videoQueue EXCEPT ![s] = Append(@, v)]
  /\ videoStreamStatus' = [videoStreamStatus EXCEPT ![s] = "OnlineStarted"]

Untouched == UNCHANGED <<online, globalAudioTimestamp, clockVars, rawVideoData, loop, running, outVars>>

(* A SPS/PPS: the decoder starts over, and the queue gets it as a frame         *)
(* without a picture.                                                      *)
readSpsPps(s) ==
  /\ Sends(s) /\ source[s].spsPps < MaxSpsPps
  /\ \E c \in SpsPps :
       LET tag == [st |-> "video", sps |-> c, ts |-> source[s].video]
       IN  /\ Parse(s, tag)
           /\ IF IsFrameReady(parser[s], tag)
              THEN /\ decoder' = [decoder EXCEPT ![s].bHasFirstFrameStarted = FALSE]
                   /\ enqueueVideo(s, [sp |-> "SpsPps", pts |-> Pts(s, tag)])
              ELSE UNCHANGED <<decoder, videoQueue, videoStreamStatus>>
  /\ source' = [source EXCEPT ![s].spsPps = @ + 1]
  /\ Untouched /\ UNCHANGED <<audioTsMapper, audioQueue, audioStreamStatus, audioJoined>>

(* A frame: a publisher sends its SPS/PPS first.                                 *)
readVideo(s) ==
  /\ Sends(s) /\ source[s].spsPps > 0
  /\ source[s].video <= MinOf({MaxTime, source[s].audio + Skew})
  /\ LET tag == [st |-> "video", sps |-> None, ts |-> source[s].video]
     IN  /\ Parse(s, tag)
         /\ \E bIsValidFrame \in Decodes :
              IF bIsValidFrame
              THEN /\ enqueueVideo(s, [sp |-> "RawData", pts |-> Pts(s, tag)])
                   /\ decoder' = [decoder EXCEPT ![s] =
                        IF @.bHasFirstFrameStarted THEN @
                        ELSE [bHasFirstFrameStarted |-> TRUE, firstFramePts |-> Pts(s, tag)]]
              ELSE UNCHANGED <<decoder, videoQueue, videoStreamStatus>>
  /\ \E d \in VideoSteps :
       source' = [source EXCEPT ![s].video = @ + d]
  /\ Untouched /\ UNCHANGED <<audioTsMapper, audioQueue, audioStreamStatus, audioJoined>>

(* The resampler completes a frame or keeps the samples for the next call;     *)
(* the slot counts as started either way.  The loop of the code would queue   *)
(* more frames of one tag; at most one here.                                 *)
readAudio(s) ==
  /\ Sends(s) /\ source[s].audio <= MinOf({MaxTime, source[s].video + Skew})
  /\ LET tag == [st |-> "audio", sps |-> None, ts |-> source[s].audio]
         m   == audioTsMapper[s]
     IN  /\ Parse(s, tag)
         /\ \/ UNCHANGED <<audioTsMapper, audioQueue, globalAudioTimestamp>>
            \/ /\ audioTsMapper' = [audioTsMapper EXCEPT ![s] = Mapped(m, Pts(s, tag))]
               /\ audioQueue' = [audioQueue EXCEPT ![s] = Append(@, MappedPts(m, Pts(s, tag)))]
               /\ globalAudioTimestamp' = MappedPts(m, Pts(s, tag))
  /\ audioStreamStatus' = [audioStreamStatus EXCEPT ![s] = "OnlineStarted"]
  /\ audioJoined' = (audioJoined \/ audioStreamStatus[s] # "OnlineStarted")
  /\ \E d \in AudioSteps :
       source' = [source EXCEPT ![s].audio = @ + d]
  /\ UNCHANGED <<online, clockVars, rawVideoData, loop, running, outVars>>
  /\ UNCHANGED <<decoder, videoQueue, videoStreamStatus>>

(* A read returns: getOutput is tried, wherever in a segment it ended.            *)
newInput ==
  /\ Reading
  /\ loop' = "getOutput"
  /\ UNCHANGED <<sourceVars, parseVars, statusVars, queueVars, clockVars, rawVideoData,
                 running, outVars, audioJoined>>
-----------------------------------------------------------------------------
(* What is due (isNextAudioStreamReady, isNextVideoStreamReady).               *)
Started(status) == {s \in Slots : status[s] = "OnlineStarted"}

(* Mutated form: a started slot without audio is passed over.                  *)
isNextAudioStreamReady_PassesOver ==
  \E s \in Started(audioStreamStatus) : audioQueue[s] # <<>>

isNextAudioStreamReady ==
  /\ Started(audioStreamStatus) # {}
  /\ \A s \in Started(audioStreamStatus) : audioQueue[s] # <<>>

(* Mutated form: the latest of the timestamps instead of the earliest.         *)
audioTimestamp_Latest ==
  MaxOf({Head(audioQueue[s]) : s \in {q \in Started(audioStreamStatus) : audioQueue[q] # <<>>}})

audioTimestamp ==
  MinOf({Head(audioQueue[s]) : s \in {q \in Started(audioStreamStatus) : audioQueue[q] # <<>>}})

Waiting == {s \in Started(videoStreamStatus) : videoQueue[s] # <<>>}
HeadIsSpsPps(s) == Head(videoQueue[s]).sp = "SpsPps"

nextBucketTimestamp == lastBucketTimestamp + Interval

(* The C++ cast to int rounds towards zero.                                      *)
audioBucketTimestamp ==
  LET ahead == audioTimestamp - lastBucketTimestamp
  IN  IF ahead >= 0 THEN lastBucketTimestamp + Interval * (ahead \div Interval)
                    ELSE lastBucketTimestamp - Interval * ((-ahead) \div Interval)
nextLimitTimestamp == MaxOf({nextBucketTimestamp, audioBucketTimestamp})

(* The limit is for pictures: a SPS/PPS counts however late it is.               *)
Recorded == {s \in Waiting : HeadIsSpsPps(s) \/ ~hasStarted
                              \/ Head(videoQueue[s]).pts <= nextLimitTimestamp}
frameTimestamp == MaxOf({Head(videoQueue[s]).pts : s \in Recorded})

(* Mutated form: a picture is due whether the audio has reached it or not.        *)
FollowsUp_NoAudio == hasStarted /\ Recorded # {} /\ frameTimestamp <= nextBucketTimestamp

(* The four ways in which a picture is due, with its timestamp.                  *)
FollowsUp   == /\ hasStarted /\ Recorded # {}
               /\ frameTimestamp <= nextBucketTimestamp
               /\ audioBucketTimestamp >= nextBucketTimestamp
CatchesUp   == hasStarted /\ Recorded # {} /\ frameTimestamp > nextBucketTimestamp
FirstFrame  == ~hasStarted /\ \E s \in Waiting : ~HeadIsSpsPps(s)
OnlySpsPps  == ~hasStarted /\ Waiting # {} /\ \A s \in Waiting : HeadIsSpsPps(s)

isNextVideoStreamReady == FollowsUp \/ CatchesUp \/ FirstFrame \/ OnlySpsPps

(* Mutated form: the timestamp of the frame instead of its bucket's.              *)
videoTimestamp_OfTheFrame ==
  CASE FollowsUp  -> frameTimestamp
    [] CatchesUp  -> audioBucketTimestamp
    [] FirstFrame -> frameTimestamp
    [] OTHER      -> Head(videoQueue[MaxOf(Waiting)]).pts

videoTimestamp == CASE FollowsUp  -> nextBucketTimestamp
                    [] CatchesUp  -> audioBucketTimestamp
                    [] FirstFrame -> frameTimestamp
                    [] OTHER      -> Head(videoQueue[MaxOf(Waiting)]).pts
AssertionsHold == CatchesUp => /\ audioBucketTimestamp >= frameTimestamp
                               /\ audioBucketTimestamp > nextBucketTimestamp

advanceBucket ==
  /\ hasStarted' = (hasStarted \/ FirstFrame)
  /\ lastBucketTimestamp' = CASE ~isNextVideoStreamReady -> lastBucketTimestamp
                              [] OnlySpsPps              -> audioBucketTimestamp
                              [] OTHER                   -> videoTimestamp

-----------------------------------------------------------------------------
(* MixCoder.getOutput.                                                          *)
Output == running /\ loop = "getOutput"
Unparsed == UNCHANGED <<sourceVars, parseVars, statusVars>>

notReady ==
  /\ Output /\ ~isNextAudioStreamReady
  /\ loop' = "read" /\ mixed' = {}
  /\ Unparsed
  /\ UNCHANGED <<queueVars, clockVars, rawVideoData, running, lastAudio, lastVideo, audioJoined>>

(* One frame of every started slot.  The loop goes on if the encoder had an        *)
(* output for it.  A failed assertion, or a frame that is not there, ends     *)
(* the process, whatever else the step assigns.                               *)
popAudio ==
  /\ Output /\ isNextAudioStreamReady
  /\ isNextVideoStreamReady => audioTimestamp < videoTimestamp
  /\ advanceBucket
  /\ LET started == Started(audioStreamStatus)
     IN  /\ running' = (AssertionsHold /\ \A s \in started : audioQueue[s] # <<>>)
         /\ audioQueue' = [s \in Slots |-> IF s \in started THEN SubSeq(audioQueue[s], 2, Len(audioQueue[s]))
                                                            ELSE audioQueue[s]]
  /\ \/ loop' = "read" /\ UNCHANGED <<lastAudio, audioJoined>>
     \/ loop' = "getOutput" /\ lastAudio' = audioTimestamp /\ audioJoined' = FALSE
  /\ mixed' = {}
  /\ Unparsed /\ UNCHANGED <<videoQueue, rawVideoData, lastVideo>>

(* getNextVideoFrame until it gives nothing: the frames before the first that     *)
(* is later.                                                                 *)
Popped(s) == LET q == videoQueue[s]
             IN  MaxOf({n \in 0 .. Len(q) : \A i \in 1 .. n : q[i].pts <= videoTimestamp})

(* Mutated form: a frame is used although none of this stream was decoded.      *)
hasFirstFrameDecoded_Always(s) == TRUE

hasFirstFrameDecoded(s) ==
  decoder[s].bHasFirstFrameStarted /\ decoder[s].firstFramePts <= videoTimestamp

popVideo ==
  /\ Output /\ isNextAudioStreamReady
  /\ isNextVideoStreamReady /\ audioTimestamp >= videoTimestamp
  /\ advanceBucket
  /\ running' = AssertionsHold
  /\ LET started == Started(videoStreamStatus)
         n == [s \in Slots |-> IF s \in started THEN Popped(s) ELSE 0]
     IN  /\ videoQueue' = [s \in Slots |-> SubSeq(videoQueue[s], n[s] + 1, Len(videoQueue[s]))]
         /\ rawVideoData' = [s \in Slots |-> IF n[s] = 0 THEN rawVideoData[s]
                                             ELSE videoQueue[s][n[s]].sp]
         /\ LET valid == {s \in started : hasFirstFrameDecoded(s) /\ rawVideoData'[s] # None}
            IN  \/ valid # {} /\ loop' = "getOutput"
                   /\ lastVideo' = videoTimestamp /\ mixed' = valid
                \/ loop' = "read" /\ mixed' = {} /\ UNCHANGED lastVideo
  /\ Unparsed /\ UNCHANGED <<audioQueue, lastAudio, audioJoined>>

Next ==
  \/ readMask \/ newInput
  \/ \E s \in Slots : readSpsPps(s) \/ readVideo(s) \/ readAudio(s)
  \/ notReady \/ popAudio \/ popVideo
Spec == Init /\ [][Next]_vars

-----------------------------------------------------------------------------
Status == {"Offline", "OnlineNotStarted", "OnlineStarted"}
VideoRawData == [sp : {"SpsPps", "RawData"}, pts : Nat]
Parser == [rel : Int \cup {None}, prevVideo : Nat, prevAudio : Nat, prevAudioOrig : Nat,
           curSpsPps : SpsPps \cup {None}]
Mapper == [starting : Nat \cup {None}, cnt : Nat, cur : Nat \cup {None}]
TypeOK ==
  /\ source \in [Slots -> [number : Nat, audio : Nat, video : Nat, spsPps : Nat]]
  /\ online \subseteq Slots
  /\ videoStreamStatus \in [Slots -> Status] /\ audioStreamStatus \in [Slots -> Status]
  /\ parser \in [Slots -> Parser] /\ audioTsMapper \in [Slots -> Mapper]
  /\ decoder \in [Slots -> [bHasFirstFrameStarted : BOOLEAN, firstFramePts : Nat \cup {None}]]
  /\ videoQueue \in [Slots -> Seq(VideoRawData)] /\ audioQueue \in [Slots -> Seq(Nat)]
  /\ rawVideoData \in [Slots -> {"SpsPps", "RawData", None}]
  /\ globalAudioTimestamp \in Nat /\ lastBucketTimestamp \in Nat
  /\ hasStarted \in BOOLEAN /\ running \in BOOLEAN /\ audioJoined \in BOOLEAN
  /\ loop \in {"read", "getOutput"}
  /\ lastAudio \in Nat /\ lastVideo \in Nat /\ mixed \subseteq Slots

(* The process does not abort: the two assertions in isNextVideoStreamReady      *)
(* (FLVSegmentParser.cpp:88-89) hold whenever they are reached, and           *)
(* getOutput never takes the branch that reads a frame it did not get         *)
(* (MixCoder.cpp:163).                                                        *)
NoAssertionFails == running

(* A slot that is mixed has a picture: what VideoMixer reads the planes of is     *)
(* never the frame of a SPS/PPS, which has none.                              *)
MixedHavePictures == \A s \in mixed : rawVideoData[s] = "RawData"

(* The timestamps of the audio go back only when a stream was added since the     *)
(* output before.                                                            *)
AudioGoesBackOnlyForANewStream ==
  [][lastAudio' # lastAudio => audioJoined \/ lastAudio' >= lastAudio]_vars

(* Once the clock of the pictures has started (before, the picture of a SPS/PPS   *)
(* may be one tick ahead), it goes on in steps forward and every picture has  *)
(* a timestamp beyond the clock of the one before.                            *)
VideoNeverGoesBack ==
  [][hasStarted /\ running' =>
       /\ lastBucketTimestamp' >= lastBucketTimestamp
       /\ lastVideo' # lastVideo => lastVideo' > lastBucketTimestamp
                                    /\ lastBucketTimestamp' = lastVideo']_vars

(* "Video can not be faster than audio" (FLVSegmentParser.cpp:9): from the first   *)
(* picture on, the clock of the pictures never passes the audio that is next. *)
VideoIsNotFasterThanAudio ==
  [][hasStarted /\ running' /\ lastBucketTimestamp' # lastBucketTimestamp
       => lastBucketTimestamp' <= audioTimestamp]_vars

(* "each queue is sorted by timestamp" (FLVSegmentParser.h:35).                    *)
QueuesSorted ==
  \A s \in Slots :
    /\ \A i, j \in DOMAIN audioQueue[s] : i < j => audioQueue[s][i] <= audioQueue[s][j]
    /\ \A i, j \in DOMAIN videoQueue[s] :
         i < j /\ videoQueue[s][i].sp = "RawData" /\ videoQueue[s][j].sp = "RawData"
           => videoQueue[s][i].pts <= videoQueue[s][j].pts
=============================================================================
