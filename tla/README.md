# Verification of GroupVoip

GroupVoip is a group video call: every participant publishes a stream to a red5
(RTMP) server, the server hands the media of all of them to one `mix_coder`
process, and every participant gets back a mixed stream that leaves out their own
voice. A karaoke generator plays songs into the same mix. This directory holds
TLA+ models of the parts that carry that logic, the TLC configurations that check
them, and proofs checked by TLAPS.

Paths below are relative to the repository. `mixer/` stands for
`src/old/red5-readonly/src/main/java/org/red5/server/mixer/`, `prog/` for
`src/old/server/mixcoder/prog/`.

## 1. The system

```
 client --publish--> StreamService --createMixedStream--> GroupMixer --IdLookup
   |                                                          | posts createStream,
   | frames                                                   | publish, deleteStream
   v                                                          v
 GroupMixer.pushInputMessage                          all-in-one RTMP connection
   |                                                          ^
   v                                                          | mixed frames
 ProcessPipe: queue -> writer ==pipe==> mix_coder ==pipe==> reader -> SegmentParser
                                        (one thread)
 KaraokeGenerator: song file -> original stream, and 100 ms later -> delayed stream -> mix
```

| Component | State | Operations | Hard behaviour | Correct when |
|---|---|---|---|---|
| `mixer/IdLookup` | table name -> (slot, stream id), two BitSets, a count | createNewEntry, deleteEntry, three lookups | entries replaced, unknown names deleted, more streams than slots, two names without a slot | ids and slots unique, nothing leaks, header count = size of mask |
| `mixer/GroupMixer` with `StreamService`, `RTMPConnection` | all-in-one session, its inbox, reserved ids, its streams; providers per name | session created, publish, delete stream, the three posted messages | messages handled later than the table was changed; connections on threads of their own; close by an I/O thread | both id allocators agree, table = participants, nobody takes another's mixed stream |
| `mixer/ProcessPipe`, `InputObject` | queue, writer and reader thread, two bounded pipes | handleSegInput, tryToWrite, tryToRead | lookup at sending time, lost wakeup, circular back-pressure, death of mix_coder | FIFO, nothing dropped for a participant who is still there, no overflow, keeps moving |
| framing: `mixer/SegmentParser`, `prog/FLVSegmentParser.readData`, `prog/FLVSegmentOutput` | four parser states, a partial field | write a segment, read a chunk | chunks cut at any byte, entries of length 0 | reader in step, frames in order, none held back; a mask at the limit of streams stops the reader |
| `mixer/KaraokeGenerator`, `FLVParser` | song fields shared with clients, two frame queues, timestamps | selectSong; the song loop | selections at any moment, missing files, cancelled songs, 24-bit timestamps | every frame sent on both streams, time goes back only at the wrap of the three bytes, selected song plays |
| `prog/FLVSegmentParser`, `MixCoder`, `MixCoderMain` | slot statuses, audio and video queues, bucket clock | read a segment, getOutput | publishers start, stop and are replaced at any time; SPS/PPS, undecodable frames | no assertion fails, clocks go forward, only decoded pictures mixed |
| `prog/FLVParser`, `AudioTimestampMapper` | offset and last timestamps of a stream | parse a tag, map a timestamp | first frame, jumps, negative times | one clock for all streams |
| `prog/VideoDecoder` | whether a picture was decoded since the last SPS/PPS | newAccessUnit | frames that do not decode | nothing mixed before it was decoded |
| `prog/AudioResampler` | residual samples, finished frames | resample, take a frame | a residual carried from call to call, several frames per call, decoders replaced | samples once and in order |
| `prog/AudioMixer`, `VideoMixer` | a scaler per slot | mix | the set of streams changes from mix to mix | everybody hears everybody else, pictures apart and inside the frame, scalers of the right size |
| FLV tags: `prog/FLVParser.readData`, `mixer/FLVParser`, `prog/FLVOutput`, `GroupMixer.onFrameGenerated` | two parser states, the tag collected so far, whether the file header was sent | cut bytes into tags, move a song's timestamps, put the file header before the first mixed frame, take a frame apart | pieces cut at any byte, a size read before its tag, a frame that holds a file header and two tags | every tag handed on once, in order, with its own data and time, none held back |

`PROJECT.json` lists every other part of the repository with the reason it is left
out, and the hazards: the places where this code is hard to test, with the
properties that would catch each one going wrong, or why none does yet.

## 2. Modules

| Module | Models | Correspondence |
|---|---|---|
| `IdLookup` | `mixer/IdLookup.java` | One action per method (each is one synchronized block). BitSets are sets of bits, the HashMap a function. `contractKept` is a history variable: names are created once, and only clients' names are deleted. |
| `IdLookupProofs` | | TLAPS proofs about it. |
| `GroupMixer` | `GroupMixer`, `StreamService.publish/deleteStream`, `RTMPConnection` stream ids, session creation | `INSTANCE`s `IdLookup` for its table. Each thread of a client connection is a program counter `pc`, `closing` is a deleteStream in progress; `inbox` is the message executor of the all-in-one connection. Test and registration of a name are two steps; so are the entry and the messages that follow it. |
| `ProcessPipe` | `ProcessPipe.java`, `InputObject.toByteBuffer`, the loop of `MixCoderMain.cpp` | `INSTANCE`s `IdLookup`. One step per access to shared state: `add`, `notify`, `remove`, `lookup`, `write`, the unsynchronized `testEmpty`, `wait`. A segment is its slot, its mask, the headers put and the room allocated. |
| `MediaChannel` | what the pipe promises | Abstract FIFO channel: a message is left out only if its sender is no participant; after it breaks nothing is delivered. |
| `SegmentFraming` | both directions of the segment protocol | A byte is the field it belongs to and its value. `direction` chooses the pair of writer and reader; both readers are the same four states. A mask is read on while `Readable` (the assertions `numStreams_ < MAX_XCODING_INSTANCES`, the loop over a signed mask); at any other the reader stops for good (`maskRefused`). |
| `SegmentFramingProofs` | | TLAPS proofs about it. |
| `KaraokeGenerator` | `KaraokeGenerator.java`, timestamps of `mixer/FLVParser.java` | The thread's program counter, three plain writes of `selectSong`, time in ticks of one frame. |
| `KaraokeProofs` | | TLAPS proofs about it. |
| `FLVTimestamps` | `FLVParser.parseNextFLVFrame`, `AudioTimestampMapper` | Pure operators on the records of one stream. |
| `MixCoder` | `FLVSegmentParser`, `MixCoder.getOutput`, `VideoDecoder`, main | `EXTENDS FLVTimestamps`. Reading a mask, reading a tag of a slot, `newInput` when a read returns, and the three outcomes of `getOutput`. The readiness rules are one operator each (`FollowsUp`, `CatchesUp`, `FirstFrame`, `OnlySpsPps`). |
| `AudioResampler` | `AudioResampler::resample`, the taking of frames in `FLVSegmentParser::onFLVFrameParsed` | A sample is its number. One operator per branch of the loop; the loop is a recursive function over its passes. A tag with other settings replaces the decoder and its residual. |
| `Mixing` | `VideoMixer`, `AudioMixer`, their calls in `MixCoder.getOutput` | Scalers are state kept across calls; a picture is its rectangle and three offsets; a mix of audio is the set of streams in it. What the code writes past an array of two is a choice of any subset. |
| `FLVTags` | `FLVParser.readData` in C++ and in Java, `FLVOutput.package*Frame`, `GroupMixer.onFrameGenerated` | A byte is the field it belongs to and that field's value, so that a parser that is out of step reads nothing sensible. `way` chooses the writer and the reader. |
| `MCMediaPath` | | `FLVTags`, `AudioResampler` and `Mixing` for TLC. They share no state, so a behaviour follows one of four parts (tags, resampler, pictures, audio). |
| `GroupMixerProofs`, `MixCoderProofs`, `ProcessPipeProofs` | | TLAPS proofs about `GroupMixer`, `MixCoder` and `ProcessPipe`. |
| `MediaPathProofs` | | TLAPS proofs about `Mixing`, `FLVTags` and `AudioResampler`, which `MCMediaPath` checks together. |
| `NumberLemmas` | | Least and greatest members of sets of naturals, the lowest free number, rounding of a division, remainders that wrap, joining and cutting of sequences: what the proofs rest on. |
| `MC*` | | Instances for TLC. `MCIdLookup` bounds the entries created and not deleted. |

A definition whose name ends in `_Something` after the name of a code operation
(`deleteEntry_CountKept`) is a mutated form: a plausible bug of that operation,
kept to show that a property would catch it. No specification uses it.

Composition: `GroupMixer` and `ProcessPipe` each run the real `IdLookup` rather
than an abstraction of it. `ProcessPipe` carries segments as units;
`SegmentFraming` opens them up into bytes; `MixCoder` starts where the reader of
`SegmentFraming` delivers a tag. `AudioResampler` and `Mixing` fill in what `MixCoder`
leaves out of decoding and of its two kinds of output. `FLVTags` models the level
between: the bytes of a publisher's segment become the tags that `MixCoder` reads, and
the tags of a mixed segment the messages that the clients of `GroupMixer` get.

## 3. Runs

Each run is one question. `tlc -config X.cfg MCModule` repeats it.

| Run | Question and answer |
|---|---|
| `id_lookup` | Can any order of calls, also calls outside the callers' contract, give two streams one number? No. Under the contract nothing leaks, and the number of headers that `lookupMixerIdAndMask` reports is the size of the mask. |
| `groupmixer_serial` | While one client at a time comes or goes and the all-in-one connection handles its messages later, do the two allocators of stream ids (IdLookup's BitSet and the connection's `reserveStreamId`) agree, is the table the participants, does nobody disturb somebody else's mixed stream, does every accepted publisher get one? Yes. |
| `groupmixer_concurrent` | And when two clients' threads overlap? No: the ids fall out of step (a violation, finding 1). |
| `process_pipe` | Is the way to mix_coder a FIFO channel that leaves out only those who left (`MediaChannel`), without a segment that overflows its buffer, whoever joins, leaves or dies in between, and does it keep moving in spite of the wakeup that can be missed? Yes, the last while somebody keeps sending. |
| `pipe_wakeup` | Does the writer wait only while there is nothing to write? No (finding 2). |
| `segment_framing` | Are frames cut and joined correctly at every byte, in both directions, is none held back until the next segment, and does the reader stop nowhere but at a mask at the limit of streams? Yes. |
| `karaoke` | Is every frame read sent on both streams, does the time in their headers go back only where its three bytes wrap, also when songs are cut short or missing, and is a song that is selected while another plays played? Yes. |
| `mixcoder` | With publishers that send one SPS/PPS first and whose pictures decode: does no assertion of the bucket clock fail, is nothing mixed before it was decoded, do the clocks go forward? Yes. Audio goes back only when a stream joins. |
| `mixcoder_assert` | And with a second SPS/PPS, and pictures that do not decode? An assertion fails (finding 4). |
| `mixcoder_sorted` | Is each queue sorted when a slot is used again? No (finding 5). |
| `media_path` | Do FLV tags arrive whole, once, in order and with their own time on all three ways (publisher to mix_coder, song file to mix, mixed frame to listener), wherever their bytes are cut, and does none wait for the next? Are decoded samples given out once and in order, across calls of up to a frame and replaced decoders? Yes. Does every scaler that is kept fit the next mix, are up to four pictures apart and inside the frame with all three planes in one place, and does a listener hear everybody else? Yes. |
| `resampler_long_calls` | And when one call decodes more than a frame? Then samples come out in another order (finding 3). |

Every property of a passing run has a mutated form of an operation that violates it
(`PROJECT.json`, "mutants"), so none of them holds for want of the interesting case.

## 4. Bounds

- `id_lookup`: three clients for two slots reach a client without a slot, which is
  where slot and mask lookups differ; two system names fill both excluded ids.
  `MaxTotal` stops only the count that callers outside the contract drive up.
- `groupmixer_*`: two names and three connections reach a name taken twice, a name
  taken again by another connection, and the session that is made by whoever comes
  first. The inbox of the all-in-one connection holds up to `MaxBacklog` messages.
  `Serial` says that a client's thread begins only when no other client's is under
  way; the all-in-one connection's executor overlaps with everything all the same.
- `process_pipe`: `QueueBound` limits a queue the code does not limit, except for a
  sender that finds the writer waiting. Pipes of one segment make every wait for
  room happen. Two changes of the table are a leave and a join of the same slot by
  another. The system may really stop (the writer has given up, or
  nobody is left to send), so deadlock is not checked.
- `segment_framing`: fields of two bytes, frames of one and three, reads of at most
  five bytes cut at any position within two segments: longer than a field and
  shorter than a segment, so that a chunk ends in every parser state. With three slots
  towards mix_coder masks of one and two are read and a mask of three is at the limit;
  towards the server a mask with the highest bit ends in the endless loop.
  `AssertionsEnabled` is FALSE, as no script starts the server with `-ea`; the proofs are
  for both values. Two segments have one before and one after a mask that stops the
  reader. The bound on segments stops the system, so deadlock is not checked.
- `karaoke`: songs of two frames have a frame that starts the clock and one that is
  queued; `HeaderWidth` 11 (2^24) makes the headers wrap during the second song, and
  `Width` 22 (2^32) the ints after two of those. `None` is no number, so an int that
  wraps never equals a missing one. `MaxDuration`
  limits the time `emptyDelayObjectQueue` waits, which the code bounds by the delay
  and the scheduler. Ages and the time of a song stop counting when they decide
  nothing more.
- `mixcoder*`: `Interval` : `AudioFrame` : `Drift` is 3 : 2 : 9 where the code has
  33.3 ms, 26.1 ms and 100 ms: two frames of audio span one picture but one does
  not, and the drift is three intervals. `MaxTime` = 4 reaches the second bucket, the
  first that is filled by the regular rules; publishers' clocks differ by up to
  `Skew`. `MaxSpsPps` and `MaxPublishers` count what one publisher and one slot may
  do: the passing run has one each, the violating runs two.

- `media_path`: fields of two bytes, data of one and three, pieces of up to eight: a
  piece ends inside every field and can hold the end of one tag, a whole one and the
  beginning of the next. Three tags are a first one, with the file header before it, and
  two that follow. The writers stop at `MaxTags`, so deadlock is not checked.
  A frame of three samples has a residual of none, one and two. Calls of
  up to `MaxSamples` = `FRAME` are what 16 kHz Speex (882 samples) and 44.1 kHz MP3 and
  AAC (1152, 1024) yield; `resampler_long_calls` has one sample more, as AAC at 22.05 kHz
  and MP3 at 11.025 kHz would. Five slots reach every case of the mixers, and the one that mixes
  nothing.

## 5. Fairness

- `GroupMixer`: weak fairness of each client's thread and of each connection's
  executor: both are threads of the server that run until they are done. Nobody is
  obliged to join or to leave.
- `ProcessPipe`: weak fairness of each sender's call, of the writer, of the reader and
  of mix_coder. A participant who is there keeps sending frames (a camera does); that
  is what makes up for a missed notify, and `KeepsMoving` promises nothing without.
  There is none for `spuriousWakeup`, `mixerDies` and `joinOrLeave`.
- `KaraokeGenerator`: weak fairness of the thread and of the clock. A buffer read from
  the file may hold no whole frame, but not for ever: strong fairness of a `readBuf`
  that makes progress. Clients are free to select or not.

The other modules have no liveness property and no fairness. mix_coder blocks in a
read as long as nothing is sent, so a promise of output would be about its input.

## 6. Findings

1. `groupmixer_concurrent`, `mixer/GroupMixer.java:99`: the entry is made under
   IdLookup's lock, and `createStream` and `publish` are posted after it. Two clients
   at once have their messages handled in another order than their ids were reserved
   in: a `createStream` gets another id than the entry, and the `publish` that names the
  entry's id finds no stream or another participant's, so a mixed stream is refused or
  made under an id that is not in the table.
2. `pipe_wakeup`, `mixer/ProcessPipe.java:152`: the writer tests the queue outside the
   lock it waits on. A notify in between is lost, and a frame waits for the next one.
3. `resampler_long_calls`, `prog/AudioResampler.cpp:74`: `wholeFrame` counts a residual
   that is not copied, and two frames of one call come out in reverse order.
4. `mixcoder_assert`, `prog/FLVSegmentParser.cpp:88`: an SPS/PPS is recorded without
   the limit that pictures have. Ahead of the audio it makes
   `assert( audioBucketTimestamp >= frameTimestamp )` fail, which ends mix_coder for
   everybody.
5. `mixcoder_sorted`, `prog/FLVSegmentParser.cpp:257`: a slot that goes offline keeps
   its queue, its parser and its offset, so the next publisher's frames are queued
   behind later ones.

## 7. Proofs

`IdLookupProofs`, for every finite set of names and every number of slots. The
assumptions are those of `IdLookup`: `Names` is finite, no spelling is both "allinone"
and "karaoke", and there is a slot.

- `IdInvariant`: the inductive invariant. `TypeOK` and the uniqueness of ids are not
  inductive alone: that a new id differs from those in use follows from every entry's
  bit being set (`BitsHeld`), and that a deletion frees only its own bit follows from
  uniqueness. `LowestClear` is a CHOOSE; that the lowest clear bit exists, at most at
  the cardinality of the set, is a lemma of its own.
- `TypeCorrect`, `StreamIdsNeverShared`, `SlotsNeverShared`: no two entries share a
  stream id or a slot that is mixed, for any calls in any order.
- `NothingLeaks`: under the callers' contract the bits are those of the entries and
  the count is their number.
- `SegmentCountsAgree`: with both excluded streams mapped and every mixed stream in a
  slot the total handed to `InputObject` is the size of the mask.

`KaraokeProofs`, for every set of songs and clients, delay, song length and width.
The assumptions are those of `KaraokeGenerator`: `Default` and a missing value are no
songs, the number constants are positive, the three bytes of a header hold two songs and
a delay, and an int holds a whole number of their ranges.

- `KaraokeInvariant`: the inductive invariant `KaraokeInv`. "What is owed is what waits
  to be sent again followed by what waits to be sent" needs the queues' types, that
  `firstPTS` is set when a frame is queued (else `readBuf` would send a first frame
  ahead of queued ones), that the thread takes a head only of a queue that is not
  empty, and that a song is left only when both queues are empty. The proof states the
  equation element by element (`Owes`) and has one lemma for each way frames move:
  parsed, sent, sent again. `DueAgain` is a CHOOSE; that a first object too young
  exists, or all are due, follows from the least element of a set of naturals.
- `TypeCorrect` and `FramesSentTwice` follow from it.
- `BackOnlyAtTheWrap` is the action property `TimeGoesBackOnlyAtTheWrap`, on both streams
  and over any number of songs. FLVParser.java:54-56 writes three bytes of a timestamp and
  leaves the fourth as the song file has it, and GroupMixer.java:140 and
  prog/FLVParser.cpp:71-80 read all four, so after 4.66 hours of karaoke the time they see
  falls from 2^24 - 1 back to the start: the code does not prevent it, and the property
  does not deny it. It says that nothing else (a song that follows another, is cut short, is
  empty or missing, a frame that is sent a second time) sends the time back, and that the
  fall is from near the end of the range to near its start. It needs a second invariant, `InTime`, also checked by TLC before it was
  proved. While a song plays its frames are numbered from `adjustPTS` on, what is
  owed are the last of those read, and each stream is at the frame before the first it has
  not sent, or, before a song's first frame, behind the song's start by at most
  `MaxDuration`. Between songs both streams are behind `lastTimestamp` by at most that;
  a song without a frame adds nothing to it, since it has nothing to wait for (`read = 0`
  and so `duration = 0`), which is what keeps the distance from growing over a series of
  empty songs. `AheadOf` is where the widths matter: one step is at most a song and a
  delay, less than half of `HeaderWidth`, so the int is ahead of the one before, and its
  header is ahead unless the step has crossed a multiple of `HeaderWidth`. `MaxDuration` is
  a bound of the model, yet the theorem holds for every value of it that the width allows.

`ProcessPipeProofs`, for every finite set of senders, any number of slots, capacities and
changes of the table. The assumptions are those of `ProcessPipe`: there are the two
system names, and no client publishes one of them; there is something to send.

- `PipeInvariant`: the inductive invariant `PipeInv`. That no segment overflows
  (`WriterNeverStops`) needs `TableKept`: the count is that of the mapped names, the two
  system names are always among them, and every bit of the mask is the slot of a
  participant. Then a segment has at most one header for each participant, also when
  there are more of them than slots (`HeadersFit`). `SegmentsWellMade` carries that to
  segments that wait, whoever joins or leaves meanwhile, `InHand` says what each thread
  holds, and `StampedLate` that only the writer looks up, which gives `MasksNeverGoBack`.
- `PipeImplementsChannel`: the refinement of `MediaChannel`. The queue of the channel is
  the object in the writer's hand followed by `outBuffers`, without their segments.
  `add` is `Accept`, `write` is `Deliver` or `Break`, a `lookup` that finds nobody is
  `LeaveOut`, and every other step changes nothing the channel sees; that `remove` is one
  of those is the equation `<<Head(q)>> \o Tail(q) = q`.

`MixCoderProofs`, for any number of slots and publishers and any lengths of the
interval, the frame and the drift that `MixCoderAssumption` and `TimestampsAssumption`
allow (`None`, which stands for `MAX_S32`, is no timestamp).

- `TypeCorrect`: no offset, jump, frame count or bucket makes a timestamp negative. Each
  CHOOSE (the earliest head, the number of pictures popped) is shown to have a value.
- `PicturesGoForward` and `PicturesStayBehindAudio`: the clock of the pictures never goes
  back, and never passes the audio that is mixed next.

The second half of the module, under `MaxSpsPps <= 1` and `MaxPublishers <= 1`: every slot
has one publisher that sends its SPS/PPS once, which is the case the code was written
for and not one it enforces (`mixcoder_assert` violates `NoAssertionFails` with two).
Slots, tags, failed decodes and the order of everything are unbounded.

- `OnePublisherNeverAborts`: `NoAssertionFails`. What is recorded for `frameTimestamp` is
  under the limit because a SPS/PPS, the one thing that has no limit, has timestamp 1.
  That needs `UnusedBefore`: until its SPS/PPS nothing of the slot's video reached the
  process, so `prevVideo` is still 0.
- `OnePublisherIsMixedDecoded`: `MixedHavePictures`. The strengthening is `SpsPpsIsFirst`
  and `FirstFrameKept`: the frame the decoder started with is in the queue, behind the
  SPS/PPS at most, or a picture was taken out; so once it is due, what is kept for mixing
  is a picture.

The last part of the module is about the audio, and not under `MaxSpsPps <= 1`.

- `AudioGoesForward`: `AudioGoesBackOnlyForANewStream`, for any publishers, under
  `[]CountClose`: the time that `AudioTimestampMapper` has counted up to for a slot is never
  more than `Drift` beyond the publisher's own timestamp (its `cur`). The mapper starts its count anew when a
  timestamp is more than `Drift` beyond the one before, and takes that timestamp without
  comparing it to what it counted; under `CountClose` what it takes is later. The
  invariant is `AudioInOrder`: a slot's queue is in order and before what is mapped next, and
  unless a stream joined since the last output, no started slot has or will have a frame
  before that output.
- `SteadyCountIsClose` and `SteadyAudioGoesForward`: with one publisher for each slot and
  every tag of audio between one frame and the drift long, `CountClose` holds, and with it
  the property. The invariant `OneClock` says that such tags never jump, so that a stream's offset is
  set once, by its first tag, and the count never passes the publisher's clock.
  The lower limit is needed for the model, where every tag may complete a frame:
  TLC finds the audio going back with a frame of 2, tags of 1 and 3, and a drift of 3. In the
  code a Speex tag (20 ms) is shorter than a frame (26.1 ms), but `AudioResampler` completes
  a frame only from as many samples (`SamplesInOrder`), so the count follows the samples;
  for such tags `CountClose` is the condition to check, and `AudioGoesForward` the theorem.

`GroupMixerProofs`, for any connections, any names and streams of the server (distinct
ones, `SystemNamesAssumption`), any number of slots and any backlog.

- `TypeCorrect` holds however the clients' threads interleave. It is more than types:
  whoever posts a message finds a session (`ControlOK`), and the ids in use are finite
  sets, so that the scan for a free one ends.
- The rest is for clients that take turns: each theorem assumes `ClientsTakeTurns`, that
  is `Serial`, and that no client publishes under one of the server's own names.
  `StreamService.publish` refuses neither. `groupmixer_concurrent` shows what happens
  without the first; without the second a client would replace the entry of a system
  stream. The all-in-one connection is not part of the turns: its executor lags behind by
  any number of messages.
- `SerialHolds` is the inductive invariant `SerialInv`. Its core is `Foreseen`. When a
  client is done, its messages may all still be waiting, so table and connection differ;
  what agrees is the table and what the connection is *going to have*. `Leads(q, s, e)`
  says that handling the messages `q` takes the connection from view `s` to view `e`: there
  is a sequence of views, one after each message. `Ahead(e)` says that `e` has the streams,
  names and ids of the table, less what the busy thread has entered and not yet posted,
  and with what it has removed and not yet posted. A step of the executor drops the first
  view (`ExecutorForeseen`), posting a message adds one (`OnePosted`), and
  everything else leaves `e` alone. That `createStream` will find the very id that the table
  chose needs that both scan for the lowest free number and that the two sets are then
  the same (`PostCreateForeseen`); that the publish is accepted, that the name's former
  stream is closed by then, though that message may not have been handled yet.
- `IdsAgree` and `TableIsRight` are `IdsInStep` and `TableIsTheParticipants`: with
  nothing under way the connection is where it was going.
- `MineIsMine` is the action property `NobodyElseTakesMyStream`. The stream is in the view
  the connection is going to have; were it lost at some message, a later one would have to
  bring it back, and only a publish of that name does (`OnAllTheWay`).

`MediaPathProofs` has one section for each part of `MCMediaPath`.

- `Mixing`, for any number of slots. `MixingInvariant` strengthens `ScalersFit` by
  what a scaler was made for; `PicturesAlwaysFit` rests on `Ranks` (the streams of a mix
  get distinct places, counted from 0) and on one lemma for the rectangles of two places;
  `OthersAlwaysHeard` on the set of streams in a mix, whatever is written past the array.
- `FLVTags`, for any positive lengths of the fields, of the data and of the pieces
  that `readData` is given, any number of tags, and any adjustment of a song's time.
  `TagsFollowed` is the invariant `TagsInv`, which TLC checked first. It says that there
  are lengths `L` of the tags' data, places `P` where each tag begins and a stream `W` of
  all the bytes written (`IsStream`), such that the parser's buffer, its piece and what is
  still to come are consecutive parts of `W` (`IsRest`), the buffer being the first bytes
  of tag `Parsed + 1` (`TagKept`): the size that `scanHeader` reads is therefore
  that tag's own, which is why the buffer is given up at its last byte and not before. A
  song's bytes behind the size carry the moved time from there on (`AdjustedIs`). A mixed
  frame is known by how many are left (`MixedFrames`), and `curIndex` is 0, or behind the
  header's metadata in the first.
  `TagsArriveInOrder` and `NothingWaitsWhole` are `TagsInOrder` and `NoTagHeldBack`; the
  second needs that a tag not yet parsed is longer than what may be kept of it.
- `AudioResampler`, for any length of a frame, and any number, length and cutting of calls
  under `MaxSamples <= FRAME`: no call decodes more than a frame, as with 16 kHz Speex and
  44.1 kHz MP3 and AAC (section 4). The code does not check that, and with longer calls the
  order is lost (finding 3), so it is a hypothesis of `SamplesStayInOrder` and no
  assumption of the module. The loop is a recursive function; that it has ended after two
  passes (`TwoPasses`) is shown with the function itself as witness, and that the function
  is the only one by its least difference from it. `ResamplerInv` then says that the residual
  continues the frame given out, modulo the width of the sample numbers.

`SegmentFramingProofs`, for both directions, any number of slots, any number and lengths
of frames and fields, and reads cut anywhere. `ReaderFollows` is the invariant. Its core,
`Followed`, says what no buffer shows by itself: there is a sequence of fields whose bytes
are all that was ever written (`Joins`), and it is a chain of whole segments (`Chain`: a
header is followed by its mask, a mask by as many stream headers as it has bits, a stream
header by as many bytes as it names). The reader's state is that of one of these fields
(`Position`), what it has not read of them is exactly what is on the way (`OnTheWay`), and
what it handed on are the frames of the fields before (`HandedOn`). `Limits` says where the
first mask is that the reader does not get past, and how many frames come before it.
The fields are not in the state, so TLC cannot evaluate `Followed`; it checks what follows from it.
- `NeverOutOfStep` is `InStep`: what is in the reader's buffer continues the field that its
  state expects, wherever a read was cut. `InOrderDelivery` is `DeliveredInOrder`.
- `AllHandedOn` is `NothingHeldBack`: while the reader runs, with all bytes read, only a
  frame of no bytes can be outstanding, since only an empty field ends where its header
  does (`LastField`). It stops only where `Limits` says, with the frames before that mask
  handed on. What becomes of the frames behind it is not claimed: mix_coder has aborted
  (FLVSegmentParser.cpp:243), or the server's reader thread is lost in
  SegmentParser.java:94-102 or to an AssertionError, for every participant.
- A write extends the chain (`SegmentAppended`) and one pass of the reader's loop moves the
  position by one field (`PassTaken`); the lemmas on sequences are in `NumberLemmas`.

Only model-checked: liveness (`SelectedSongIsPlayed`, `KeepsMoving`,
`PublisherGetsMixedStream`), which rests on fairness and ENABLED. Every invariant and every
action property of the passing runs is a theorem, under the conditions named above.
Induction over data the installed provers cannot
instantiate; where a proof needs it (a recursive function, a chain of fields) it takes
the least number for which the claim fails instead.

## 8. Not modelled

- Which stream `GroupMixer.onFrameGenerated` sends a mixed frame on: `FLVTags` has how it
  takes the frame apart. `InputObject` marks every stream `kDesktopStreamSource`, for
  which mix_coder makes the one mix of everybody, so that no frame is mixed for a slot;
  the lookup by slot at that moment is listed as a hazard for mobile streams.
- A second publish on one connection, and the closing of the mixer: nothing calls
  `GroupMixer.shutdown`, the one caller of `ProcessPipe.close`.
- `bLoadFromDisc` and the reader thread for it, and the files that are written.
  `bSaveToDisc` matters, because the segment is then made before it is queued:
  `ProcessPipe` has both values, and `MasksInOrder` is stated for the other one.
  `src/old/red5-readonly/src/main/server/conf/red5.properties:118-121` has the disc
  options and the karaoke on and mixing off; the models are of the server with
  mixing on, live input, and karaoke where it matters.
- Exceptions inside a song file, and the song list file.
- The `flush` of mix_coder at the end of its input, data tags, mobile mixes (see above).
- Decoders and encoders: external codecs. The codec headers that `FLVOutput` packs. The values
  of samples and pixels. Input pictures of different sizes: `Mixing` has the one size of
  `prog/VideoMixer.h:21`, and a decoded picture of another size ends mix_coder
  (the assertions of `prog/VideoDecoder.cpp:105-106`), which is not modelled either.
- The end of the server's reader thread by an exception other than `IOException`
  (ProcessPipe.java:165-187): `ProcessPipe` takes `readData` to throw none, so
  `KeepsMoving` is about the circle of pipes with a reader that lives. What stops it at a
  mask is in `SegmentFraming`, whose reader is not joined with `ProcessPipe`'s.
- More than one audio frame from one tag (FLVSegmentParser.cpp:185-194): `MixCoder` queues
  none or one. Its slots stay below the limit of streams, so the assertion on masks
  (FLVSegmentParser.cpp:243) is not among those of `NoAssertionFails`; `SegmentFraming` has it.
- `prog/FLVSegmentParser.h:41`, "Every 33.33ms video pops out whether there is data or
  not", is about wall-clock time, which `getOutput` does not read; no run is about it.
- red5 itself, the clients, the tools, and what `PROJECT.json` lists as not modelled.
  Nearly all of the repository's lines are vendored code: patched copies of libav and
  other codec libraries under `src/old/thirdparty`, and the red5 server. GroupVoip's own
  logic is the few thousand lines in section 1; a codec's tables and transforms keep no
  state that the call depends on beyond what `MixCoder` has of them.

## 9. Plan

What is left, the most valuable first.

1. Proofs: `CountClose` for tags shorter than a frame, from a count of the samples that
   the resampler keeps, which `MixCoder` leaves to chance.
2. `MixCoder`: `flush`, mobile mixes, and with them the delivery of a mix made for a slot
   that changes hands; reuse of a slot under the properties that survive finding 5.
3. `GroupMixer`: which part of `TableIsTheParticipants` survives concurrent clients, and a
   second publish on one connection.
4. `ProcessPipe` with a reader thread that dies, and the masks of `SegmentFraming` in it.
