---------------------------- MODULE FLVTimestamps ----------------------------
(***************************************************************************)
(* How mix_coder moves the timestamps of every publisher onto one clock:   *)
(* the offset of a stream (FLVParser.parseNextFLVFrame) and the counting   *)
(* of decoded audio frames (AudioTimestampMapper).  The unit of time is    *)
(* whatever the smallest step of a timestamp stands for.                   *)
(***************************************************************************)
EXTENDS Integers

CONSTANTS
  AudioFrame,        \* length of one decoded audio frame (26.1 ms)
  Drift,             \* a gap beyond this (100 ms) starts a new offset
  None

ASSUME TimestampsAssumption ==
  AudioFrame \in Nat \ {0} /\ Drift \in Nat \ {0} /\ None \notin Int

(* FLVParser: relTimeStampOffset_ is MAX_S32 until the first frame.           *)
NewParser == [rel |-> None, prevVideo |-> 0, prevAudio |-> 0, prevAudioOrig |-> 0,
              curSpsPps |-> None]

(* A tag: its type, the content of a SPS/PPS (None for a frame), its time.    *)
IsSps(tag) == tag.sps # None
IsAudio(tag) == tag.st = "audio"
IsJump(p, tag) == IsAudio(tag) /\ tag.ts > p.prevAudioOrig + Drift

(* The first frame of a stream, and every jump of its audio, restart the      *)
(* stream's clock at the audio enqueued last, whichever stream that was.   *)
Offset(p, tag, globalAudioTimestamp) ==
  IF (p.rel = None /\ ~IsSps(tag)) \/ IsJump(p, tag)
  THEN globalAudioTimestamp - tag.ts
  ELSE p.rel

(* No timestamp is negative, and a SPS/PPS takes the one after the frame        *)
(* before it.                                                              *)
AdjustedPts(p, tag, globalAudioTimestamp) ==
  LET rel == Offset(p, tag, globalAudioTimestamp)
  IN  CASE IsSps(tag)         -> p.prevVideo + 1
        [] ~IsSps(tag) /\ tag.ts + rel >= 0 -> tag.ts + rel
        [] OTHER              -> 1 + (IF IsAudio(tag) THEN p.prevAudio ELSE p.prevVideo)

Parsed(p, tag, globalAudioTimestamp) ==
  LET pts == AdjustedPts(p, tag, globalAudioTimestamp)
      q   == [p EXCEPT !.rel = Offset(p, tag, globalAudioTimestamp),
                       !.curSpsPps = IF IsSps(tag) THEN tag.sps ELSE @]
  IN  IF IsAudio(tag) THEN [q EXCEPT !.prevAudio = pts, !.prevAudioOrig = tag.ts]
                      ELSE [q EXCEPT !.prevVideo = pts]

(* A SPS/PPS that repeats the stream's last one goes no further.               *)
IsFrameReady(p, tag) == tag.sps # p.curSpsPps \/ ~IsSps(tag)

(* AudioTimestampMapper.getNextTimestamp.                                     *)
NewMapper == [starting |-> None, cnt |-> 0, cur |-> None]
Restarts(m, ts) == m.starting = None \/ ts > m.cur + Drift
Mapped(m, ts) ==
  IF Restarts(m, ts) THEN [starting |-> ts, cnt |-> 1, cur |-> ts]
                     ELSE [m EXCEPT !.cnt = @ + 1, !.cur = ts]

(* Mutated form: the count starts below zero.                                  *)
MappedPts_OneEarly(m, ts) ==
  IF Restarts(m, ts) THEN ts - AudioFrame ELSE m.starting + (m.cnt - 1) * AudioFrame

MappedPts(m, ts) == IF Restarts(m, ts) THEN ts ELSE m.starting + m.cnt * AudioFrame
=============================================================================
