--------------------------- MODULE AudioResampler ---------------------------
(***************************************************************************)
(* prog/AudioResampler.cpp and the part of FLVSegmentParser.cpp that feeds *)
(* it: the decoded samples of one stream, cut into frames of FRAME.  What  *)
(* does not fill a frame waits in a residual buffer for the next call.     *)
(*                                                                         *)
(* A sample is its number, counted after resampling.  A call that cannot   *)
(* decode or resample adds nothing, which is a call with no samples.       *)
(***************************************************************************)
EXTENDS Naturals, SequencesExt

CONSTANTS
  FRAME,             \* MP3_FRAME_SAMPLE_SIZE (1152)
  MaxSamples,        \* samples one call may yield
  Unset,             \* content of a buffer never written
  Width              \* bound: samples are numbered modulo this

ASSUME FrameAssumption ==
  /\ FRAME \in Nat \ {0} /\ MaxSamples \in 1 .. 2 * FRAME - 1
  /\ Width \in Nat /\ Width > FRAME + MaxSamples
  /\ Unset \notin Nat

VARIABLES
  resampleShortRemaining, remainingSampleCnt,
  audioQueue,        \* the frames the last call put into the stream's queue
  nextSample,        \* number of the next sample
  firstSample        \* history: number of the sample that call's frames ought to begin with

resamplerVars == <<resampleShortRemaining, remainingSampleCnt, audioQueue, nextSample, firstSample>>

Fresh == [i \in 1 .. FRAME |-> Unset]

ResamplerInit ==
  /\ resampleShortRemaining = Fresh /\ remainingSampleCnt = 0
  /\ audioQueue = <<>> /\ nextSample = 0 /\ firstSample = 0

-----------------------------------------------------------------------------
(* The loop over the samples of a call.  Its state: samples still to place, *)
(* those to skip in the output buffer, the residual, the frames made.       *)
At(out, i) == IF i \in DOMAIN out THEN out[i] ELSE Unset

Completes(r) == r.remaining + r.count >= FRAME

completeResidual(out, r) ==
  LET take == FRAME - r.remaining
  IN  [count |-> r.count - take, skip |-> take, remaining |-> 0, residual |-> r.residual,
       frames |-> Append(r.frames, [i \in 1 .. FRAME |->
                    IF i <= r.remaining THEN r.residual[i] ELSE At(out, i - r.remaining)])]

addToResidual(out, r) ==
  [count |-> 0, skip |-> 0, remaining |-> r.remaining + r.count, frames |-> r.frames,
   residual |-> [i \in 1 .. FRAME |-> IF i \in r.remaining + 1 .. r.remaining + r.count
                                      THEN At(out, i - r.remaining) ELSE r.residual[i]]]

(* The count of the residual is set here, its samples are not.              *)
wholeFrame(out, r) ==
  [count |-> r.count - FRAME, skip |-> FRAME, remaining |-> r.count - FRAME, residual |-> r.residual,
   frames |-> Append(r.frames, [i \in 1 .. FRAME |-> At(out, i)])]

(* Mutated form: the samples that are used are copied once more.            *)
newResidual_NoSkip(out, r) ==
  [count |-> 0, skip |-> 0, remaining |-> r.count, frames |-> r.frames,
   residual |-> [i \in 1 .. FRAME |-> IF i <= r.count THEN At(out, i) ELSE r.residual[i]]]

newResidual(out, r) ==
  [count |-> 0, skip |-> 0, remaining |-> r.count, frames |-> r.frames,
   residual |-> [i \in 1 .. FRAME |-> IF i <= r.count THEN At(out, r.skip + i) ELSE r.residual[i]]]

Pass(out, r) ==
  IF r.count = 0 THEN r
  ELSE IF r.remaining > 0
       THEN IF Completes(r) THEN completeResidual(out, r) ELSE addToResidual(out, r)
       ELSE IF r.count >= FRAME THEN wholeFrame(out, r) ELSE newResidual(out, r)

(* Every pass places a sample, so as many passes as samples are enough.     *)
resample(out, residual, remaining) ==
  LET after[i \in 0 .. Len(out)] ==
        IF i = 0 THEN [count |-> Len(out), skip |-> 0, remaining |-> remaining,
                       residual |-> residual, frames |-> <<>>]
                 ELSE Pass(out, after[i - 1])
  IN  after[Len(out)]

(* onFLVFrameParsed.  A tag with other settings than the last comes with a   *)
(* decoder of its own, and the residual of the old one is gone.  The frames  *)
(* are taken from the end of the resampler's list.                           *)
onFLVFrameParsed(n, bIsSameDecoder) ==
  LET out == [i \in 1 .. n |-> (nextSample + i - 1) % Width]
      r == resample(out, IF bIsSameDecoder THEN resampleShortRemaining ELSE Fresh,
                         IF bIsSameDecoder THEN remainingSampleCnt ELSE 0)
  IN  /\ resampleShortRemaining' = r.residual /\ remainingSampleCnt' = r.remaining
      /\ audioQueue' = Reverse(r.frames)
      /\ nextSample' = (nextSample + n) % Width
      /\ firstSample' = IF bIsSameDecoder THEN (firstSample + FRAME * Len(audioQueue)) % Width
                                          ELSE nextSample

ResamplerNext == \E n \in 0 .. MaxSamples, same \in BOOLEAN : onFLVFrameParsed(n, same)

ResamplerSpec == ResamplerInit /\ [][ResamplerNext]_resamplerVars

-----------------------------------------------------------------------------
(* What a decoder yields comes out once and in order: the frames of a call,  *)
(* followed by the residual, are the samples from the first one not yet      *)
(* given out to the last one decoded (AudioResampler.cpp:43-87, 97-106).     *)
SamplesInOrder ==
  LET got == FlattenSeq(audioQueue) \o SubSeq(resampleShortRemaining, 1, remainingSampleCnt)
  IN  /\ \A i \in DOMAIN got : got[i] = (firstSample + i - 1) % Width
      /\ (firstSample + Len(got)) % Width = nextSample
=============================================================================
