-------------------------- MODULE KaraokeGenerator --------------------------
(***************************************************************************)
(* KaraokeGenerator.java: one thread plays song after song.  Each frame of *)
(* a song goes out when its timestamp is due, on the original stream, and  *)
(* again at least DELAY_INTERVAL later on the delayed stream, the one that *)
(* is mixed.  Clients select songs from their own threads, with plain      *)
(* writes to the fields that the karaoke thread reads.                     *)
(*                                                                         *)
(* Time is in ticks of one frame.  Timestamps are Java ints; of each,      *)
(* FLVParser writes the low three bytes to the header and leaves the       *)
(* fourth, which the readers of the header take for the high one.          *)
(***************************************************************************)
EXTENDS Integers, Sequences

CONSTANTS
  Songs, Default,    \* the songs with a mapping; the one played in between
  Missing,           \* songs whose file does not exist
  FirstSong,         \* the song readSongMappingTable read last
  Clients, None,
  Length,            \* frames of a song
  QueueLimit,        \* frames are read while fewer are queued (10)
  DELAY_INTERVAL,    \* in ticks
  MaxDuration,       \* bound: ticks emptyDelayObjectQueue may take
  Width,             \* an int is modulo this (2^32)
  HeaderWidth        \* the three bytes in a header are modulo this (2^24)

ASSUME NoneAssumption == None \notin Nat \cup Songs
ASSUME SongsAssumption == Default \notin Songs /\ Missing \subseteq Songs /\ FirstSong \in Songs
ASSUME TicksAssumption ==
  /\ {Length, QueueLimit, DELAY_INTERVAL, MaxDuration, HeaderWidth} \subseteq Nat \ {0}
  /\ MaxDuration >= DELAY_INTERVAL /\ HeaderWidth > 2 * (2 * Length + MaxDuration)
ASSUME WidthAssumption ==
  Width \in Nat /\ Width > HeaderWidth /\ Width % HeaderWidth = 0

VARIABLES
  pc,                \* what the karaoke thread does next
  curSongFile, curSongName, bCancelCurrentSong,
  selecting,         \* client -> [step, song, inTime] of its selectSong
  announced,         \* the song the clients were told of last
  song,              \* the file loadASong was called with
  read,              \* frames of it that were read
  adjustPTS, firstPTS, lastTimestamp,
  flvFrameQueue,     \* timestamps of the frames not yet sent
  delayObjectQueue,  \* [timestamp, age] of the frames not yet sent again
  elapsed, duration, \* ticks since startTime of loadASong, of emptyDelayObjectQueue
  sent, sentDelayed, \* history: timestamp of the frame sent last on either stream
  owed,              \* history: timestamps parsed and not yet sent delayed
  wanted             \* history: song whose selection nothing has disturbed

songVars   == <<curSongFile, curSongName, bCancelCurrentSong>>
clientVars == <<selecting, wanted>>
playVars   == <<song, read, adjustPTS, firstPTS, lastTimestamp, flvFrameQueue,
                delayObjectQueue, sent, sentDelayed, owed>>
vars == <<pc, songVars, clientVars, announced, playVars, elapsed, duration>>

Init ==
  /\ pc = "off"
  /\ curSongFile = FirstSong /\ curSongName = FirstSong /\ bCancelCurrentSong = FALSE
  /\ selecting = [c \in Clients |-> [step |-> "no", song |-> None, inTime |-> FALSE]]
  /\ announced = None /\ song = None /\ read = 0
  /\ adjustPTS = 0 /\ firstPTS = None /\ lastTimestamp = 0
  /\ flvFrameQueue = <<>> /\ delayObjectQueue = <<>>
  /\ elapsed = 0 /\ duration = 0
  /\ sent = None /\ sentDelayed = None /\ owed = <<>> /\ wanted = None

(* The song fields are not the karaoke thread's own until it has put Default *)
(* into them and before it takes the next song out.                        *)
InASong == pc \in {"play", "frame", "read", "ended", "drain", "empty", "reset"}

-----------------------------------------------------------------------------
(* The first media message of anyone starts the thread.                      *)
tryToStart ==
  /\ pc = "off" /\ pc' = "announce"
  /\ UNCHANGED <<songVars, clientVars, announced, playVars, elapsed, duration>>

(* selectSong: three plain writes.                                           *)
Untouched == UNCHANGED <<pc, announced, playVars, elapsed, duration>>

selectFile(c, s) ==
  /\ selecting[c].step = "no"
  /\ curSongFile' = s
  /\ selecting' = [d \in Clients |->
       IF d = c THEN [step |-> "name", song |-> s, inTime |-> InASong]
                ELSE [selecting[d] EXCEPT !.inTime = FALSE]]
  /\ wanted' = None
  /\ UNCHANGED <<curSongName, bCancelCurrentSong>> /\ Untouched

selectName(c) ==
  /\ selecting[c].step = "name"
  /\ curSongName' = selecting[c].song
  /\ selecting' = [selecting EXCEPT ![c].step = "cancel"]
  /\ UNCHANGED <<curSongFile, bCancelCurrentSong, wanted>> /\ Untouched

selectCancel(c) ==
  /\ selecting[c].step = "cancel"
  /\ bCancelCurrentSong' = TRUE
  /\ selecting' = [selecting EXCEPT ![c] = [step |-> "no", song |-> None, inTime |-> FALSE]]
  /\ wanted' = IF /\ selecting[c].inTime /\ InASong /\ selecting[c].song \notin Missing
                  /\ \A d \in Clients \ {c} : selecting[d].step = "no"
               THEN selecting[c].song ELSE None
  /\ UNCHANGED <<curSongFile, curSongName>> /\ Untouched

-----------------------------------------------------------------------------
(* run, and the head of loadASong.                                           *)
onSongPlaying ==
  /\ pc = "announce" /\ pc' = "path"
  /\ announced' = curSongName
  /\ selecting' = [c \in Clients |-> [selecting[c] EXCEPT !.inTime = FALSE]]
  /\ UNCHANGED <<songVars, wanted, playVars, elapsed, duration>>

loadASong ==
  /\ pc = "path" /\ pc' = "default"
  /\ song' = curSongFile /\ firstPTS' = None
  /\ UNCHANGED <<songVars, clientVars, announced, read, adjustPTS, lastTimestamp, flvFrameQueue,
                 delayObjectQueue, sent, sentDelayed, owed, elapsed, duration>>

nextAsDefaultFile ==
  /\ pc = "default" /\ pc' = "defaultName"
  /\ curSongFile' = Default
  /\ UNCHANGED <<curSongName, bCancelCurrentSong, clientVars, announced, playVars, elapsed, duration>>

nextAsDefaultName ==
  /\ pc = "defaultName" /\ pc' = "open"
  /\ curSongName' = Default
  /\ UNCHANGED <<curSongFile, bCancelCurrentSong, clientVars, announced, playVars, elapsed, duration>>

(* Mutated form: the parser of a song starts from zero.                       *)
open_FromZero ==
  /\ pc = "open"
  /\ adjustPTS' = 0 /\ read' = 0
  /\ elapsed' = 0
  /\ pc' = IF song \in Missing THEN "announce" ELSE "play"
  /\ UNCHANGED <<songVars, clientVars, announced, song, firstPTS, lastTimestamp, flvFrameQueue,
                 delayObjectQueue, sent, sentDelayed, owed, duration>>

(* A missing file ends loadASong at once, and the flag stays as it is.        *)
open ==
  /\ pc = "open"
  /\ adjustPTS' = lastTimestamp /\ read' = 0
  /\ elapsed' = 0
  /\ pc' = IF song \in Missing THEN "announce" ELSE "play"
  /\ UNCHANGED <<songVars, clientVars, announced, song, firstPTS, lastTimestamp, flvFrameQueue,
                 delayObjectQueue, sent, sentDelayed, owed, duration>>

(* What FLVParser writes back to the header of a frame, and what the readers  *)
(* of the header make of it.                                               *)
HeaderTime(timestamp) == timestamp % HeaderWidth

-----------------------------------------------------------------------------
(* checkForDelaySend sends the objects that are old enough, oldest first.     *)
DueAgain(queue) ==
  CHOOSE n \in 0 .. Len(queue) :
    /\ \A i \in 1 .. n : queue[i].age >= DELAY_INTERVAL
    /\ n < Len(queue) => queue[n + 1].age < DELAY_INTERVAL
checkForDelaySend(queue) ==
  LET n == DueAgain(queue)
  IN  /\ delayObjectQueue' = SubSeq(queue, n + 1, Len(queue))
      /\ sentDelayed' = IF n = 0 THEN sentDelayed ELSE queue[n].timestamp
      /\ owed' = SubSeq(owed, n + 1, Len(owed))

Sends(timestamp) ==
  /\ sent' = timestamp
  /\ wanted' = IF wanted = song THEN None ELSE wanted
Delayed(timestamp) == Append(delayObjectQueue, [timestamp |-> timestamp, age |-> 0])
HeadIsDue == (Head(flvFrameQueue) - firstPTS) % Width <= elapsed

playLoop ==
  /\ pc = "play"
  /\ pc' = IF bCancelCurrentSong \/ (read = Length /\ flvFrameQueue = <<>>) THEN "ended"
           ELSE IF flvFrameQueue = <<>> THEN "read" ELSE "frame"
  /\ UNCHANGED <<songVars, clientVars, announced, playVars, elapsed, duration>>

frameNotDue ==
  /\ pc = "frame" /\ ~HeadIsDue
  /\ checkForDelaySend(delayObjectQueue)
  /\ UNCHANGED <<pc, songVars, clientVars, announced, song, read, adjustPTS, firstPTS, lastTimestamp,
                 flvFrameQueue, sent, elapsed, duration>>

frameDue ==
  /\ pc = "frame" /\ HeadIsDue /\ pc' = "read"
  /\ Sends(Head(flvFrameQueue))
  /\ flvFrameQueue' = Tail(flvFrameQueue)
  /\ delayObjectQueue' = Delayed(Head(flvFrameQueue))
  /\ UNCHANGED <<songVars, selecting, announced, song, read, adjustPTS, firstPTS, lastTimestamp,
                 sentDelayed, owed, elapsed, duration>>

(* Mutated form: the bytes read before are not counted.                       *)
MayRead_FromStart == IF Len(flvFrameQueue) < QueueLimit THEN Length ELSE 0

MayRead == IF Len(flvFrameQueue) < QueueLimit THEN Length - read ELSE 0

(* The timestamps of the next n frames of the song, with adjustPTS added.     *)
AdjustedTimestamps(n) == [i \in 1 .. n |-> (adjustPTS + read + i - 1) % Width]

(* A buffer holds any number of whole frames.  onKaraokeFrameParsed sends the *)
(* first frame of a song at once and queues the others.                    *)
readBuf ==
  /\ pc = "read" /\ pc' = "play"
  /\ \E n \in 0 .. MayRead :
       LET parsed == AdjustedTimestamps(n)
           first  == n > 0 /\ firstPTS = None
           queue  == IF first THEN Delayed(parsed[1]) ELSE delayObjectQueue
           due    == DueAgain(queue)
       IN  /\ read' = read + n
           /\ firstPTS' = IF first THEN parsed[1] ELSE firstPTS
           /\ lastTimestamp' = IF n = 0 THEN lastTimestamp ELSE parsed[n]
           /\ flvFrameQueue' = flvFrameQueue \o (IF first THEN Tail(parsed) ELSE parsed)
           /\ IF first THEN Sends(parsed[1]) ELSE UNCHANGED <<sent, wanted>>
           /\ delayObjectQueue' = SubSeq(queue, due + 1, Len(queue))
           /\ sentDelayed' = IF due = 0 THEN sentDelayed ELSE queue[due].timestamp
           /\ owed' = SubSeq(owed \o parsed, due + 1, Len(owed) + n)
  /\ UNCHANGED <<songVars, selecting, announced, song, adjustPTS, elapsed, duration>>

songEnded ==
  /\ pc = "ended"
  /\ pc' = IF bCancelCurrentSong THEN "drain" ELSE "empty"
  /\ duration' = 0
  /\ UNCHANGED <<songVars, clientVars, announced, playVars, elapsed>>

(* Mutated form: the frames left of a cancelled song are sent only once.      *)
drain_NotDelayed ==
  /\ pc = "drain" /\ flvFrameQueue # <<>>
  /\ IF HeadIsDue
       THEN Sends(Head(flvFrameQueue)) /\ flvFrameQueue' = Tail(flvFrameQueue)
       ELSE UNCHANGED <<sent, wanted, flvFrameQueue>>
  /\ checkForDelaySend(delayObjectQueue)
  /\ UNCHANGED <<pc, songVars, selecting, announced, song, read, adjustPTS, firstPTS, lastTimestamp,
                 elapsed, duration>>

(* What was read of a cancelled song is still sent, each frame when due.      *)
drain ==
  /\ pc = "drain" /\ flvFrameQueue # <<>>
  /\ IF HeadIsDue
       THEN /\ Sends(Head(flvFrameQueue)) /\ flvFrameQueue' = Tail(flvFrameQueue)
            /\ checkForDelaySend(Delayed(Head(flvFrameQueue)))
       ELSE /\ UNCHANGED <<sent, wanted, flvFrameQueue>>
            /\ checkForDelaySend(delayObjectQueue)
  /\ UNCHANGED <<pc, songVars, selecting, announced, song, read, adjustPTS, firstPTS, lastTimestamp,
                 elapsed, duration>>

drained ==
  /\ pc = "drain" /\ flvFrameQueue = <<>> /\ pc' = "empty"
  /\ UNCHANGED <<songVars, clientVars, announced, playVars, elapsed, duration>>

emptyDelayObjectQueue ==
  /\ pc = "empty" /\ delayObjectQueue # <<>>
  /\ checkForDelaySend(delayObjectQueue)
  /\ UNCHANGED <<pc, songVars, clientVars, announced, song, read, adjustPTS, firstPTS, lastTimestamp,
                 flvFrameQueue, sent, elapsed, duration>>

emptied ==
  /\ pc = "empty" /\ delayObjectQueue = <<>> /\ pc' = "reset"
  /\ lastTimestamp' = (lastTimestamp + duration) % Width
  /\ duration' = 0
  /\ UNCHANGED <<songVars, clientVars, announced, song, read, adjustPTS, firstPTS, flvFrameQueue,
                 delayObjectQueue, sent, sentDelayed, owed, elapsed>>

(* Mutated form: the flag is left set.                                        *)
compareAndSet_Dropped ==
  /\ pc = "reset" /\ pc' = "announce"
  /\ UNCHANGED <<songVars, clientVars, announced, playVars, elapsed, duration>>

compareAndSet ==
  /\ pc = "reset" /\ pc' = "announce"
  /\ bCancelCurrentSong' = FALSE
  /\ UNCHANGED <<curSongFile, curSongName, clientVars, announced, playVars, elapsed, duration>>

(* A tick of the clock.  Ages and the time of a song stop counting once they  *)
(* decide nothing any more; emptyDelayObjectQueue takes time only while it   *)
(* has something to wait for.                                              *)
Tick ==
  /\ pc = "empty" => delayObjectQueue # <<>> /\ duration < MaxDuration
  /\ duration' = IF pc = "empty" THEN duration + 1 ELSE duration
  /\ elapsed' = IF elapsed < Length THEN elapsed + 1 ELSE elapsed
  /\ delayObjectQueue' = [i \in DOMAIN delayObjectQueue |->
       IF delayObjectQueue[i].age < DELAY_INTERVAL
         THEN [delayObjectQueue[i] EXCEPT !.age = @ + 1] ELSE delayObjectQueue[i]]
  /\ UNCHANGED <<pc, songVars, clientVars, announced, song, read, adjustPTS, firstPTS, lastTimestamp,
                 flvFrameQueue, sent, sentDelayed, owed>>

-----------------------------------------------------------------------------
Thread ==
  \/ onSongPlaying \/ loadASong \/ nextAsDefaultFile \/ nextAsDefaultName \/ open
  \/ playLoop \/ frameNotDue \/ frameDue \/ readBuf \/ songEnded
  \/ drain \/ drained \/ emptyDelayObjectQueue \/ emptied \/ compareAndSet
selectSong(c) == selectName(c) \/ selectCancel(c) \/ \E s \in Songs : selectFile(c, s)

Next == tryToStart \/ Thread \/ Tick \/ \E c \in Clients : selectSong(c)

(* The thread and the clock go on; a buffer with no whole frame in it is      *)
(* followed by one that has one.                                           *)
Fairness ==
  /\ WF_vars(Thread) /\ WF_vars(Tick)
  /\ SF_vars(readBuf /\ read' > read)
Spec == Init /\ [][Next]_vars /\ Fairness

-----------------------------------------------------------------------------
Timestamps == 0 .. Width - 1
TypeOK ==
  /\ pc \in {"off", "announce", "path", "default", "defaultName", "open"} \/ InASong
  /\ {curSongFile, curSongName} \subseteq Songs \cup {Default}
  /\ {announced, song, wanted} \subseteq Songs \cup {Default, None}
  /\ bCancelCurrentSong \in BOOLEAN
  /\ read \in 0 .. Length /\ Len(flvFrameQueue) <= Length
  /\ {adjustPTS, lastTimestamp} \subseteq Timestamps
  /\ {firstPTS, sent, sentDelayed} \subseteq Timestamps \cup {None}
  /\ elapsed \in 0 .. Length /\ duration \in 0 .. MaxDuration

(* Every frame that is read goes out on the delayed stream too, in order and  *)
(* once, also when its song is cancelled: what is still owed is what waits   *)
(* to be sent again followed by what waits to be sent, and a song that ends  *)
(* owes nothing to the next.                                               *)
EveryFrameIsSentTwice ==
  /\ owed = [i \in DOMAIN delayObjectQueue |-> delayObjectQueue[i].timestamp] \o flvFrameQueue
  /\ ~InASong => owed = <<>>

(* The time in the headers of either stream goes back only where the karaoke  *)
(* itself has played on through a multiple of 2^24 ms, and then from the end  *)
(* of the three bytes to their start: from song to song, and when one is cut  *)
(* short or missing, it goes on.                                           *)
Lap(timestamp) == timestamp \div HeaderWidth
GoesOn(s, t) ==
  \/ s = None \/ s = t
  \/ Lap(t) = Lap(s) /\ HeaderTime(t) > HeaderTime(s)
  \/ /\ Lap(t) = (Lap(s) + 1) % (Width \div HeaderWidth)
     /\ HeaderTime(t) + HeaderWidth - HeaderTime(s) <= MaxDuration + Length
TimeGoesBackOnlyAtTheWrap == [][GoesOn(sent, sent') /\ GoesOn(sentDelayed, sentDelayed')]_vars

(* A song that a client selects while another one plays, with no other        *)
(* selection in between, is played.                                        *)
SelectedSongIsPlayed == (wanted # None) ~> (wanted = None)

-----------------------------------------------------------------------------
(* The inductive strengthening of the invariants: what the queues hold, what  *)
(* a client's selection is about, and what the thread knows at each step.    *)
DelayObject == [timestamp : Timestamps, age : Nat]
QueuesOK ==
  /\ flvFrameQueue \in Seq(Timestamps) /\ owed \in Seq(Timestamps)
  /\ delayObjectQueue \in Seq(DelayObject)
  /\ Len(flvFrameQueue) <= read

Selection == [step : {"no", "name", "cancel"}, song : Songs \cup {None}, inTime : BOOLEAN]
SelectingOK ==
  /\ selecting \in [Clients -> Selection]
  /\ \A c \in Clients : selecting[c].step # "no" => selecting[c].song \in Songs

Phases ==
  /\ firstPTS = None => flvFrameQueue = <<>>
  /\ pc = "frame" => flvFrameQueue # <<>>
  /\ pc = "ended" => bCancelCurrentSong \/ flvFrameQueue = <<>>
  /\ pc \in {"empty", "reset"} => flvFrameQueue = <<>>
  /\ pc = "reset" => delayObjectQueue = <<>>
  /\ pc \in {"default", "defaultName", "open"} \/ InASong => song \in Songs \cup {Default}

KaraokeInv == TypeOK /\ QueuesOK /\ SelectingOK /\ Phases /\ EveryFrameIsSentTwice
=============================================================================
