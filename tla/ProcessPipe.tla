----------------------------- MODULE ProcessPipe ----------------------------
(***************************************************************************)
(* ProcessPipe.java: the way of a participant's media to the mix_coder     *)
(* process and of its output back.                                         *)
(*                                                                         *)
(* The executor threads of the connections add to outBuffers_ (a Vector)   *)
(* and notify; one writer thread removes, looks the sender's slot and the  *)
(* mask up at that moment (InputObject.toByteBuffer), and writes to the    *)
(* process; one reader thread reads the output.  Both pipes are bounded,   *)
(* and mix_coder is one thread that reads a segment and then writes what   *)
(* it mixed.                                                               *)
(***************************************************************************)
EXTENDS Integers, FiniteSets, Sequences

CONSTANTS
  Senders,           \* names that clients publish
  SystemNames,       \* names mapped before any client sends
  InitiallyIn,       \* senders mapped before the first frame
  AllInOneNames, KaraokeNames, MAX_STREAM_COUNT,
  None,
  QueueBound,        \* bound: outBuffers_ has none in the code
  Frames,            \* what a sender may send
  PipeCap,           \* capacity of either pipe, in segments
  MaxChanges         \* bound: joins and leaves

ASSUME BoundsAssumption ==
  {QueueBound, PipeCap, MAX_STREAM_COUNT} \subseteq Nat \ {0} /\ MaxChanges \in Nat

(* The two system names are the excluded ones, and no client publishes one.   *)
ASSUME SendersAssumption ==
  /\ IsFiniteSet(Senders) /\ InitiallyIn \subseteq Senders /\ Frames # {}
  /\ IsFiniteSet(SystemNames) /\ Cardinality(SystemNames) = 2
  /\ SystemNames \subseteq AllInOneNames \cup KaraokeNames
  /\ Senders \cap (AllInOneNames \cup KaraokeNames) = {}

Segment == [slot : Nat, mask : SUBSET (0 .. MAX_STREAM_COUNT - 1), headers : Nat,
            room : Int, version : 0 .. MaxChanges]
InputObject == [sender : Senders \cup {None}, frame : Frames \cup {None},
                segment : Segment \cup {None}]
ASSUME NoneAssumption == None \notin Senders /\ None \notin Segment

VARIABLES
  groupMappingTable, totalInputStreams, reservedStreams, mixerStreams,
  bSaveToDisc,       \* configuration: the segment is made when it is queued
  changes,           \* history: joins and leaves so far, the table's version
  sending,           \* sender's thread inside handleSegInput: its next step
  input,             \* sender -> the InputObject of that call
  outBuffers,        \* the queue of InputObjects
  writer,            \* what the writer thread does next
  obj,               \* the InputObject it has removed
  bShouldContWriterThread,
  toMixer,           \* segments in the pipe to mix_coder
  lastWritten,       \* history: the InputObject written last
  mixerAlive,        \* mix_coder runs
  fromMixer          \* its outputs on their way back, the one it is writing too

idVars   == <<groupMappingTable, totalInputStreams, reservedStreams, mixerStreams>>
sendVars == <<sending, input>>
writeVars == <<writer, obj, bShouldContWriterThread, lastWritten>>
mixVars  == <<mixerAlive, fromMixer>>
vars     == <<idVars, bSaveToDisc, changes, sendVars, outBuffers, writeVars, toMixer, mixVars>>

Ids == INSTANCE IdLookup WITH Names <- Senders \cup SystemNames, contractKept <- TRUE

NoObject == [sender |-> None, frame |-> None, segment |-> None]
Participants == Ids!Mapped \cap Senders

(* The table as tryToCreateAllInOneConn and the first publishers leave it.     *)
IsBootTable(t) ==
  /\ \A n \in SystemNames :
       /\ t[n].mixerId = IF n \in AllInOneNames THEN Ids!ALL_IN_ONE_STREAM_MIXER_ID
                                               ELSE Ids!KARAOKE_STREAM_MIXER_ID
       /\ t[n].streamId = IF n \in AllInOneNames THEN 1 ELSE 2
  /\ {t[n].mixerId : n \in InitiallyIn} = 0 .. Cardinality(InitiallyIn) - 1
  /\ {t[n].streamId : n \in DOMAIN t} = 1 .. Cardinality(DOMAIN t)

Init ==
  /\ mixerStreams = 0 .. Cardinality(InitiallyIn) - 1
  /\ totalInputStreams = Cardinality(SystemNames \cup InitiallyIn)
  /\ reservedStreams = 0 .. totalInputStreams - 1
  /\ groupMappingTable \in {t \in [SystemNames \cup InitiallyIn ->
         [mixerId : mixerStreams \cup {Ids!ALL_IN_ONE_STREAM_MIXER_ID, Ids!KARAOKE_STREAM_MIXER_ID},
          streamId : 1 .. totalInputStreams]] : IsBootTable(t)}
  /\ bSaveToDisc \in BOOLEAN
  /\ changes = 0
  /\ sending = [s \in Senders |-> "no"]
  /\ input = [s \in Senders |-> NoObject]
  /\ outBuffers = <<>>
  /\ writer = "loop" /\ obj = NoObject /\ bShouldContWriterThread = TRUE
  /\ lastWritten = NoObject
  /\ toMixer = 0
  /\ mixerAlive = TRUE /\ fromMixer = 0

-----------------------------------------------------------------------------
(* Mutated form: the sender's own bit gets a second header.                   *)
toByteBuffer_OwnHeaderTwice(o) ==
  LET answer == Ids!lookupMixerIdAndMask(o.sender)
  IN  IF o.segment # None \/ answer.mixerId = -1 THEN o
      ELSE [o EXCEPT !.segment = [slot |-> answer.mixerId, mask |-> answer.mask,
                                  headers |-> 1 + Cardinality(answer.mask),
                                  room |-> answer.total, version |-> changes]]

(* InputObject.toByteBuffer: nothing for a sender that is not mapped; else    *)
(* the lookup of that moment, kept.  A segment has one header for its       *)
(* sender and one for every other bit of the mask; room for "total" is      *)
(* allocated.                                                              *)
toByteBuffer(o) ==
  LET answer == Ids!lookupMixerIdAndMask(o.sender)
  IN  IF o.segment # None \/ answer.mixerId = -1 THEN o
      ELSE [o EXCEPT !.segment = [slot |-> answer.mixerId, mask |-> answer.mask,
                                  headers |-> 1 + Cardinality(answer.mask \ {answer.mixerId}),
                                  room |-> answer.total, version |-> changes]]
Overflows(o) == o.segment # None /\ o.segment.headers > o.segment.room

(* Mutated form: the segment is made before the object is queued.              *)
pushInputMessage_StampsFirst(s) ==
  /\ s \in Participants /\ sending[s] = "no"
  /\ Len(outBuffers) < QueueBound \/ writer = "waiting"
  /\ sending' = [sending EXCEPT ![s] = "save"]
  /\ \E f \in Frames :
       input' = [input EXCEPT ![s] = [sender |-> s, frame |-> f, segment |-> None]]
  /\ UNCHANGED <<idVars, bSaveToDisc, changes, outBuffers, writeVars, toMixer, mixVars>>

(* A live participant's thread enters handleSegInput.  The bound on the       *)
(* queue never keeps a sender from waking a writer that waits.             *)
pushInputMessage(s) ==
  /\ s \in Participants /\ sending[s] = "no"
  /\ Len(outBuffers) < QueueBound \/ writer = "waiting"
  /\ sending' = [sending EXCEPT ![s] = IF bSaveToDisc THEN "save" ELSE "add"]
  /\ \E f \in Frames :
       input' = [input EXCEPT ![s] = [sender |-> s, frame |-> f, segment |-> None]]
  /\ UNCHANGED <<idVars, bSaveToDisc, changes, outBuffers, writeVars, toMixer, mixVars>>

(* The copy for the disc: an overflow ends the call here, and what it made    *)
(* is what the writer will send.                                           *)
saveToDisc(s) ==
  /\ sending[s] = "save"
  /\ LET o == toByteBuffer(input[s])
     IN  IF Overflows(o) THEN /\ sending' = [sending EXCEPT ![s] = "no"]
                              /\ input' = [input EXCEPT ![s] = NoObject]
                         ELSE /\ sending' = [sending EXCEPT ![s] = "add"]
                              /\ input' = [input EXCEPT ![s] = o]
  /\ UNCHANGED <<idVars, bSaveToDisc, changes, outBuffers, writeVars, toMixer, mixVars>>

add(s) ==
  /\ sending[s] = "add"
  /\ outBuffers' = Append(outBuffers, input[s])
  /\ sending' = [sending EXCEPT ![s] = "notify"]
  /\ input' = [input EXCEPT ![s] = NoObject]
  /\ UNCHANGED <<idVars, bSaveToDisc, changes, writeVars, toMixer, mixVars>>

notify(s) ==
  /\ sending[s] = "notify"
  /\ sending' = [sending EXCEPT ![s] = "no"]
  /\ writer' = IF writer = "waiting" THEN "test" ELSE writer
  /\ UNCHANGED <<idVars, bSaveToDisc, changes, input, outBuffers, obj,
                 bShouldContWriterThread, lastWritten, toMixer, mixVars>>

(* Participants come and go while frames are on their way (GroupMixer).        *)
joinOrLeave(s) ==
  /\ changes < MaxChanges
  /\ changes' = changes + 1
  /\ IF s \in Participants THEN Ids!deleteEntry(s) ELSE Ids!createNewEntry(s)
  /\ UNCHANGED <<bSaveToDisc, sendVars, outBuffers, writeVars, toMixer, mixVars>>

-----------------------------------------------------------------------------
(* tryToWrite.  Only this thread removes and only this thread clears the flag, *)
(* so the tests of both outer loops and remove(0) are one step.            *)
Elsewhere == UNCHANGED <<idVars, bSaveToDisc, changes, sendVars, mixVars>>

(* Mutated form: the object queued last is taken first.                        *)
remove_Last ==
  /\ writer = "loop" /\ bShouldContWriterThread /\ outBuffers # <<>>
  /\ obj' = outBuffers[Len(outBuffers)]
  /\ outBuffers' = SubSeq(outBuffers, 1, Len(outBuffers) - 1)
  /\ writer' = "lookup"
  /\ Elsewhere /\ UNCHANGED <<bShouldContWriterThread, lastWritten, toMixer>>

remove ==
  /\ writer = "loop" /\ bShouldContWriterThread /\ outBuffers # <<>>
  /\ obj' = Head(outBuffers)
  /\ outBuffers' = Tail(outBuffers)
  /\ writer' = "lookup"
  /\ Elsewhere /\ UNCHANGED <<bShouldContWriterThread, lastWritten, toMixer>>

GiveUp ==
  /\ bShouldContWriterThread' = FALSE
  /\ obj' = NoObject
  /\ writer' = "loop"
  /\ UNCHANGED <<outBuffers, lastWritten, toMixer>>

lookup ==
  /\ writer = "lookup"
  /\ LET o == toByteBuffer(obj)
     IN  \/ Overflows(o) /\ GiveUp
         \/ /\ ~Overflows(o)
            /\ obj' = IF o.segment = None THEN NoObject ELSE o
            /\ writer' = IF o.segment = None THEN "loop" ELSE "write"
            /\ UNCHANGED <<outBuffers, bShouldContWriterThread, lastWritten, toMixer>>
  /\ Elsewhere

(* Mutated form: write does not block on a full pipe.                          *)
write_NeverBlocks ==
  /\ writer = "write"
  /\ \/ ~mixerAlive /\ GiveUp
     \/ /\ mixerAlive
        /\ toMixer' = toMixer + 1
        /\ lastWritten' = obj /\ obj' = NoObject
        /\ writer' = "loop"
        /\ UNCHANGED <<outBuffers, bShouldContWriterThread>>
  /\ Elsewhere

(* out_.write and flush: a broken pipe, or a wait for room.                    *)
write ==
  /\ writer = "write"
  /\ \/ ~mixerAlive /\ GiveUp
     \/ /\ mixerAlive /\ toMixer < PipeCap
        /\ toMixer' = toMixer + 1
        /\ lastWritten' = obj /\ obj' = NoObject
        /\ writer' = "loop"
        /\ UNCHANGED <<outBuffers, bShouldContWriterThread>>
  /\ Elsewhere

leaveInnerLoop ==
  /\ writer = "loop"
  /\ bShouldContWriterThread => outBuffers = <<>>
  /\ writer' = IF bShouldContWriterThread THEN "test" ELSE "exited"
  /\ Elsewhere /\ UNCHANGED <<outBuffers, obj, bShouldContWriterThread, lastWritten, toMixer>>

(* isEmpty is tested before the lock is taken; wait() releases it.             *)
testEmpty ==
  /\ writer = "test"
  /\ writer' = IF outBuffers = <<>> THEN "wait" ELSE "loop"
  /\ Elsewhere /\ UNCHANGED <<outBuffers, obj, bShouldContWriterThread, lastWritten, toMixer>>

wait ==
  /\ writer = "wait"
  /\ writer' = "waiting"
  /\ Elsewhere /\ UNCHANGED <<outBuffers, obj, bShouldContWriterThread, lastWritten, toMixer>>

spuriousWakeup ==
  /\ writer = "waiting"
  /\ writer' = "test"
  /\ Elsewhere /\ UNCHANGED <<outBuffers, obj, bShouldContWriterThread, lastWritten, toMixer>>

-----------------------------------------------------------------------------
(* mix_coder: one thread that reads and then writes what it mixed.  One         *)
(* output more than the pipe holds means that it is blocked in that write.  *)
OutsideMixer == UNCHANGED <<idVars, bSaveToDisc, changes, sendVars, outBuffers, writeVars>>

mixerRuns ==
  /\ mixerAlive /\ toMixer > 0 /\ fromMixer <= PipeCap
  /\ toMixer' = toMixer - 1
  /\ fromMixer' \in {fromMixer, fromMixer + 1}
  /\ OutsideMixer /\ UNCHANGED mixerAlive

mixerDies ==
  /\ mixerAlive
  /\ mixerAlive' = FALSE
  /\ toMixer' = 0
  /\ fromMixer' = IF fromMixer > PipeCap THEN PipeCap ELSE fromMixer
  /\ OutsideMixer

(* Mutated form: the reading loop's condition is negated.                      *)
tryToRead_Negated ==
  /\ fromMixer > 0 /\ ~bShouldContWriterThread
  /\ fromMixer' = fromMixer - 1
  /\ OutsideMixer /\ UNCHANGED <<toMixer, mixerAlive>>

(* tryToRead, until the end of the stream.  Any exception of readData that is    *)
(* no IOException would end the thread; it is taken not to throw one.         *)
tryToRead ==
  /\ fromMixer > 0
  /\ fromMixer' = fromMixer - 1
  /\ OutsideMixer /\ UNCHANGED <<toMixer, mixerAlive>>

-----------------------------------------------------------------------------
Sender(s) == saveToDisc(s) \/ add(s) \/ notify(s)
Writer == remove \/ lookup \/ write \/ leaveInnerLoop \/ testEmpty \/ wait

Next ==
  \/ \E s \in Senders : pushInputMessage(s) \/ Sender(s) \/ joinOrLeave(s)
  \/ Writer \/ spuriousWakeup
  \/ mixerRuns \/ mixerDies \/ tryToRead

(* Every thread runs; a live participant keeps sending.                        *)
Fairness ==
  /\ \A s \in Senders : WF_vars(pushInputMessage(s)) /\ WF_vars(Sender(s))
  /\ WF_vars(Writer) /\ WF_vars(mixerRuns) /\ WF_vars(tryToRead)
Spec == Init /\ [][Next]_vars /\ Fairness

-----------------------------------------------------------------------------
TypeOK ==
  /\ Ids!TypeOK
  /\ bSaveToDisc \in BOOLEAN /\ changes \in 0 .. MaxChanges
  /\ sending \in [Senders -> {"no", "save", "add", "notify"}]
  /\ input \in [Senders -> InputObject] /\ outBuffers \in Seq(InputObject)
  /\ writer \in {"loop", "lookup", "write", "test", "wait", "waiting", "exited"}
  /\ {obj, lastWritten} \subseteq InputObject /\ bShouldContWriterThread \in BOOLEAN
  /\ toMixer \in 0 .. PipeCap /\ fromMixer \in 0 .. PipeCap + 1
  /\ mixerAlive \in BOOLEAN

(* As long as mix_coder lives the writer keeps writing: no lookup, however     *)
(* late and whoever joined or left since the frame was queued, makes a      *)
(* segment that its buffer cannot hold.                                    *)
WriterAlive == mixerAlive => bShouldContWriterThread

(* The masks mix_coder reads never go back in time (without the copy for the   *)
(* disc): a participant that left does not come back in a later segment.   *)
MasksInOrder ==
  [][~bSaveToDisc /\ lastWritten # NoObject
       => lastWritten'.segment.version >= lastWritten.segment.version]_vars

(* Queued frames are not forgotten: while a participant is there to wake the   *)
(* writer and mix_coder lives, the writer removes one again and again, or    *)
(* has emptied the queue.                                                  *)
KeepsMoving ==
  []<>(outBuffers = <<>> \/ writer = "lookup" \/ ~bShouldContWriterThread \/ Participants = {})

(* The comment on the wait: "wait until something is added to the             *)
(* outBuffers_" (ProcessPipe.java:154).  With nobody about to notify, the    *)
(* writer waits only while the queue is empty.                             *)
WaitsOnlyUntilSomethingIsAdded ==
  writer = "waiting" /\ (\A s \in Senders : sending[s] # "notify") => outBuffers = <<>>

(* The pipe implements the channel: the object in hand is still queued.        *)
Plain(o) == [sender |-> o.sender, frame |-> o.frame]
PlainOnes(q) == [i \in 1 .. Len(q) |-> Plain(q[i])]
Queued == IF obj = NoObject THEN outBuffers ELSE <<obj>> \o outBuffers
SenderOf(message) == message.sender
Abstract == INSTANCE MediaChannel WITH
  Messages     <- [sender : Senders, frame : Frames],
  Sender       <- SenderOf,
  None         <- Plain(NoObject),
  queue        <- PlainOnes(Queued),
  delivered    <- Plain(lastWritten),
  participants <- Participants,
  broken       <- ~bShouldContWriterThread
ImplementsMediaChannel == Abstract!Spec

-----------------------------------------------------------------------------
(* The inductive strengthening of the invariants: how the table counts, ...  *)
TableKept ==
  /\ SystemNames \subseteq Ids!Mapped
  /\ totalInputStreams = Cardinality(Ids!Mapped)
  /\ mixerStreams = {groupMappingTable[s].mixerId : s \in Participants}
  /\ \A r, s \in Participants :
       groupMappingTable[r].mixerId = groupMappingTable[s].mixerId => r = s

(* ... what a segment, wherever it is, was made of, ...                      *)
WellMade(o) ==
  o.segment # None => o.segment.headers <= o.segment.room /\ o.segment.version <= changes
SegmentsWellMade ==
  /\ \A s \in Senders : WellMade(input[s])
  /\ \A i \in DOMAIN outBuffers : WellMade(outBuffers[i])
  /\ WellMade(obj) /\ WellMade(lastWritten)

(* ... what the threads have in hand, ...                                    *)
IsMessage(o) == o.sender \in Senders /\ o.frame \in Frames
InHand ==
  /\ \A s \in Senders : sending[s] \in {"save", "add"} => IsMessage(input[s])
  /\ \A i \in DOMAIN outBuffers : IsMessage(outBuffers[i])
  /\ writer \in {"lookup", "write"} => IsMessage(obj) /\ bShouldContWriterThread
  /\ writer \notin {"lookup", "write"} => obj = NoObject
  /\ writer = "write" => obj.segment # None
  /\ lastWritten # NoObject => lastWritten.segment # None

(* ... and that only the writer looks up, if nothing is saved.               *)
StampedLate ==
  ~bSaveToDisc =>
    /\ \A s \in Senders : sending[s] # "save" /\ input[s].segment = None
    /\ \A i \in DOMAIN outBuffers : outBuffers[i].segment = None
    /\ writer = "lookup" => obj.segment = None
    /\ writer = "write" /\ lastWritten # NoObject
         => obj.segment.version >= lastWritten.segment.version

PipeInv == TypeOK /\ TableKept /\ SegmentsWellMade /\ InHand /\ StampedLate /\ WriterAlive
=============================================================================
