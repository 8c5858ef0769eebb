---------------------------- MODULE KaraokeProofs ----------------------------
(***************************************************************************)
(* Proofs about KaraokeGenerator, for songs of any length, any delay, any  *)
(* widths of a timestamp and of a header, and any number of clients.       *)
(***************************************************************************)
EXTENDS KaraokeGenerator, NumberLemmas, SequenceTheorems

(* What the widths are, and how many laps of a header an int has.              *)
LEMMA Widths ==
  /\ Width \in Nat \ {0} /\ HeaderWidth \in Nat \ {0} /\ Width > HeaderWidth
  /\ Length \in Nat \ {0} /\ MaxDuration \in Nat \ {0}
  /\ HeaderWidth > 2 * (2 * Length + MaxDuration)
  /\ Width \div HeaderWidth \in Nat \ {0}
  /\ Width = HeaderWidth * (Width \div HeaderWidth)
<1>1. /\ HeaderWidth \in Nat \ {0} /\ Length \in Nat \ {0} /\ MaxDuration \in Nat \ {0}
      /\ HeaderWidth > 2 * (2 * Length + MaxDuration)
      /\ Width \in Nat /\ Width > HeaderWidth /\ Width % HeaderWidth = 0
  BY TicksAssumption, WidthAssumption
<1>2. Width \in Nat \ {0}
  BY <1>1
<1> DEFINE laps == Width \div HeaderWidth
<1>3. laps \in Nat
  BY <1>1, Division
<1>4. Width = (HeaderWidth * laps) + (Width % HeaderWidth)
  BY <1>1
<1> HIDE DEF laps
<1>5. HeaderWidth * laps \in Int
  BY <1>1, <1>3
<1>6. Width = HeaderWidth * laps
  BY <1>1, <1>4, <1>5
<1>7. laps # 0
  BY <1>1, <1>6
<1>8. QED BY <1>1, <1>2, <1>3, <1>6, <1>7 DEF laps

(* The fields of a waiting object.                                          *)
LEMMA DelayObjectFields ==
  ASSUME NEW D \in Seq(DelayObject), NEW i \in 1 .. Len(D)
  PROVE  D[i].timestamp \in Timestamps /\ D[i].age \in Nat
<1>1. D[i] \in DelayObject
  OBVIOUS
<1>2. QED BY <1>1 DEF DelayObject

(* checkForDelaySend stops at the first object that is too young, or at the  *)
(* end of the queue.                                                       *)
LEMMA DueAgainType ==
  ASSUME NEW D \in Seq(DelayObject)
  PROVE  DueAgain(D) \in 0 .. Len(D)
<1> DEFINE young == {n \in 0 .. Len(D) : n < Len(D) => D[n + 1].age < DELAY_INTERVAL}
           IsDue(n) == /\ \A i \in 1 .. n : D[i].age >= DELAY_INTERVAL
                       /\ n < Len(D) => D[n + 1].age < DELAY_INTERVAL
<1>1. DELAY_INTERVAL \in Nat
  BY TicksAssumption, Widths
<1>2. \A i \in 1 .. Len(D) : D[i].age \in Nat
  BY DelayObjectFields
<1>3. PICK n \in young : \A k \in young : n <= k
  <2>1. young \subseteq Nat
    OBVIOUS
  <2>2. Len(D) \in young
    OBVIOUS
  <2>3. young # {}
    BY <2>2
  <2> HIDE DEF young
  <2>4. QED BY <2>1, <2>3, LeastNumber
<1>4. \A i \in 1 .. n : D[i].age >= DELAY_INTERVAL
  <2> SUFFICES ASSUME NEW i \in 1 .. n PROVE D[i].age >= DELAY_INTERVAL
    OBVIOUS
  <2>1. i - 1 \in 0 .. Len(D) /\ i - 1 \notin young
    BY <1>3
  <2>2. ~(D[(i - 1) + 1].age < DELAY_INTERVAL)
    BY <2>1
  <2>3. (i - 1) + 1 = i
    OBVIOUS
  <2>4. QED BY <1>1, <1>2, <1>3, <2>2, <2>3
<1>5. n \in 0 .. Len(D) /\ IsDue(n)
  BY <1>3, <1>4
<1>6. DueAgain(D) = CHOOSE k \in 0 .. Len(D) : IsDue(k)
  BY DEF DueAgain
<1>7. QED BY <1>5, <1>6

-----------------------------------------------------------------------------
(* What EveryFrameIsSentTwice says of the three queues, element by element.  *)
Owes(O, D, F) ==
  /\ Len(O) = Len(D) + Len(F)
  /\ \A i \in 1 .. Len(D) : O[i] = D[i].timestamp
  /\ \A i \in 1 .. Len(F) : O[Len(D) + i] = F[i]

(* It says that what is owed is one queue after the other.                    *)
LEMMA OwesIsConcatenation ==
  ASSUME NEW O \in Seq(Timestamps), NEW D \in Seq(DelayObject), NEW F \in Seq(Timestamps)
  PROVE  O = [i \in DOMAIN D |-> D[i].timestamp] \o F <=> Owes(O, D, F)
<1> DEFINE T == [i \in DOMAIN D |-> D[i].timestamp]
<1>1. T \in Seq(Timestamps) /\ Len(T) = Len(D) /\ \A i \in 1 .. Len(D) : T[i] = D[i].timestamp
  <2>1. DOMAIN D = 1 .. Len(D) /\ Len(D) \in Nat
    OBVIOUS
  <2>2. \A i \in 1 .. Len(D) : D[i].timestamp \in Timestamps
    BY DelayObjectFields
  <2>3. T \in [1 .. Len(D) -> Timestamps]
    BY <2>1, <2>2
  <2>4. QED BY <2>1, <2>3
<1> HIDE DEF T
<1>2. Len(D) \in Nat /\ Len(F) \in Nat
  OBVIOUS
<1>3. /\ T \o F \in Seq(Timestamps)
      /\ Len(T \o F) = Len(T) + Len(F)
      /\ \A i \in 1 .. Len(T) + Len(F) :
           (T \o F)[i] = IF i <= Len(T) THEN T[i] ELSE F[i - Len(T)]
  BY <1>1, ConcatProperties
<1>4. \A i \in 1 .. Len(D) : (T \o F)[i] = D[i].timestamp
  <2> SUFFICES ASSUME NEW i \in 1 .. Len(D) PROVE (T \o F)[i] = D[i].timestamp
    OBVIOUS
  <2>1. i \in 1 .. Len(T) + Len(F) /\ i <= Len(T)
    BY <1>1, <1>2
  <2>2. QED BY <2>1, <1>1, <1>3
<1>5. \A i \in 1 .. Len(F) : (T \o F)[Len(D) + i] = F[i]
  <2> SUFFICES ASSUME NEW i \in 1 .. Len(F) PROVE (T \o F)[Len(D) + i] = F[i]
    OBVIOUS
  <2>1. /\ Len(D) + i \in 1 .. Len(T) + Len(F)
        /\ ~(Len(D) + i <= Len(T))
        /\ (Len(D) + i) - Len(T) = i
    BY <1>1, <1>2
  <2>2. QED BY <2>1, <1>3
<1> HIDE DEF T
<1>6. ASSUME O = T \o F PROVE Owes(O, D, F)
  BY <1>1, <1>3, <1>4, <1>5, <1>6 DEF Owes
<1>7. ASSUME Owes(O, D, F) PROVE O = T \o F
  <2>1. /\ Len(O) = Len(D) + Len(F)
        /\ \A i \in 1 .. Len(D) : O[i] = D[i].timestamp
        /\ \A i \in 1 .. Len(F) : O[Len(D) + i] = F[i]
    BY <1>7 DEF Owes
  <2>2. \A i \in 1 .. Len(O) : O[i] = (T \o F)[i]
    <3> SUFFICES ASSUME NEW i \in 1 .. Len(O) PROVE O[i] = (T \o F)[i]
      OBVIOUS
    <3>1. CASE i \in 1 .. Len(D)
      BY <3>1, <1>4, <2>1
    <3>2. CASE i \notin 1 .. Len(D)
      <4> DEFINE k == i - Len(D)
      <4>1. k \in 1 .. Len(F) /\ i = Len(D) + k
        BY <3>2, <1>2, <2>1
      <4> HIDE DEF k
      <4>2. QED BY <4>1, <1>5, <2>1
    <3>3. QED BY <3>1, <3>2
  <2>3. Len(O) = Len(T \o F)
    BY <1>1, <1>3, <2>1
  <2>4. QED BY <1>3, <2>2, <2>3, SeqEqual
<1>8. QED BY <1>6, <1>7 DEF T

(* What is left of a sequence without its first n elements.                  *)
LEMMA RestOf ==
  ASSUME NEW S, NEW q \in Seq(S), NEW n \in 0 .. Len(q)
  PROVE  LET rest == SubSeq(q, n + 1, Len(q))
         IN  rest \in Seq(S) /\ Len(rest) = Len(q) - n
             /\ \A i \in 1 .. Len(q) - n : rest[i] = q[n + i]
<1>1. Len(q) \in Nat /\ \A i \in 1 .. Len(q) : q[i] \in S
  BY LenProperties, ElementOfSeq
<1>2. n + 1 \in Int /\ Len(q) \in Int /\ \A i \in (n + 1) .. Len(q) : q[i] \in S
  BY <1>1
<1> DEFINE rest == SubSeq(q, n + 1, Len(q))
<1>3. rest \in Seq(S)
  BY <1>2, SubSeqProperties
<1>4. Len(rest) = Len(q) - n
  BY <1>1, <1>2, SubSeqProperties
<1>5. \A i \in 1 .. Len(q) - n : rest[i] = q[n + i]
  BY <1>1, <1>2, SubSeqProperties
<1>6. QED BY <1>3, <1>4, <1>5

(* Sending the n oldest objects again.                                       *)
LEMMA OwesWhenSentAgain ==
  ASSUME NEW O \in Seq(Timestamps), NEW D \in Seq(DelayObject), NEW F \in Seq(Timestamps),
         Owes(O, D, F), NEW n \in 0 .. Len(D)
  PROVE  /\ SubSeq(O, n + 1, Len(O)) \in Seq(Timestamps)
         /\ SubSeq(D, n + 1, Len(D)) \in Seq(DelayObject)
         /\ Owes(SubSeq(O, n + 1, Len(O)), SubSeq(D, n + 1, Len(D)), F)
<1> DEFINE P == SubSeq(O, n + 1, Len(O))
           E == SubSeq(D, n + 1, Len(D))
<1>1. Len(O) = Len(D) + Len(F) /\ Len(D) \in Nat /\ Len(F) \in Nat /\ n \in Nat /\ n <= Len(D)
  BY DEF Owes
<1>2. P \in Seq(Timestamps) /\ Len(P) = Len(O) - n /\ \A i \in 1 .. Len(O) - n : P[i] = O[n + i]
  BY <1>1, RestOf
<1>3. E \in Seq(DelayObject) /\ Len(E) = Len(D) - n /\ \A i \in 1 .. Len(D) - n : E[i] = D[n + i]
  BY <1>1, RestOf
<1> HIDE DEF P, E
<1>4. Len(P) = Len(E) + Len(F)
  BY <1>1, <1>2, <1>3
<1>5. \A i \in 1 .. Len(E) : P[i] = E[i].timestamp
  <2> SUFFICES ASSUME NEW i \in 1 .. Len(E) PROVE P[i] = E[i].timestamp
    OBVIOUS
  <2>1. n + i \in 1 .. Len(D) /\ i \in 1 .. Len(O) - n /\ i \in 1 .. Len(D) - n
    BY <1>1, <1>3
  <2>2. QED BY <1>2, <1>3, <2>1 DEF Owes
<1>6. \A i \in 1 .. Len(F) : P[Len(E) + i] = F[i]
  <2> SUFFICES ASSUME NEW i \in 1 .. Len(F) PROVE P[Len(E) + i] = F[i]
    OBVIOUS
  <2>1. Len(E) + i \in 1 .. Len(O) - n /\ n + (Len(E) + i) = Len(D) + i
    BY <1>1, <1>3
  <2>2. P[Len(E) + i] = O[Len(D) + i]
    BY <1>2, <2>1
  <2>3. QED BY <2>2 DEF Owes
<1>7. Owes(P, E, F)
  BY <1>4, <1>5, <1>6 DEF Owes
<1>8. QED BY <1>2, <1>3, <1>7 DEF P, E

(* Sending the head of the frame queue and keeping it to be sent again.      *)
LEMMA OwesWhenSent ==
  ASSUME NEW O \in Seq(Timestamps), NEW D \in Seq(DelayObject), NEW F \in Seq(Timestamps),
         Owes(O, D, F), F # <<>>
  PROVE  LET E == Append(D, [timestamp |-> Head(F), age |-> 0])
         IN  E \in Seq(DelayObject) /\ Tail(F) \in Seq(Timestamps) /\ Owes(O, E, Tail(F))
<1> DEFINE d == [timestamp |-> Head(F), age |-> 0]
           E == Append(D, d)
           G == Tail(F)
<1>1. /\ Head(F) \in Timestamps /\ Head(F) = F[1] /\ Len(F) \in Nat \ {0} /\ Len(D) \in Nat
      /\ G \in Seq(Timestamps) /\ Len(G) = Len(F) - 1 /\ \A i \in 1 .. Len(G) : G[i] = F[i + 1]
  BY HeadTailProperties, EmptySeq
<1>2. d \in DelayObject /\ d.timestamp = F[1]
  BY <1>1 DEF DelayObject
<1> HIDE DEF d
<1>3. /\ E \in Seq(DelayObject) /\ Len(E) = Len(D) + 1 /\ E[Len(D) + 1] = d
      /\ \A i \in 1 .. Len(D) : E[i] = D[i]
  BY <1>2, AppendProperties
<1> HIDE DEF E, G
<1>4. Len(O) = Len(E) + Len(G)
  BY <1>1, <1>3 DEF Owes
<1>5. \A i \in 1 .. Len(E) : O[i] = E[i].timestamp
  <2> SUFFICES ASSUME NEW i \in 1 .. Len(E) PROVE O[i] = E[i].timestamp
    OBVIOUS
  <2>1. CASE i \in 1 .. Len(D)
    BY <2>1, <1>3 DEF Owes
  <2>2. CASE i = Len(D) + 1
    BY <2>2, <1>1, <1>2, <1>3 DEF Owes
  <2>3. QED BY <2>1, <2>2, <1>1, <1>3
<1>6. \A i \in 1 .. Len(G) : O[Len(E) + i] = G[i]
  <2> SUFFICES ASSUME NEW i \in 1 .. Len(G) PROVE O[Len(E) + i] = G[i]
    OBVIOUS
  <2>1. i + 1 \in 1 .. Len(F) /\ Len(E) + i = Len(D) + (i + 1)
    BY <1>1, <1>3
  <2>2. O[Len(D) + (i + 1)] = F[i + 1]
    BY <2>1 DEF Owes
  <2>3. QED BY <1>1, <2>1, <2>2
<1>7. Owes(O, E, G)
  BY <1>4, <1>5, <1>6 DEF Owes
<1>8. QED BY <1>1, <1>3, <1>7 DEF E, G, d

(* Parsing frames: they are owed, and queued.                                *)
LEMMA OwesWhenParsed ==
  ASSUME NEW O \in Seq(Timestamps), NEW D \in Seq(DelayObject), NEW F \in Seq(Timestamps),
         Owes(O, D, F), NEW P \in Seq(Timestamps)
  PROVE  /\ O \o P \in Seq(Timestamps) /\ F \o P \in Seq(Timestamps)
         /\ Len(O \o P) = Len(O) + Len(P) /\ Len(F \o P) = Len(F) + Len(P)
         /\ Owes(O \o P, D, F \o P)
<1>1. /\ O \o P \in Seq(Timestamps) /\ Len(O \o P) = Len(O) + Len(P)
      /\ \A i \in 1 .. Len(O) + Len(P) : (O \o P)[i] = IF i <= Len(O) THEN O[i] ELSE P[i - Len(O)]
  BY ConcatProperties
<1>2. /\ F \o P \in Seq(Timestamps) /\ Len(F \o P) = Len(F) + Len(P)
      /\ \A i \in 1 .. Len(F) + Len(P) : (F \o P)[i] = IF i <= Len(F) THEN F[i] ELSE P[i - Len(F)]
  BY ConcatProperties
<1>3. Len(O) = Len(D) + Len(F) /\ Len(D) \in Nat /\ Len(F) \in Nat /\ Len(P) \in Nat
  BY DEF Owes
<1>4. Len(O \o P) = Len(D) + Len(F \o P)
  BY <1>1, <1>2, <1>3
<1>5. \A i \in 1 .. Len(D) : (O \o P)[i] = D[i].timestamp
  BY <1>1, <1>3 DEF Owes
<1>6. \A i \in 1 .. Len(F \o P) : (O \o P)[Len(D) + i] = (F \o P)[i]
  <2> SUFFICES ASSUME NEW i \in 1 .. Len(F \o P) PROVE (O \o P)[Len(D) + i] = (F \o P)[i]
    OBVIOUS
  <2>1. Len(D) + i \in 1 .. Len(O) + Len(P) /\ i \in 1 .. Len(F) + Len(P)
        /\ (Len(D) + i) - Len(O) = i - Len(F)
    BY <1>2, <1>3
  <2>2. CASE i <= Len(F)
    BY <2>1, <2>2, <1>1, <1>2, <1>3 DEF Owes
  <2>3. CASE ~(i <= Len(F))
    BY <2>1, <2>3, <1>1, <1>2, <1>3
  <2>4. QED BY <2>2, <2>3
<1>7. QED BY <1>1, <1>2, <1>4, <1>5, <1>6 DEF Owes

-----------------------------------------------------------------------------
(* The invariant with the queues element by element.                         *)
NothingOwed == ~InASong => owed = <<>>
QueueInv == /\ TypeOK /\ QueuesOK /\ SelectingOK /\ Phases
            /\ Owes(owed, delayObjectQueue, flvFrameQueue) /\ NothingOwed

(* It is KaraokeInv.                                                        *)
LEMMA QueueInvIsKaraokeInv == QueueInv <=> KaraokeInv
<1>1. QueuesOK => (Owes(owed, delayObjectQueue, flvFrameQueue)
         <=> owed = [i \in DOMAIN delayObjectQueue |-> delayObjectQueue[i].timestamp]
                      \o flvFrameQueue)
  BY OwesIsConcatenation DEF QueuesOK
<1>2. QED BY <1>1 DEF QueueInv, KaraokeInv, NothingOwed, EveryFrameIsSentTwice

(* With nothing owed both queues are empty.                                  *)
LEMMA NothingWaits ==
  ASSUME QueuesOK, Owes(owed, delayObjectQueue, flvFrameQueue), owed = <<>>
  PROVE  delayObjectQueue = <<>> /\ flvFrameQueue = <<>>
<1>1. Len(owed) = 0 /\ Len(delayObjectQueue) \in Nat /\ Len(flvFrameQueue) \in Nat
  BY DEF QueuesOK
<1>2. Len(delayObjectQueue) = 0 /\ Len(flvFrameQueue) = 0
  BY <1>1 DEF Owes
<1>3. QED BY <1>2, EmptySeq DEF QueuesOK

(* Before the thread starts nothing is queued, read or owed.                 *)
LEMMA InitInv == Init => QueueInv
<1> SUFFICES ASSUME Init PROVE QueueInv
  OBVIOUS
<1>1. Length \in Nat \ {0} /\ MaxDuration \in Nat \ {0} /\ Width \in Nat \ {0}
  BY TicksAssumption, Widths
<1>2. TypeOK
  <2>1. 0 \in Timestamps /\ 0 \in 0 .. Length /\ 0 \in 0 .. MaxDuration /\ Len(<<>>) = 0
    BY <1>1 DEF Timestamps
  <2>2. {announced, song, wanted} \subseteq Songs \cup {Default, None}
        /\ {curSongFile, curSongName} \subseteq Songs \cup {Default}
    BY SongsAssumption DEF Init
  <2>3. /\ {adjustPTS, lastTimestamp} \subseteq Timestamps
        /\ {firstPTS, sent, sentDelayed} \subseteq Timestamps \cup {None}
    BY <2>1 DEF Init
  <2>4. read \in 0 .. Length /\ Len(flvFrameQueue) <= Length
        /\ elapsed \in 0 .. Length /\ duration \in 0 .. MaxDuration
    BY <1>1 DEF Init
  <2>5. pc \in {"off", "announce", "path", "default", "defaultName", "open"}
        /\ bCancelCurrentSong \in BOOLEAN
    BY DEF Init
  <2>6. QED BY <2>2, <2>3, <2>4, <2>5 DEF TypeOK
<1>3. QueuesOK
  BY DEF Init, QueuesOK
<1>4. SelectingOK
  BY DEF Init, SelectingOK, Selection
<1>5. Phases
  BY DEF Init, Phases, InASong
<1>6. Owes(owed, delayObjectQueue, flvFrameQueue) /\ NothingOwed
  BY DEF Init, Owes, NothingOwed
<1>7. QED BY <1>2, <1>3, <1>4, <1>5, <1>6 DEF QueueInv

(* Steps that leave the queues alone: those of the clients, and those of the *)
(* thread between two accesses to a queue.                                 *)
QuietStep == \/ tryToStart \/ \E c \in Clients : selectSong(c)
             \/ onSongPlaying \/ loadASong \/ nextAsDefaultFile \/ nextAsDefaultName \/ open
             \/ playLoop \/ songEnded \/ drained \/ emptied \/ compareAndSet
(* They preserve the invariant: open starts with nothing queued, and a song   *)
(* ends with both queues empty.                                            *)
LEMMA QuietStepInv ==
  ASSUME QueueInv, QuietStep
  PROVE  QueueInv'
<1>1. Length \in Nat \ {0} /\ MaxDuration \in Nat \ {0} /\ Width \in Nat \ {0}
  BY TicksAssumption, Widths
<1>2. UNCHANGED <<flvFrameQueue, delayObjectQueue, owed>>
  BY DEF QuietStep, tryToStart, selectSong, selectFile, selectName, selectCancel, Untouched,
         onSongPlaying, loadASong, nextAsDefaultFile, nextAsDefaultName, open, playLoop,
         songEnded, drained, emptied, compareAndSet, playVars
<1>3. TypeOK'
  <2>1. CASE tryToStart
    BY <2>1 DEF QueueInv, TypeOK, tryToStart, songVars, clientVars, playVars, InASong
  <2>2. CASE \E c \in Clients : selectSong(c)
    <3> PICK c \in Clients : selectSong(c)
      BY <2>2
    <3>1. CASE \E s \in Songs : selectFile(c, s)
      BY <3>1 DEF QueueInv, TypeOK, selectFile, Untouched, playVars, InASong
    <3>2. CASE selectName(c)
      <4>1. selecting[c].song \in Songs
        BY <3>2 DEF QueueInv, SelectingOK, selectName
      <4>2. QED BY <3>2, <4>1 DEF QueueInv, TypeOK, selectName, Untouched, playVars, InASong
    <3>3. CASE selectCancel(c)
      <4>1. selecting[c].song \in Songs
        BY <3>3 DEF QueueInv, SelectingOK, selectCancel
      <4>2. wanted' \in Songs \cup {Default, None} /\ bCancelCurrentSong' = TRUE
        BY <3>3, <4>1 DEF selectCancel
      <4>3. QED BY <3>3, <4>2 DEF QueueInv, TypeOK, selectCancel, Untouched, playVars, InASong
    <3>4. QED BY <3>1, <3>2, <3>3 DEF selectSong
  <2>3. CASE onSongPlaying \/ loadASong \/ nextAsDefaultFile \/ nextAsDefaultName
    BY <2>3 DEF QueueInv, TypeOK, onSongPlaying, loadASong, nextAsDefaultFile,
                nextAsDefaultName, songVars, clientVars, playVars, InASong
  <2>o. CASE open
    <3>1. /\ read' \in 0 .. Length /\ elapsed' \in 0 .. Length
          /\ {adjustPTS', lastTimestamp'} \subseteq Timestamps
          /\ pc' \in {"announce", "play"}
      BY <2>o, <1>1 DEF QueueInv, TypeOK, open
    <3>2. QED BY <2>o, <3>1 DEF QueueInv, TypeOK, open, songVars, clientVars, InASong
  <2>4. CASE playLoop \/ drained \/ compareAndSet
    BY <2>4, <1>1 DEF QueueInv, TypeOK, playLoop, drained, compareAndSet,
                 songVars, clientVars, playVars, InASong
  <2>s. CASE songEnded
    <3>1. pc' \in {"drain", "empty"} /\ duration' \in 0 .. MaxDuration
      BY <2>s, <1>1 DEF songEnded
    <3>2. QED BY <2>s, <3>1 DEF QueueInv, TypeOK, songEnded, songVars, clientVars, playVars, InASong
  <2>5. CASE emptied
    BY <2>5, <1>1 DEF QueueInv, TypeOK, emptied, songVars, clientVars, InASong, Timestamps
  <2>6. QED BY <2>1, <2>2, <2>3, <2>o, <2>4, <2>s, <2>5 DEF QuietStep
<1>4. QueuesOK'
  <2>1. CASE open
    <3>1. ~InASong
      BY <2>1 DEF open, InASong
    <3>2. flvFrameQueue = <<>>
      BY <3>1, NothingWaits DEF QueueInv, NothingOwed
    <3>3. Len(flvFrameQueue') = 0 /\ read' = 0
      BY <2>1, <3>2, <1>2 DEF open
    <3>4. QED BY <3>3, <1>2 DEF QueueInv, QueuesOK, DelayObject, Timestamps
  <2>2. CASE ~open
    <3>1. read' = read
      BY <2>2 DEF QuietStep, tryToStart, selectSong, selectFile, selectName, selectCancel, Untouched,
         onSongPlaying, loadASong, nextAsDefaultFile, nextAsDefaultName, playLoop,
         songEnded, drained, emptied, compareAndSet, playVars
    <3>2. QED BY <3>1, <1>2 DEF QueueInv, QueuesOK, DelayObject, Timestamps
  <2>3. QED BY <2>1, <2>2
<1>5. SelectingOK'
  <2>1. CASE \E c \in Clients : selectSong(c)
    <3> PICK c \in Clients : selectSong(c)
      BY <2>1
    <3>1. CASE \E s \in Songs : selectFile(c, s)
      <4> PICK s \in Songs : selectFile(c, s)
        BY <3>1
      <4>1. ASSUME NEW d \in Clients
            PROVE  selecting'[d] \in Selection /\ (selecting'[d].step # "no" => selecting'[d].song \in Songs)
        <5>1. CASE d = c
          BY <5>1 DEF selectFile, Selection, InASong
        <5>2. CASE d # c
          BY <5>2 DEF QueueInv, SelectingOK, Selection, selectFile
        <5>3. QED BY <5>1, <5>2
      <4>2. selecting' = [d \in Clients |-> selecting'[d]]
        BY DEF selectFile
      <4>3. QED BY <4>1, <4>2 DEF SelectingOK
    <3>2. CASE selectName(c)
      BY <3>2 DEF QueueInv, SelectingOK, Selection, selectName
    <3>3. CASE selectCancel(c)
      BY <3>3 DEF QueueInv, SelectingOK, Selection, selectCancel
    <3>4. QED BY <3>1, <3>2, <3>3 DEF selectSong
  <2>2. CASE onSongPlaying
    BY <2>2 DEF QueueInv, SelectingOK, Selection, onSongPlaying
  <2>3. CASE UNCHANGED selecting
    BY <2>3 DEF QueueInv, SelectingOK
  <2>4. QED
    BY <2>1, <2>2, <2>3 DEF QuietStep, tryToStart, loadASong, nextAsDefaultFile,
       nextAsDefaultName, open, playLoop, songEnded, drained, emptied, compareAndSet, clientVars
<1>6. Phases'
  <2>1. CASE \E c \in Clients : selectSong(c)
    BY <2>1, <1>2 DEF QueueInv, Phases, selectSong, selectFile, selectName, selectCancel, Untouched,
                 playVars, InASong
  <2>2. CASE loadASong
    <3>1. flvFrameQueue = <<>>
      BY <2>2, NothingWaits DEF QueueInv, NothingOwed, loadASong, InASong
    <3>2. QED BY <2>2, <3>1, <1>2 DEF QueueInv, TypeOK, Phases, loadASong, InASong
  <2>3. CASE tryToStart \/ onSongPlaying \/ nextAsDefaultFile \/ nextAsDefaultName \/ open
    BY <2>3, <1>2 DEF QueueInv, Phases, tryToStart, onSongPlaying, nextAsDefaultFile,
                 nextAsDefaultName, open, songVars, playVars, InASong
  <2>4. CASE playLoop \/ songEnded \/ drained
    BY <2>4, <1>2 DEF QueueInv, Phases, playLoop, songEnded, drained, songVars, playVars, InASong
  <2>5. CASE emptied \/ compareAndSet
    BY <2>5, <1>2 DEF QueueInv, Phases, emptied, compareAndSet, songVars, playVars, InASong
  <2>6. QED BY <2>1, <2>2, <2>3, <2>4, <2>5 DEF QuietStep
<1>7. NothingOwed'
  <2>1. CASE InASong' = InASong
    BY <2>1, <1>2 DEF QueueInv, NothingOwed
  <2>2. CASE ~InASong
    BY <2>2, <1>2 DEF QueueInv, NothingOwed
  <2>3. CASE compareAndSet
    <3>1. Len(delayObjectQueue) = 0 /\ Len(flvFrameQueue) = 0
      BY <2>3 DEF QueueInv, Phases, compareAndSet
    <3>2. Len(owed) = 0
      BY <3>1 DEF QueueInv, Owes
    <3>3. owed = <<>>
      BY <3>2, EmptySeq DEF QueueInv, QueuesOK
    <3>4. QED BY <3>3, <1>2 DEF NothingOwed
  <2>4. QED
    BY <2>1, <2>2, <2>3 DEF QuietStep, tryToStart, selectSong, selectFile, selectName, selectCancel,
       Untouched, onSongPlaying, loadASong, nextAsDefaultFile, nextAsDefaultName, open, playLoop,
       songEnded, drained, emptied, InASong
<1>8. Owes(owed, delayObjectQueue, flvFrameQueue)'
  BY <1>2 DEF QueueInv, Owes
<1>9. QED BY <1>3, <1>4, <1>5, <1>6, <1>7, <1>8 DEF QueueInv

(* What a step of the thread that only moves frames between queues leaves    *)
(* alone, and what it must keep.                                           *)
LEMMA QueueStepInv ==
  ASSUME QueueInv, pc \in {"play", "frame", "read", "ended", "drain", "empty", "reset"}, InASong',
         UNCHANGED <<songVars, selecting, announced, song, adjustPTS, elapsed, duration>>,
         wanted' \in Songs \cup {Default, None},
         read' \in 0 .. Length, lastTimestamp' \in Timestamps,
         {firstPTS', sent', sentDelayed'} \subseteq Timestamps \cup {None},
         QueuesOK', Owes(owed, delayObjectQueue, flvFrameQueue)', Phases'
  PROVE  QueueInv'
<1>1. Length \in Nat \ {0}
  BY TicksAssumption, Widths
<1>2. Len(flvFrameQueue') <= Length
  BY <1>1 DEF QueuesOK
<1>3. TypeOK'
  BY <1>2 DEF QueueInv, TypeOK, songVars, InASong
<1>4. SelectingOK'
  BY DEF QueueInv, SelectingOK
<1>5. NothingOwed'
  BY DEF NothingOwed
<1>6. QED BY <1>3, <1>4, <1>5 DEF QueueInv

(* What checkForDelaySend leaves of a queue D.                               *)
LEMMA SendingAgain ==
  ASSUME NEW O \in Seq(Timestamps), NEW D \in Seq(DelayObject), NEW F \in Seq(Timestamps),
         Owes(O, D, F), sentDelayed \in Timestamps \cup {None},
         NEW due, due = DueAgain(D)
  PROVE  /\ SubSeq(O, due + 1, Len(O)) \in Seq(Timestamps)
         /\ SubSeq(D, due + 1, Len(D)) \in Seq(DelayObject)
         /\ Owes(SubSeq(O, due + 1, Len(O)), SubSeq(D, due + 1, Len(D)), F)
         /\ (IF due = 0 THEN sentDelayed ELSE D[due].timestamp) \in Timestamps \cup {None}
<1>1. due \in 0 .. Len(D)
  BY DueAgainType
<1>2. due # 0 => D[due].timestamp \in Timestamps
  <2>1. due # 0 => due \in 1 .. Len(D)
    BY <1>1
  <2>2. QED BY <2>1, DelayObjectFields
<1>3. QED BY <1>1, <1>2, OwesWhenSentAgain

(* The steps that only send old objects again.                             *)
LEMMA SentAgain ==
  ASSUME QueueInv, frameNotDue \/ emptyDelayObjectQueue
  PROVE  QueueInv'
<1> DEFINE n == DueAgain(delayObjectQueue)
<1>1. n \in 0 .. Len(delayObjectQueue)
  BY DueAgainType DEF QueueInv, QueuesOK
<1>2. checkForDelaySend(delayObjectQueue) /\ UNCHANGED <<pc, songVars, selecting, wanted, announced, song, read,
        adjustPTS, firstPTS, lastTimestamp, flvFrameQueue, sent, elapsed, duration>>
  BY DEF frameNotDue, emptyDelayObjectQueue, clientVars
<1>3. /\ delayObjectQueue' = SubSeq(delayObjectQueue, n + 1, Len(delayObjectQueue))
      /\ owed' = SubSeq(owed, n + 1, Len(owed))
      /\ sentDelayed' = IF n = 0 THEN sentDelayed ELSE delayObjectQueue[n].timestamp
  BY <1>2 DEF checkForDelaySend
<1> HIDE DEF n
<1>4. sentDelayed' \in Timestamps \cup {None}
  <2>1. CASE n = 0
    BY <2>1, <1>3 DEF QueueInv, TypeOK
  <2>2. CASE n # 0
    <3>1. n \in 1 .. Len(delayObjectQueue)
      BY <2>2, <1>1
    <3>2. QED BY <3>1, <2>2, <1>3, DelayObjectFields DEF QueueInv, QueuesOK
  <2>3. QED BY <2>1, <2>2
<1>5. /\ owed' \in Seq(Timestamps) /\ delayObjectQueue' \in Seq(DelayObject)
      /\ Owes(owed', delayObjectQueue', flvFrameQueue)
  BY <1>1, <1>3, OwesWhenSentAgain DEF QueueInv, QueuesOK
<1>6. pc \in {"frame", "empty"}
  BY DEF frameNotDue, emptyDelayObjectQueue
<1>7. QueuesOK'
  BY <1>2, <1>5 DEF QueueInv, QueuesOK, DelayObject, Timestamps
<1>8. Phases'
  BY <1>2, <1>6 DEF QueueInv, Phases, songVars, InASong
<1>9. QED
  BY <1>2, <1>4, <1>5, <1>6, <1>7, <1>8, QueueStepInv DEF QueueInv, TypeOK, InASong, Owes

(* The frame at the head is due: it is sent, and kept to be sent again.       *)
LEMMA FrameSent ==
  ASSUME QueueInv, frameDue
  PROVE  QueueInv'
<1>1. /\ pc = "frame" /\ pc' = "read"
      /\ sent' = Head(flvFrameQueue) /\ wanted' = IF wanted = song THEN None ELSE wanted
      /\ flvFrameQueue' = Tail(flvFrameQueue)
      /\ delayObjectQueue' = Append(delayObjectQueue, [timestamp |-> Head(flvFrameQueue), age |-> 0])
      /\ UNCHANGED <<songVars, selecting, announced, song, read, adjustPTS, firstPTS, lastTimestamp,
                     sentDelayed, owed, elapsed, duration>>
  BY DEF frameDue, Sends, Delayed
<1>2. flvFrameQueue # <<>>
  BY <1>1 DEF QueueInv, Phases
<1>3. /\ Head(flvFrameQueue) \in Timestamps /\ Len(Tail(flvFrameQueue)) = Len(flvFrameQueue) - 1
      /\ Len(flvFrameQueue) \in Nat
  BY <1>2, HeadTailProperties DEF QueueInv, QueuesOK
<1>4. /\ delayObjectQueue' \in Seq(DelayObject) /\ flvFrameQueue' \in Seq(Timestamps)
      /\ Owes(owed, delayObjectQueue', flvFrameQueue')
  BY <1>1, <1>2, OwesWhenSent DEF QueueInv, QueuesOK
<1>5. QueuesOK'
  <2>1. Len(flvFrameQueue') <= read'
    BY <1>1, <1>3 DEF QueueInv, QueuesOK, TypeOK
  <2>2. owed' \in Seq(Timestamps)
    BY <1>1 DEF QueueInv, QueuesOK
  <2>3. QED BY <1>4, <2>1, <2>2 DEF QueuesOK, DelayObject, Timestamps
<1>6. Phases'
  BY <1>1, <1>2 DEF QueueInv, Phases, songVars, InASong
<1>7. wanted' \in Songs \cup {Default, None}
  BY <1>1 DEF QueueInv, TypeOK
<1>8. Owes(owed, delayObjectQueue, flvFrameQueue)'
  BY <1>1, <1>4 DEF Owes
<1>9. QED
  BY <1>1, <1>3, <1>5, <1>6, <1>7, <1>8, QueueStepInv DEF QueueInv, TypeOK, InASong
(* A frame left of a cancelled song: sent when due, and the old objects of    *)
(* the delayed stream after it.                                            *)
LEMMA Drained ==
  ASSUME QueueInv, drain
  PROVE  QueueInv'
<1>1. /\ pc = "drain" /\ flvFrameQueue # <<>> /\ owed \in Seq(Timestamps)
      /\ flvFrameQueue \in Seq(Timestamps) /\ delayObjectQueue \in Seq(DelayObject)
      /\ Owes(owed, delayObjectQueue, flvFrameQueue)
  BY DEF QueueInv, QueuesOK, drain
<1>2. /\ UNCHANGED <<pc, songVars, selecting, announced, song, read, adjustPTS, firstPTS,
                     lastTimestamp, elapsed, duration>>
      /\ \/ /\ Sends(Head(flvFrameQueue)) /\ flvFrameQueue' = Tail(flvFrameQueue)
            /\ checkForDelaySend(Delayed(Head(flvFrameQueue)))
         \/ /\ UNCHANGED <<sent, wanted, flvFrameQueue>>
            /\ checkForDelaySend(delayObjectQueue)
  BY DEF drain
<1>3. Head(flvFrameQueue) \in Timestamps /\ Len(Tail(flvFrameQueue)) = Len(flvFrameQueue) - 1
      /\ Len(flvFrameQueue) \in Nat
  BY <1>1, HeadTailProperties
<1>4. /\ flvFrameQueue' \in Seq(Timestamps) /\ Len(flvFrameQueue') <= read
      /\ wanted' \in Songs \cup {Default, None} /\ sent' \in Timestamps \cup {None}
      /\ \E D \in Seq(DelayObject) : Owes(owed, D, flvFrameQueue') /\ checkForDelaySend(D)
  <2>1. CASE /\ Sends(Head(flvFrameQueue)) /\ flvFrameQueue' = Tail(flvFrameQueue)
             /\ checkForDelaySend(Delayed(Head(flvFrameQueue)))
    <3> DEFINE E == Append(delayObjectQueue, [timestamp |-> Head(flvFrameQueue), age |-> 0])
    <3>1. E \in Seq(DelayObject) /\ Tail(flvFrameQueue) \in Seq(Timestamps)
          /\ Owes(owed, E, Tail(flvFrameQueue))
      BY <1>1, OwesWhenSent
    <3>2. checkForDelaySend(E)
      BY <2>1 DEF Delayed
    <3> HIDE DEF E
    <3>3. \E D \in Seq(DelayObject) : Owes(owed, D, flvFrameQueue') /\ checkForDelaySend(D)
      BY <2>1, <3>1, <3>2
    <3>4. wanted' \in Songs \cup {Default, None} /\ sent' \in Timestamps \cup {None}
      BY <2>1, <1>3 DEF QueueInv, TypeOK, Sends
    <3>5. Len(flvFrameQueue') <= read
      BY <2>1, <1>3 DEF QueueInv, QueuesOK, TypeOK
    <3>6. QED BY <2>1, <3>1, <3>3, <3>4, <3>5
  <2>2. CASE UNCHANGED <<sent, wanted, flvFrameQueue>> /\ checkForDelaySend(delayObjectQueue)
    <3>1. wanted' \in Songs \cup {Default, None} /\ sent' \in Timestamps \cup {None}
      BY <2>2 DEF QueueInv, TypeOK
    <3>2. flvFrameQueue' = flvFrameQueue /\ Len(flvFrameQueue) <= read
      BY <2>2 DEF QueueInv, QueuesOK
    <3>3. QED BY <1>1, <2>2, <3>1, <3>2
  <2>3. QED BY <1>2, <2>1, <2>2
<1>5. PICK D \in Seq(DelayObject) : Owes(owed, D, flvFrameQueue') /\ checkForDelaySend(D)
  BY <1>4
<1>6. /\ owed' \in Seq(Timestamps) /\ delayObjectQueue' \in Seq(DelayObject)
      /\ Owes(owed', delayObjectQueue', flvFrameQueue')
      /\ sentDelayed' \in Timestamps \cup {None}
  <2> DEFINE due == DueAgain(D)
  <2>1. /\ delayObjectQueue' = SubSeq(D, due + 1, Len(D))
        /\ owed' = SubSeq(owed, due + 1, Len(owed))
        /\ sentDelayed' = IF due = 0 THEN sentDelayed ELSE D[due].timestamp
    BY <1>5 DEF checkForDelaySend
  <2>2. sentDelayed \in Timestamps \cup {None}
    BY DEF QueueInv, TypeOK
  <2> HIDE DEF due
  <2>3. QED BY <1>1, <1>4, <1>5, <2>1, <2>2, SendingAgain DEF due
<1>7. QueuesOK'
  BY <1>2, <1>4, <1>6 DEF QueuesOK, DelayObject, Timestamps
<1>8. Phases'
  BY <1>1, <1>2 DEF QueueInv, Phases, songVars, InASong
<1>9. QED
  BY <1>1, <1>2, <1>4, <1>6, <1>7, <1>8, QueueStepInv DEF QueueInv, TypeOK, InASong, Owes
(* A buffer read: its frames are owed, the first of a song is sent at once,   *)
(* and the old objects of the delayed stream are sent again.               *)
LEMMA BufferRead ==
  ASSUME QueueInv, readBuf
  PROVE  QueueInv'
<1>1. /\ pc = "read" /\ owed \in Seq(Timestamps) /\ read \in 0 .. Length
      /\ flvFrameQueue \in Seq(Timestamps) /\ delayObjectQueue \in Seq(DelayObject)
      /\ Owes(owed, delayObjectQueue, flvFrameQueue) /\ Len(flvFrameQueue) <= read
      /\ adjustPTS \in Timestamps /\ lastTimestamp \in Timestamps
      /\ {firstPTS, sent, sentDelayed} \subseteq Timestamps \cup {None}
      /\ wanted \in Songs \cup {Default, None}
  BY DEF QueueInv, QueuesOK, TypeOK, readBuf
<1>2. Length \in Nat \ {0} /\ Width \in Nat \ {0} /\ read \in Nat /\ adjustPTS \in Nat
  BY <1>1, TicksAssumption, Widths DEF Timestamps
<1> DEFINE Parsed(n) == [i \in 1 .. n |-> (adjustPTS + read + i - 1) % Width]
           First(n)  == n > 0 /\ firstPTS = None
           Queue(n)  == IF First(n) THEN Delayed(Parsed(n)[1]) ELSE delayObjectQueue
           Due(n)    == DueAgain(Queue(n))
<1>3. PICK n \in 0 .. MayRead :
        /\ read' = read + n
        /\ firstPTS' = IF First(n) THEN Parsed(n)[1] ELSE firstPTS
        /\ lastTimestamp' = IF n = 0 THEN lastTimestamp ELSE Parsed(n)[n]
        /\ flvFrameQueue' = flvFrameQueue \o (IF First(n) THEN Tail(Parsed(n)) ELSE Parsed(n))
        /\ IF First(n) THEN Sends(Parsed(n)[1]) ELSE UNCHANGED <<sent, wanted>>
        /\ delayObjectQueue' = SubSeq(Queue(n), Due(n) + 1, Len(Queue(n)))
        /\ sentDelayed' = IF Due(n) = 0 THEN sentDelayed ELSE Queue(n)[Due(n)].timestamp
        /\ owed' = SubSeq(owed \o Parsed(n), Due(n) + 1, Len(owed) + n)
  BY DEF readBuf, AdjustedTimestamps
<1>4. n \in Nat /\ read + n \in 0 .. Length
  BY <1>1, <1>2 DEF MayRead
<1> DEFINE P == Parsed(n)
           first == First(n)
           D == Queue(n)
           due == Due(n)
<1>5. P \in Seq(Timestamps) /\ Len(P) = n /\ \A i \in 1 .. n : P[i] \in Timestamps
  <2>1. \A i \in 1 .. n : (adjustPTS + read + i - 1) % Width \in Timestamps
    BY <1>2, <1>4 DEF Timestamps
  <2>2. P \in [1 .. n -> Timestamps]
    BY <2>1
  <2>3. QED BY <2>2, <1>4
<1>6. /\ pc' = "play" /\ UNCHANGED <<songVars, selecting, announced, song, adjustPTS, elapsed, duration>>
  BY DEF readBuf
<1>7. /\ read' = read + n
      /\ firstPTS' = IF first THEN P[1] ELSE firstPTS
      /\ lastTimestamp' = IF n = 0 THEN lastTimestamp ELSE P[n]
      /\ flvFrameQueue' = flvFrameQueue \o (IF first THEN Tail(P) ELSE P)
      /\ IF first THEN Sends(P[1]) ELSE UNCHANGED <<sent, wanted>>
      /\ delayObjectQueue' = SubSeq(D, due + 1, Len(D))
      /\ sentDelayed' = IF due = 0 THEN sentDelayed ELSE D[due].timestamp
      /\ owed' = SubSeq(owed \o P, due + 1, Len(owed) + n)
  BY <1>3
<1>8. /\ first <=> n > 0 /\ firstPTS = None
      /\ D = IF first THEN Delayed(P[1]) ELSE delayObjectQueue
      /\ due = DueAgain(D)
  OBVIOUS
<1> HIDE DEF P, first, D, due
<1>9. /\ owed \o P \in Seq(Timestamps) /\ flvFrameQueue \o P \in Seq(Timestamps)
      /\ Len(owed \o P) = Len(owed) + n /\ Len(flvFrameQueue \o P) = Len(flvFrameQueue) + n
      /\ Owes(owed \o P, delayObjectQueue, flvFrameQueue \o P)
  <2>1. /\ owed \o P \in Seq(Timestamps) /\ flvFrameQueue \o P \in Seq(Timestamps)
        /\ Len(owed \o P) = Len(owed) + Len(P)
        /\ Len(flvFrameQueue \o P) = Len(flvFrameQueue) + Len(P)
        /\ Owes(owed \o P, delayObjectQueue, flvFrameQueue \o P)
    <3>1. P \in Seq(Timestamps)
      BY <1>5
    <3>2. QED BY ONLY <3>1, <1>1, OwesWhenParsed
  <2>2. QED BY <2>1, <1>5
<1>10. /\ D \in Seq(DelayObject) /\ flvFrameQueue' \in Seq(Timestamps)
       /\ Len(flvFrameQueue') <= read' /\ Owes(owed \o P, D, flvFrameQueue')
  <2>1. CASE first
    <3>1. flvFrameQueue = <<>> /\ n > 0
      BY <2>1, <1>8 DEF QueueInv, Phases
    <3>2. flvFrameQueue \o P = P /\ P # <<>>
      BY <3>1, <1>5, ConcatEmptySeq, EmptySeq
    <3>3. /\ Head(P) = P[1] /\ Tail(P) \in Seq(Timestamps) /\ Len(Tail(P)) = n - 1
      BY <3>2, <1>5, HeadTailProperties
    <3>4. flvFrameQueue' = Tail(P)
      BY <2>1, <3>1, <3>3, <1>7, ConcatEmptySeq
    <3>5. D = Append(delayObjectQueue, [timestamp |-> Head(P), age |-> 0])
      BY <2>1, <3>3, <1>8 DEF Delayed
    <3>6. D \in Seq(DelayObject) /\ Owes(owed \o P, D, Tail(P))
      BY <1>1, <1>5, <1>9, <3>2, <3>5, OwesWhenSent
    <3>7. Len(flvFrameQueue') <= read'
      BY <3>3, <3>4, <1>2, <1>4, <1>7
    <3>8. QED BY <3>3, <3>4, <3>6, <3>7
  <2>2. CASE ~first
    <3>1. flvFrameQueue' = flvFrameQueue \o P /\ D = delayObjectQueue
      BY <2>2, <1>7, <1>8
    <3>2. Len(flvFrameQueue') <= read'
      BY <3>1, <1>1, <1>2, <1>4, <1>7, <1>9
    <3>3. QED BY <3>1, <3>2, <1>1, <1>9
  <2>3. QED BY <2>1, <2>2
<1>11. /\ owed' \in Seq(Timestamps) /\ delayObjectQueue' \in Seq(DelayObject)
       /\ Owes(owed', delayObjectQueue', flvFrameQueue')
       /\ sentDelayed' \in Timestamps \cup {None}
  <2>1. owed' = SubSeq(owed \o P, due + 1, Len(owed \o P))
    BY <1>7, <1>9
  <2>2. sentDelayed \in Timestamps \cup {None}
    BY <1>1
  <2>3. owed \o P \in Seq(Timestamps) /\ due = DueAgain(D)
    BY <1>8, <1>9
  <2>4. /\ SubSeq(owed \o P, due + 1, Len(owed \o P)) \in Seq(Timestamps)
        /\ SubSeq(D, due + 1, Len(D)) \in Seq(DelayObject)
        /\ Owes(SubSeq(owed \o P, due + 1, Len(owed \o P)), SubSeq(D, due + 1, Len(D)),
                flvFrameQueue')
        /\ (IF due = 0 THEN sentDelayed ELSE D[due].timestamp) \in Timestamps \cup {None}
    BY ONLY <1>10, <2>2, <2>3, SendingAgain
  <2>5. QED BY ONLY <1>7, <2>1, <2>4
<1>12. /\ wanted' \in Songs \cup {Default, None} /\ lastTimestamp' \in Timestamps
       /\ {firstPTS', sent'} \subseteq Timestamps \cup {None}
       /\ firstPTS' = None => n = 0 /\ firstPTS = None
  <2>1. n > 0 => P[1] \in Timestamps /\ P[n] \in Timestamps
    BY <1>4, <1>5
  <2>2. lastTimestamp' \in Timestamps
    BY <2>1, <1>1, <1>4, <1>7
  <2>3. None \notin Timestamps
    BY <1>2, NoneAssumption DEF Timestamps
  <2>4. CASE first
    BY <2>1, <2>2, <2>3, <2>4, <1>1, <1>7, <1>8 DEF Sends
  <2>5. CASE ~first
    BY <2>2, <2>5, <1>1, <1>4, <1>7, <1>8
  <2>6. QED BY <2>4, <2>5
<1>13. QueuesOK'
  BY <1>10, <1>11 DEF QueuesOK, DelayObject, Timestamps
<1>14. Phases'
  <2>1. firstPTS' = None => flvFrameQueue' = <<>>
    <3> SUFFICES ASSUME firstPTS' = None PROVE flvFrameQueue' = <<>>
      OBVIOUS
    <3>1. n = 0 /\ firstPTS = None /\ flvFrameQueue = <<>>
      BY <1>12 DEF QueueInv, Phases
    <3>2. P = <<>> /\ ~first
      BY <3>1, <1>5, <1>8, EmptySeq
    <3>3. QED BY <3>1, <3>2, <1>5, <1>7, ConcatEmptySeq
  <2>2. QED BY <2>1, <1>1, <1>6 DEF QueueInv, Phases, songVars, InASong
<1>15. Owes(owed, delayObjectQueue, flvFrameQueue)'
  BY <1>11 DEF Owes
<1>16. QED
  BY <1>1, <1>4, <1>6, <1>7, <1>11, <1>12, <1>13, <1>14, <1>15, QueueStepInv DEF InASong
(* A tick ages what waits, and changes no timestamp.                         *)
LEMMA TickInv ==
  ASSUME QueueInv, Tick
  PROVE  QueueInv'
<1>1. /\ UNCHANGED <<pc, songVars, clientVars, announced, song, read, adjustPTS, firstPTS,
                     lastTimestamp, flvFrameQueue, sent, sentDelayed, owed>>
      /\ delayObjectQueue' = [i \in DOMAIN delayObjectQueue |->
           IF delayObjectQueue[i].age < DELAY_INTERVAL
             THEN [delayObjectQueue[i] EXCEPT !.age = @ + 1] ELSE delayObjectQueue[i]]
  BY DEF Tick
<1>2. delayObjectQueue \in Seq(DelayObject) /\ Owes(owed, delayObjectQueue, flvFrameQueue)
  BY DEF QueueInv, QueuesOK
<1>3. /\ Len(delayObjectQueue) \in Nat /\ DOMAIN delayObjectQueue = 1 .. Len(delayObjectQueue)
      /\ \A i \in 1 .. Len(delayObjectQueue) : delayObjectQueue[i] \in DelayObject
  BY <1>2
<1>4. \A i \in 1 .. Len(delayObjectQueue) :
        /\ delayObjectQueue'[i] \in DelayObject
        /\ delayObjectQueue'[i].timestamp = delayObjectQueue[i].timestamp
  BY <1>1, <1>3 DEF DelayObject
<1>5. delayObjectQueue' \in Seq(DelayObject) /\ Len(delayObjectQueue') = Len(delayObjectQueue)
  <2>1. delayObjectQueue' \in [1 .. Len(delayObjectQueue) -> DelayObject]
    <3>1. delayObjectQueue' = [i \in 1 .. Len(delayObjectQueue) |-> delayObjectQueue'[i]]
      BY <1>1, <1>3
    <3>2. QED BY ONLY <3>1, <1>4
  <2>2. QED BY ONLY <2>1, <1>3
<1>6. Owes(owed', delayObjectQueue', flvFrameQueue')
  BY <1>1, <1>2, <1>4, <1>5 DEF Owes
<1>7. elapsed' \in 0 .. Length /\ duration' \in 0 .. MaxDuration
  <2>1. elapsed \in 0 .. Length /\ duration \in 0 .. MaxDuration
    BY DEF QueueInv, TypeOK
  <2>2. Length \in Nat /\ MaxDuration \in Nat
    BY TicksAssumption, Widths
  <2>3. elapsed' = IF elapsed < Length THEN elapsed + 1 ELSE elapsed
    BY DEF Tick
  <2>4. duration' = duration \/ (duration < MaxDuration /\ duration' = duration + 1)
    BY DEF Tick
  <2>5. elapsed' \in 0 .. Length
    BY <2>1, <2>2, <2>3
  <2>6. duration' \in 0 .. MaxDuration
    BY <2>1, <2>2, <2>4
  <2>7. QED BY <2>5, <2>6
<1>8. TypeOK'
  BY <1>1, <1>7 DEF QueueInv, TypeOK, songVars, clientVars, InASong
<1>9. QueuesOK'
  BY <1>1, <1>5 DEF QueueInv, QueuesOK, DelayObject, Timestamps
<1>10. SelectingOK'
  BY <1>1 DEF QueueInv, SelectingOK, clientVars
<1>11. Phases'
  <2>1. pc = "reset" => delayObjectQueue' = <<>>
    <3> SUFFICES ASSUME pc = "reset" PROVE delayObjectQueue' = <<>>
      OBVIOUS
    <3>1. Len(delayObjectQueue) = 0
      BY DEF QueueInv, Phases
    <3>2. QED BY <3>1, <1>5, EmptySeq
  <2>2. QED BY <1>1, <2>1 DEF QueueInv, Phases, songVars, InASong
<1>12. NothingOwed'
  BY <1>1 DEF QueueInv, NothingOwed, InASong
<1>13. Owes(owed, delayObjectQueue, flvFrameQueue)'
  BY <1>6 DEF Owes
<1>14. QED BY <1>8, <1>9, <1>10, <1>11, <1>12, <1>13 DEF QueueInv

(* Every step of the thread, the clock and the clients preserves the          *)
(* invariant.                                                              *)
LEMMA StepInv == QueueInv /\ [Next]_vars => QueueInv'
<1> SUFFICES ASSUME QueueInv, [Next]_vars PROVE QueueInv'
  OBVIOUS
<1>1. CASE QuietStep
  BY <1>1, QuietStepInv
<1>2. CASE frameNotDue \/ emptyDelayObjectQueue
  BY <1>2, SentAgain
<1>3. CASE frameDue
  BY <1>3, FrameSent
<1>4. CASE drain
  BY <1>4, Drained
<1>5. CASE readBuf
  BY <1>5, BufferRead
<1>6. CASE Tick
  BY <1>6, TickInv
<1>7. CASE UNCHANGED vars
  BY <1>7 DEF QueueInv, TypeOK, QueuesOK, SelectingOK, Phases, Owes, NothingOwed, InASong, DelayObject,
              Timestamps, vars, songVars, clientVars, playVars
<1>8. QED
  BY <1>1, <1>2, <1>3, <1>4, <1>5, <1>6, <1>7 DEF Next, Thread, QuietStep

-----------------------------------------------------------------------------
(* The karaoke thread, the clock and the clients, step for step, keep the     *)
(* inductive invariant: types, what the queues and the selections hold, what *)
(* the thread knows at each step, and that every frame is sent twice.      *)
THEOREM KaraokeInvariant == Spec => []KaraokeInv
<1>1. Spec => []QueueInv
  BY InitInv, StepInv, PTL DEF Spec
<1>2. QED BY <1>1, QueueInvIsKaraokeInv, PTL

(* KaraokeGenerator's variables have their types in every state, and its      *)
(* timestamps stay within their width.                                     *)
THEOREM TypeCorrect == Spec => []TypeOK
<1>1. KaraokeInv => TypeOK
  BY DEF KaraokeInv
<1>2. QED BY <1>1, KaraokeInvariant, PTL

(* loadASong, onKaraokeFrameParsed and checkForDelaySend send every frame     *)
(* they read again on the delayed stream, once and in order, however a song  *)
(* is cut short, and a song that ends leaves nothing to the next.          *)
THEOREM FramesSentTwice == Spec => []EveryFrameIsSentTwice
<1>1. KaraokeInv => EveryFrameIsSentTwice
  BY DEF KaraokeInv
<1>2. QED BY <1>1, KaraokeInvariant, PTL
-----------------------------------------------------------------------------
(* What timestamps there are.  A song's frames are numbered from adjustPTS on: *)
(* Q is the last of the r frames that were read.                           *)
Run(Q, a, r) ==
  /\ Len(Q) <= r
  /\ \A i \in 1 .. Len(Q) : Q[i] = (a + (r - Len(Q) + i - 1)) % Width

(* A stream is behind a song's start by the end of the song before it, and     *)
(* when len frames of r are not yet sent, at the one before those.           *)
Behind(s, t) == s = None \/ \E g \in 0 .. MaxDuration : (s + g) % Width = t
UpTo(s, len, a, r) == IF len < r THEN s = (a + (r - len - 1)) % Width ELSE Behind(s, a)

Playing == InASong /\ pc # "reset"
InTime ==
  /\ Playing => /\ Run(owed, adjustPTS, read)
                /\ UpTo(sent, Len(flvFrameQueue), adjustPTS, read)
                /\ UpTo(sentDelayed, Len(owed), adjustPTS, read)
                /\ lastTimestamp = IF read = 0 THEN adjustPTS ELSE (adjustPTS + (read - 1)) % Width
  /\ ~Playing => Behind(sent, lastTimestamp) /\ Behind(sentDelayed, lastTimestamp)
  /\ pc \in {"drain", "empty"} /\ read = 0 => duration = 0

Forwards == GoesOn(sent, sent') /\ GoesOn(sentDelayed, sentDelayed')

(* The lap of a timestamp and its time in the header, from its parts.          *)
LEMMA LapAndTime ==
  ASSUME NEW t \in Int, NEW q \in Int, NEW r \in 0 .. HeaderWidth - 1,
         t = HeaderWidth * q + r
  PROVE  Lap(t) = q /\ HeaderTime(t) = r
<1>1. HeaderWidth \in Nat \ {0}
  BY Widths
<1>2. t % HeaderWidth = r
  BY <1>1, Remainder
<1> DEFINE p == t \div HeaderWidth
<1>3. p \in Int /\ t = (HeaderWidth * p) + (t % HeaderWidth)
  BY <1>1
<1> HIDE DEF p
<1>4. HeaderWidth * (p - q) = 0
  <2>1. HeaderWidth * (p - q) = HeaderWidth * p - HeaderWidth * q
        /\ HeaderWidth * p \in Int /\ HeaderWidth * q \in Int
    BY <1>1, <1>3
  <2>2. QED BY <1>2, <1>3, <2>1
<1>5. p = q
  <2>1. CASE p - q >= 1
    <3>1. HeaderWidth * (p - q) >= HeaderWidth
      BY <1>1, <1>3, <2>1
    <3>2. QED BY <1>1, <1>4, <3>1
  <2>2. CASE p - q <= -1
    <3>1. HeaderWidth * (p - q) <= -HeaderWidth
      BY <1>1, <1>3, <2>2
    <3>2. QED BY <1>1, <1>4, <3>1
  <2>3. QED BY <1>3, <2>1, <2>2
<1>6. QED BY <1>2, <1>5 DEF Lap, HeaderTime, p

(* A stream that goes on by less than a lap of the header is in the same lap,  *)
(* at a later time, or at the start of the next one.                         *)
LEMMA AheadOf ==
  ASSUME NEW s \in Timestamps, NEW k \in 0 .. MaxDuration + Length
  PROVE  GoesOn(s, (s + k) % Width) /\ (s + k) % Width \in Timestamps
<1> DEFINE t == (s + k) % Width
           H == HeaderWidth
           L == Width \div HeaderWidth
           q == s \div HeaderWidth
           r == s % HeaderWidth
<1>1. /\ Width \in Nat \ {0} /\ Length \in Nat \ {0} /\ MaxDuration \in Nat \ {0}
      /\ H \in Nat \ {0} /\ H > 2 * (2 * Length + MaxDuration) /\ Width > H
      /\ L \in Nat \ {0} /\ Width = H * L
  BY Widths
<1>2. s \in 0 .. Width - 1 /\ s \in Nat /\ k \in 0 .. H - 1 /\ k <= MaxDuration + Length
  BY <1>1 DEF Timestamps
<1>3. t \in Timestamps /\ t \in Nat
  BY <1>1, <1>2 DEF Timestamps
<1>4. r \in 0 .. H - 1 /\ q \in Nat /\ s = H * q + r
  BY <1>1, <1>2, Division
<1> HIDE DEF H, L, q, r
<1>5. Lap(s) = q /\ HeaderTime(s) = r
  BY <1>2, <1>4, LapAndTime DEF H
<1>6. H * q \in Nat /\ H * (q + 1) = H * q + H
  BY <1>1, <1>4
<1>7. q + 1 <= L
  <2>1. SUFFICES ASSUME q >= L PROVE FALSE
    BY <1>1, <1>4
  <2>2. H * q >= H * L
    BY <1>1, <1>4, <2>1
  <2>3. QED BY <1>1, <1>2, <1>4, <1>6, <2>2
<1>8. CASE k = 0
  BY <1>1, <1>2, <1>8, <1>3, RemainderOfSmall DEF GoesOn
<1>9. CASE k # 0 /\ r + k < H
  <2>1. r + k \in 0 .. H - 1 /\ s + k = H * q + (r + k) /\ s + k \in Int
    BY <1>1, <1>2, <1>4, <1>6, <1>9
  <2>2. s + k < Width
    <3>1. H * (q + 1) <= H * L
      BY <1>1, <1>4, <1>7
    <3>2. QED BY <1>1, <1>6, <2>1, <3>1
  <2>3. t = s + k
    <3>1. s + k \in 0 .. Width - 1
      BY <1>1, <1>2, <2>2
    <3>2. QED BY <1>1, <3>1, RemainderOfSmall
  <2>4. Lap(t) = q /\ HeaderTime(t) = r + k
    BY <1>4, <2>1, <2>3, LapAndTime DEF H
  <2>5. r + k > r
    BY <1>2, <1>4, <1>9
  <2>6. QED BY <1>3, <1>5, <2>4, <2>5 DEF GoesOn
<1>10. CASE r + k >= H
  <2>1. /\ r + k - H \in 0 .. H - 1 /\ s + k = H * (q + 1) + (r + k - H)
        /\ r + k - H + H - r <= MaxDuration + Length
    BY <1>1, <1>2, <1>4, <1>6, <1>10
  <2>2. CASE q + 1 < L
    <3>1. H * (q + 2) <= H * L /\ H * (q + 2) = H * (q + 1) + H /\ H * (q + 1) \in Nat
      BY <1>1, <1>4, <2>2
    <3>2. s + k \in 0 .. Width - 1
      BY <1>1, <1>2, <2>1, <3>1
    <3>3. t = s + k /\ t \in Int /\ q + 1 \in Int
      BY <1>1, <1>4, <3>2, RemainderOfSmall
    <3>4. Lap(t) = q + 1 /\ HeaderTime(t) = r + k - H
      BY <2>1, <3>3, LapAndTime DEF H
    <3>5. (q + 1) % L = q + 1
      BY <1>1, <1>4, <2>2, RemainderOfSmall
    <3>6. QED BY <1>3, <1>5, <2>1, <3>4, <3>5 DEF GoesOn, H, L
  <2>3. CASE q + 1 = L
    <3>1. s + k = Width * 1 + (r + k - H) /\ r + k - H \in 0 .. Width - 1
      BY <1>1, <2>1, <2>3
    <3>2. t = r + k - H
      BY <1>1, <3>1, Remainder
    <3>3. t = H * 0 + (r + k - H) /\ t \in Int
      BY <1>1, <1>3, <3>2
    <3>4. Lap(t) = 0 /\ HeaderTime(t) = r + k - H
      BY <2>1, <3>3, LapAndTime DEF H
    <3>5. (q + 1) % L = 0
      <4>1. L * 1 + 0 = L /\ 0 \in 0 .. L - 1
        BY <1>1
      <4>2. QED BY <1>1, <2>3, <4>1, Remainder
    <3>6. QED BY <1>3, <1>5, <2>1, <3>4, <3>5 DEF GoesOn, H, L
  <2>4. QED BY <1>4, <1>1, <1>7, <2>2, <2>3
<1>11. QED BY <1>1, <1>2, <1>4, <1>3, <1>8, <1>9, <1>10

(* The stream goes forward by n frames.                                        *)
LEMMA Forward ==
  ASSUME NEW a \in Timestamps, NEW r \in 0 .. Length, NEW len \in 1 .. r, NEW n \in 1 .. len,
         NEW s \in Timestamps \cup {None}, UpTo(s, len, a, r),
         NEW t, t = (a + (r - len + n - 1)) % Width
  PROVE  GoesOn(s, t) /\ UpTo(t, len - n, a, r)
<1>1. /\ Width \in Nat \ {0} /\ Length \in Nat \ {0} /\ MaxDuration \in Nat \ {0} /\ a \in Nat
  BY TicksAssumption, Widths DEF Timestamps
<1>2. len - n < r /\ r - (len - n) - 1 = r - len + n - 1
  BY <1>1
<1>3. UpTo(t, len - n, a, r)
  BY <1>2 DEF UpTo
<1>4. CASE s = None
  BY <1>3, <1>4 DEF GoesOn
<1>5. CASE s # None /\ len < r
  <2>1. s = (a + (r - len - 1)) % Width /\ a + (r - len - 1) \in Int /\ n \in Int
    BY <1>1, <1>5 DEF UpTo
  <2>2. (s + n) % Width = ((a + (r - len - 1)) + n) % Width
    BY <1>1, <2>1, RemainderOfSum
  <2>3. (a + (r - len - 1)) + n = a + (r - len + n - 1)
    BY <1>1
  <2>4. n \in 0 .. MaxDuration + Length /\ s \in Timestamps
    BY <1>1, <1>5
  <2>5. QED BY <1>3, <2>2, <2>3, <2>4, AheadOf
<1>6. CASE s # None /\ ~(len < r)
  <2>1. PICK g \in 0 .. MaxDuration : (s + g) % Width = a
    BY <1>6 DEF UpTo, Behind
  <2>2. s \in Timestamps /\ s + g \in Int /\ n - 1 \in Int
    BY <1>1, <1>6 DEF Timestamps
  <2>3. (a + (n - 1)) % Width = ((s + g) + (n - 1)) % Width
    BY <1>1, <2>1, <2>2, RemainderOfSum
  <2>4. (s + g) + (n - 1) = s + (g + n - 1) /\ a + (n - 1) = a + (r - len + n - 1)
    BY <1>1, <1>6, <2>1, <2>2 DEF Timestamps
  <2>5. g + n - 1 \in 0 .. MaxDuration + Length
    BY <1>1, <2>1
  <2>6. QED BY <1>3, <2>2, <2>3, <2>4, <2>5, AheadOf
<1>7. QED BY <1>4, <1>5, <1>6

(* What waits to be sent is the end of what is owed.                           *)
LEMMA RunOfQueue ==
  ASSUME NEW O \in Seq(Timestamps), NEW D \in Seq(DelayObject), NEW F \in Seq(Timestamps),
         Owes(O, D, F), NEW a \in Nat, NEW r \in Nat, Run(O, a, r)
  PROVE  Run(F, a, r)
<1>1. Len(D) \in Nat /\ Len(F) \in Nat /\ Len(O) = Len(D) + Len(F) /\ Len(O) <= r
  BY DEF Owes, Run
<1>2. ASSUME NEW i \in 1 .. Len(F) PROVE F[i] = (a + (r - Len(F) + i - 1)) % Width
  <2>1. Len(D) + i \in 1 .. Len(O)
        /\ r - Len(O) + (Len(D) + i) - 1 = r - Len(F) + i - 1
    BY <1>1
  <2>2. F[i] = O[Len(D) + i]
    BY DEF Owes
  <2>3. O[Len(D) + i] = (a + (r - Len(O) + (Len(D) + i) - 1)) % Width
    BY <2>1 DEF Run
  <2>4. QED BY <2>1, <2>2, <2>3
<1>3. QED BY <1>1, <1>2 DEF Run

(* checkForDelaySend moves the delayed stream forward.                         *)
LEMMA DelayedForward ==
  ASSUME NEW O \in Seq(Timestamps), NEW D \in Seq(DelayObject), NEW F \in Seq(Timestamps),
         Owes(O, D, F), NEW a \in Timestamps, NEW r \in 0 .. Length, Run(O, a, r),
         NEW s \in Timestamps \cup {None}, UpTo(s, Len(O), a, r),
         NEW n, n = DueAgain(D)
  PROVE  /\ GoesOn(s, IF n = 0 THEN s ELSE D[n].timestamp)
         /\ UpTo(IF n = 0 THEN s ELSE D[n].timestamp, Len(SubSeq(O, n + 1, Len(O))), a, r)
         /\ Run(SubSeq(O, n + 1, Len(O)), a, r)
<1> DEFINE t == IF n = 0 THEN s ELSE D[n].timestamp
           R == SubSeq(O, n + 1, Len(O))
<1>0. t = (IF n = 0 THEN s ELSE D[n].timestamp) /\ R = SubSeq(O, n + 1, Len(O))
  OBVIOUS
<1> HIDE DEF t, R
<1>1. n \in 0 .. Len(D) /\ Len(D) \in Nat /\ Len(F) \in Nat /\ Len(O) = Len(D) + Len(F) /\ Len(O) <= r
  BY DueAgainType DEF Owes, Run
<1>2. /\ R \in Seq(Timestamps) /\ Len(R) = Len(O) - n
      /\ \A i \in 1 .. Len(R) : R[i] = O[n + i]
  <2>1. n \in 0 .. Len(O)
    BY <1>1
  <2>2. /\ SubSeq(O, n + 1, Len(O)) \in Seq(Timestamps)
        /\ Len(SubSeq(O, n + 1, Len(O))) = Len(O) - n
        /\ \A i \in 1 .. Len(O) - n : SubSeq(O, n + 1, Len(O))[i] = O[n + i]
    BY <2>1, RestOf
  <2>3. QED BY <1>0, <2>2
<1>3. Run(R, a, r)
  <2>1. ASSUME NEW i \in 1 .. Len(R) PROVE R[i] = (a + (r - Len(R) + i - 1)) % Width
    <3>1. n + i \in 1 .. Len(O) /\ r - Len(O) + (n + i) - 1 = r - Len(R) + i - 1
      <4>1. n \in Nat /\ i \in Nat \ {0} /\ Len(O) \in Nat /\ i <= Len(O) - n
            /\ Len(R) = Len(O) - n
        BY <1>1, <1>2
      <4>2. QED BY ONLY <4>1, r \in 0 .. Length, TicksAssumption
    <3>2. O[n + i] = (a + (r - Len(O) + (n + i) - 1)) % Width
      BY <3>1 DEF Run
    <3>3. QED BY <1>2, <3>1, <3>2
  <2>2. QED BY <1>1, <1>2, <2>1 DEF Run
<1>4. ASSUME n = 0 PROVE GoesOn(s, t) /\ UpTo(t, Len(R), a, r) /\ Run(R, a, r)
  BY <1>0, <1>1, <1>2, <1>3, <1>4 DEF GoesOn
<1>5. ASSUME n # 0 PROVE GoesOn(s, t) /\ UpTo(t, Len(R), a, r) /\ Run(R, a, r)
  <2>1. n \in 1 .. Len(D) /\ n \in 1 .. Len(O) /\ Len(O) \in 1 .. r
    BY <1>1, <1>5
  <2>2. t = O[n]
    BY <1>0, <1>5, <2>1 DEF Owes
  <2>3. t = (a + (r - Len(O) + n - 1)) % Width
    BY <2>1, <2>2 DEF Run
  <2>4. QED BY <1>2, <1>3, <2>1, <2>3, Forward
<1>6. GoesOn(s, t) /\ UpTo(t, Len(R), a, r) /\ Run(R, a, r)
  BY <1>3, <1>4, <1>5
<1>7. QED BY ONLY <1>0, <1>6

(* Steps that send nothing: a song begins where the one before it ended, or    *)
(* where its last frame was sent again.                                      *)
LEMMA QuietInTime ==
  ASSUME QueueInv, InTime, QuietStep
  PROVE  InTime' /\ Forwards
<1>1. UNCHANGED <<sent, sentDelayed, owed, flvFrameQueue, delayObjectQueue>>
  BY DEF QuietStep, tryToStart, selectSong, selectFile, selectName, selectCancel, Untouched,
         onSongPlaying, loadASong, nextAsDefaultFile, nextAsDefaultName, open, playLoop,
         songEnded, drained, emptied, compareAndSet, playVars
<1>2. Forwards
  BY <1>1 DEF Forwards, GoesOn
<1>3. CASE open
  <2>1. /\ pc = "open" /\ adjustPTS' = lastTimestamp /\ read' = 0 /\ lastTimestamp' = lastTimestamp
        /\ pc' \in {"announce", "play"}
    BY <1>3 DEF open
  <2>2. ~Playing /\ owed = <<>> /\ flvFrameQueue = <<>>
    BY <2>1, NothingWaits DEF Playing, InASong, QueueInv, NothingOwed
  <2>3. Behind(sent, lastTimestamp) /\ Behind(sentDelayed, lastTimestamp)
    BY <2>2 DEF InTime
  <2>4. Len(<<>>) = 0
    OBVIOUS
  <2>5. QED BY <1>1, <1>2, <2>1, <2>2, <2>3, <2>4 DEF InTime, Run, UpTo, Behind
<1>4. CASE songEnded
  <2>1. /\ pc = "ended" /\ pc' \in {"drain", "empty"} /\ duration' = 0
        /\ UNCHANGED <<adjustPTS, read, lastTimestamp>>
    BY <1>4 DEF songEnded, playVars
  <2>2. Playing /\ Playing'
    BY <2>1 DEF Playing, InASong
  <2>3. QED BY <1>1, <1>2, <2>1, <2>2 DEF InTime, Run, UpTo, Behind
<1>5. CASE emptied
  <2>1. /\ pc = "empty" /\ delayObjectQueue = <<>> /\ pc' = "reset"
        /\ lastTimestamp' = (lastTimestamp + duration) % Width
    BY <1>5 DEF emptied
  <2>2. Playing /\ ~Playing' /\ pc' \notin {"drain", "empty"}
    BY <2>1 DEF Playing, InASong
  <2>3. flvFrameQueue = <<>>
    BY <2>1 DEF QueueInv, Phases
  <2>4. Len(flvFrameQueue) = 0 /\ Len(owed) = 0
    BY <2>1, <2>3 DEF QueueInv, Owes
  <2>5. /\ UpTo(sent, 0, adjustPTS, read) /\ UpTo(sentDelayed, 0, adjustPTS, read)
        /\ lastTimestamp = IF read = 0 THEN adjustPTS ELSE (adjustPTS + (read - 1)) % Width
        /\ read = 0 => duration = 0
    BY <2>1, <2>2, <2>4 DEF InTime
  <2>6. /\ read \in Nat /\ duration \in 0 .. MaxDuration /\ adjustPTS \in 0 .. Width - 1
        /\ Width \in Nat \ {0} /\ MaxDuration \in Nat
    BY TicksAssumption, Widths DEF QueueInv, TypeOK, Timestamps
  <2>7. CASE read = 0
    <3>1. lastTimestamp' = adjustPTS
      BY <2>1, <2>5, <2>6, <2>7, RemainderOfSmall
    <3>2. Behind(sent, adjustPTS) /\ Behind(sentDelayed, adjustPTS)
      BY <2>5, <2>7 DEF UpTo
    <3>3. QED BY <1>1, <1>2, <2>2, <3>1, <3>2 DEF InTime, Behind
  <2>8. CASE read # 0
    <3>1. sent = lastTimestamp /\ sentDelayed = lastTimestamp
      <4>1. 0 < read /\ read - 0 - 1 = read - 1
        BY <2>6, <2>8
      <4>2. QED BY <2>5, <2>8, <4>1 DEF UpTo
    <3>2. Behind(sent, lastTimestamp') /\ Behind(sentDelayed, lastTimestamp')
      BY <2>1, <2>6, <3>1 DEF Behind
    <3>3. QED BY <1>1, <1>2, <2>2, <3>2 DEF InTime, Behind
  <2>9. QED BY <2>7, <2>8
<1>6. CASE compareAndSet
  <2>1. ~Playing /\ ~Playing' /\ pc' \notin {"drain", "empty"} /\ UNCHANGED lastTimestamp
    BY <1>6 DEF compareAndSet, Playing, InASong, playVars
  <2>2. QED BY <1>1, <1>2, <2>1 DEF InTime, Behind
<1>7. CASE playLoop \/ drained
  <2>1. Playing /\ Playing' /\ UNCHANGED <<adjustPTS, read, lastTimestamp, duration>>
    BY <1>7 DEF playLoop, drained, Playing, InASong, playVars
  <2>2. pc' \in {"drain", "empty"} /\ read = 0 => duration = 0
    <3>1. CASE playLoop
      BY <3>1 DEF playLoop
    <3>2. CASE drained
      BY <3>2 DEF drained, InTime
    <3>3. QED BY <1>7, <3>1, <3>2
  <2>3. QED BY <1>1, <1>2, <2>1, <2>2 DEF InTime, Run, UpTo, Behind
<1>8. CASE tryToStart \/ (\E c \in Clients : selectSong(c)) \/ onSongPlaying \/ loadASong
           \/ nextAsDefaultFile \/ nextAsDefaultName
  <2>1. /\ UNCHANGED <<adjustPTS, read, lastTimestamp, duration>>
        /\ pc' = pc \/ (~Playing /\ ~Playing' /\ pc' \notin {"drain", "empty"})
    BY <1>8 DEF tryToStart, selectSong, selectFile, selectName, selectCancel, Untouched,
         onSongPlaying, loadASong, nextAsDefaultFile, nextAsDefaultName, playVars, Playing, InASong
  <2>2. CASE pc' = pc
    BY <1>1, <1>2, <2>1, <2>2 DEF InTime, Playing, InASong, Run, UpTo, Behind
  <2>3. CASE ~Playing /\ ~Playing' /\ pc' \notin {"drain", "empty"}
    BY <1>1, <1>2, <2>1, <2>3 DEF InTime, Behind
  <2>4. QED BY <2>1, <2>2, <2>3
<1>9. QED BY <1>3, <1>4, <1>5, <1>6, <1>7, <1>8 DEF QuietStep

(* What the steps that send have in common.                                    *)
LEMMA SendingFacts ==
  ASSUME QueueInv, InTime, Playing
  PROVE  /\ owed \in Seq(Timestamps) /\ delayObjectQueue \in Seq(DelayObject)
         /\ flvFrameQueue \in Seq(Timestamps) /\ Owes(owed, delayObjectQueue, flvFrameQueue)
         /\ adjustPTS \in Timestamps /\ adjustPTS \in Nat /\ read \in 0 .. Length /\ read \in Nat
         /\ sent \in Timestamps \cup {None} /\ sentDelayed \in Timestamps \cup {None}
         /\ Run(owed, adjustPTS, read) /\ Run(flvFrameQueue, adjustPTS, read)
         /\ UpTo(sent, Len(flvFrameQueue), adjustPTS, read)
         /\ UpTo(sentDelayed, Len(owed), adjustPTS, read)
         /\ lastTimestamp = IF read = 0 THEN adjustPTS ELSE (adjustPTS + (read - 1)) % Width
<1>1. /\ owed \in Seq(Timestamps) /\ delayObjectQueue \in Seq(DelayObject)
      /\ flvFrameQueue \in Seq(Timestamps) /\ Owes(owed, delayObjectQueue, flvFrameQueue)
  BY DEF QueueInv, QueuesOK
<1>2. /\ adjustPTS \in Timestamps /\ read \in 0 .. Length
      /\ sent \in Timestamps \cup {None} /\ sentDelayed \in Timestamps \cup {None}
  BY DEF QueueInv, TypeOK
<1>3. adjustPTS \in Nat /\ read \in Nat
  BY <1>2, TicksAssumption, Widths DEF Timestamps
<1>4. /\ Run(owed, adjustPTS, read)
      /\ UpTo(sent, Len(flvFrameQueue), adjustPTS, read)
      /\ UpTo(sentDelayed, Len(owed), adjustPTS, read)
      /\ lastTimestamp = IF read = 0 THEN adjustPTS ELSE (adjustPTS + (read - 1)) % Width
  BY DEF InTime
<1>5. Run(flvFrameQueue, adjustPTS, read)
  BY <1>1, <1>3, <1>4, RunOfQueue
<1>6. QED BY <1>1, <1>2, <1>3, <1>4, <1>5

(* The steps that only send old objects again.                                 *)
LEMMA SentAgainInTime ==
  ASSUME QueueInv, InTime, frameNotDue \/ emptyDelayObjectQueue
  PROVE  InTime' /\ Forwards
<1>1. /\ checkForDelaySend(delayObjectQueue)
      /\ UNCHANGED <<pc, read, adjustPTS, lastTimestamp, flvFrameQueue, sent, duration>>
  BY DEF frameNotDue, emptyDelayObjectQueue
<1>2. Playing /\ Playing'
  BY <1>1 DEF frameNotDue, emptyDelayObjectQueue, Playing, InASong
<1> DEFINE n == DueAgain(delayObjectQueue)
<1>3. /\ owed' = SubSeq(owed, n + 1, Len(owed))
      /\ sentDelayed' = IF n = 0 THEN sentDelayed ELSE delayObjectQueue[n].timestamp
      /\ n = DueAgain(delayObjectQueue)
  BY <1>1 DEF checkForDelaySend
<1> HIDE DEF n
<1>4. /\ GoesOn(sentDelayed, sentDelayed') /\ UpTo(sentDelayed', Len(owed'), adjustPTS, read)
      /\ Run(owed', adjustPTS, read)
  <2>1. /\ owed \in Seq(Timestamps) /\ delayObjectQueue \in Seq(DelayObject)
        /\ flvFrameQueue \in Seq(Timestamps) /\ Owes(owed, delayObjectQueue, flvFrameQueue)
        /\ adjustPTS \in Timestamps /\ read \in 0 .. Length /\ sentDelayed \in Timestamps \cup {None}
        /\ Run(owed, adjustPTS, read) /\ UpTo(sentDelayed, Len(owed), adjustPTS, read)
    BY <1>2, SendingFacts
  <2>2. /\ GoesOn(sentDelayed, IF n = 0 THEN sentDelayed ELSE delayObjectQueue[n].timestamp)
        /\ UpTo(IF n = 0 THEN sentDelayed ELSE delayObjectQueue[n].timestamp,
                Len(SubSeq(owed, n + 1, Len(owed))), adjustPTS, read)
        /\ Run(SubSeq(owed, n + 1, Len(owed)), adjustPTS, read)
    BY ONLY <1>3, <2>1, DelayedForward
  <2>3. QED BY ONLY <1>3, <2>2
<1>5. GoesOn(sent, sent') /\ (pc' \in {"drain", "empty"} /\ read = 0 => duration = 0)
  BY <1>1 DEF GoesOn, InTime
<1>6. QED BY <1>1, <1>2, <1>4, <1>5, SendingFacts DEF InTime, Forwards, Run, UpTo, Behind

(* The frame at the head of the queue moves the original stream forward by one. *)
LEMMA HeadForward ==
  ASSUME NEW F \in Seq(Timestamps), F # <<>>, NEW a \in Timestamps, NEW r \in 0 .. Length,
         Run(F, a, r), NEW s \in Timestamps \cup {None}, UpTo(s, Len(F), a, r)
  PROVE  GoesOn(s, Head(F)) /\ UpTo(Head(F), Len(Tail(F)), a, r)
<1>1. Len(F) \in Nat /\ Len(F) >= 1 /\ Len(F) <= r /\ Len(Tail(F)) = Len(F) - 1 /\ Head(F) = F[1]
  <2>1. Len(F) \in Nat /\ Len(F) # 0
    BY EmptySeq
  <2>2. Len(Tail(F)) = Len(F) - 1 /\ Head(F) = F[1]
    BY HeadTailProperties
  <2>3. QED BY <2>1, <2>2 DEF Run
<1>2. Len(F) \in 1 .. r /\ 1 \in 1 .. Len(F)
  BY <1>1
<1>3. Head(F) = (a + (r - Len(F) + 1 - 1)) % Width
  BY <1>1, <1>2 DEF Run
<1>4. GoesOn(s, Head(F)) /\ UpTo(Head(F), Len(F) - 1, a, r)
  BY <1>2, <1>3, Forward
<1>5. QED BY <1>1, <1>4

LEMMA FrameSentInTime ==
  ASSUME QueueInv, InTime, frameDue
  PROVE  InTime' /\ Forwards
<1>1. /\ pc = "frame" /\ pc' = "read"
      /\ sent' = Head(flvFrameQueue) /\ flvFrameQueue' = Tail(flvFrameQueue)
      /\ UNCHANGED <<read, adjustPTS, lastTimestamp, sentDelayed, owed, duration>>
  BY DEF frameDue, Sends
<1>2. Playing /\ Playing' /\ flvFrameQueue # <<>>
  BY <1>1 DEF Playing, InASong, QueueInv, Phases
<1>3. GoesOn(sent, sent') /\ UpTo(sent', Len(flvFrameQueue'), adjustPTS, read)
  BY <1>1, <1>2, SendingFacts, HeadForward
<1>4. GoesOn(sentDelayed, sentDelayed')
  BY <1>1 DEF GoesOn
<1>5. QED BY <1>1, <1>2, <1>3, <1>4, SendingFacts DEF InTime, Forwards, Run, UpTo, Behind

(* drain does either or both.                                                  *)
LEMMA DrainedInTime ==
  ASSUME QueueInv, InTime, drain
  PROVE  InTime' /\ Forwards
<1>1. /\ pc = "drain" /\ flvFrameQueue # <<>>
      /\ UNCHANGED <<pc, read, adjustPTS, lastTimestamp, duration>>
      /\ \/ /\ Sends(Head(flvFrameQueue)) /\ flvFrameQueue' = Tail(flvFrameQueue)
            /\ checkForDelaySend(Delayed(Head(flvFrameQueue)))
         \/ /\ UNCHANGED <<sent, wanted, flvFrameQueue>>
            /\ checkForDelaySend(delayObjectQueue)
  BY DEF drain
<1>2. Playing /\ Playing'
  BY <1>1 DEF Playing, InASong
<1>3. /\ GoesOn(sent, sent') /\ UpTo(sent', Len(flvFrameQueue'), adjustPTS, read)
      /\ flvFrameQueue' \in Seq(Timestamps)
      /\ \E D \in Seq(DelayObject) : Owes(owed, D, flvFrameQueue') /\ checkForDelaySend(D)
  <2>1. CASE /\ Sends(Head(flvFrameQueue)) /\ flvFrameQueue' = Tail(flvFrameQueue)
             /\ checkForDelaySend(Delayed(Head(flvFrameQueue)))
    <3> DEFINE E == Append(delayObjectQueue, [timestamp |-> Head(flvFrameQueue), age |-> 0])
    <3>1. E \in Seq(DelayObject) /\ Tail(flvFrameQueue) \in Seq(Timestamps)
          /\ Owes(owed, E, Tail(flvFrameQueue))
      BY <1>1, <1>2, SendingFacts, OwesWhenSent
    <3>2. checkForDelaySend(E)
      BY <2>1 DEF Delayed
    <3> HIDE DEF E
    <3>3. sent' = Head(flvFrameQueue)
      BY <2>1 DEF Sends
    <3>4. GoesOn(sent, sent') /\ UpTo(sent', Len(flvFrameQueue'), adjustPTS, read)
      BY <1>1, <1>2, <2>1, <3>3, SendingFacts, HeadForward
    <3>5. QED BY <2>1, <3>1, <3>2, <3>4
  <2>2. CASE UNCHANGED <<sent, wanted, flvFrameQueue>> /\ checkForDelaySend(delayObjectQueue)
    BY <1>2, <2>2, SendingFacts DEF GoesOn
  <2>3. QED BY <1>1, <2>1, <2>2
<1>4. PICK D \in Seq(DelayObject) : Owes(owed, D, flvFrameQueue') /\ checkForDelaySend(D)
  BY <1>3
<1> DEFINE n == DueAgain(D)
<1>5. /\ owed' = SubSeq(owed, n + 1, Len(owed))
      /\ sentDelayed' = IF n = 0 THEN sentDelayed ELSE D[n].timestamp
      /\ n = DueAgain(D)
  BY <1>4 DEF checkForDelaySend
<1> HIDE DEF n
<1>6. /\ GoesOn(sentDelayed, sentDelayed') /\ UpTo(sentDelayed', Len(owed'), adjustPTS, read)
      /\ Run(owed', adjustPTS, read)
  <2>1. /\ owed \in Seq(Timestamps) /\ adjustPTS \in Timestamps /\ read \in 0 .. Length
        /\ sentDelayed \in Timestamps \cup {None}
        /\ Run(owed, adjustPTS, read) /\ UpTo(sentDelayed, Len(owed), adjustPTS, read)
    BY <1>2, SendingFacts
  <2>2. D \in Seq(DelayObject) /\ flvFrameQueue' \in Seq(Timestamps) /\ Owes(owed, D, flvFrameQueue')
    BY <1>3, <1>4
  <2>3. /\ GoesOn(sentDelayed, IF n = 0 THEN sentDelayed ELSE D[n].timestamp)
        /\ UpTo(IF n = 0 THEN sentDelayed ELSE D[n].timestamp,
                Len(SubSeq(owed, n + 1, Len(owed))), adjustPTS, read)
        /\ Run(SubSeq(owed, n + 1, Len(owed)), adjustPTS, read)
    <3>1. PICK F \in Seq(Timestamps) : Owes(owed, D, F)
      BY <2>2
    <3>2. n = DueAgain(D)
      BY <1>5
    <3>3. QED BY ONLY <2>1, D \in Seq(DelayObject), <3>1, <3>2, DelayedForward
  <2>4. QED BY ONLY <1>5, <2>3
<1>7. read = 0 => duration = 0
  BY <1>1 DEF InTime
<1>8. QED BY <1>1, <1>2, <1>3, <1>6, <1>7, SendingFacts DEF InTime, Forwards, Run, UpTo, Behind

(* A tick only counts while an object waits, which a song with frames left.    *)
LEMMA TickInTime ==
  ASSUME QueueInv, InTime, Tick
  PROVE  InTime' /\ Forwards
<1>1. /\ UNCHANGED <<pc, read, adjustPTS, lastTimestamp, flvFrameQueue, sent, sentDelayed, owed>>
      /\ pc = "empty" => delayObjectQueue # <<>>
      /\ pc # "empty" => duration' = duration
  BY DEF Tick
<1>2. Forwards
  BY <1>1 DEF Forwards, GoesOn
<1>3. pc \in {"drain", "empty"} /\ read = 0 => duration' = 0
  <2> SUFFICES ASSUME pc \in {"drain", "empty"}, read = 0 PROVE duration' = 0
    OBVIOUS
  <2>1. CASE pc = "empty"
    <3>1. Playing
      BY <2>1 DEF Playing, InASong
    <3>2. Len(owed) <= 0 /\ Len(delayObjectQueue) \in Nat /\ Len(flvFrameQueue) \in Nat
          /\ Len(owed) = Len(delayObjectQueue) + Len(flvFrameQueue)
      BY <3>1, SendingFacts DEF Run, Owes
    <3>3. delayObjectQueue = <<>>
      BY <3>1, <3>2, SendingFacts, EmptySeq
    <3>4. QED BY <1>1, <2>1, <3>3
  <2>2. CASE pc # "empty"
    BY <1>1, <2>2 DEF InTime
  <2>3. QED BY <2>1, <2>2
<1>4. QED BY <1>1, <1>2, <1>3 DEF InTime, Playing, InASong, Run, UpTo, Behind

(* Frames that are read go on where those read before ended.                   *)
LEMMA RunGoesOn ==
  ASSUME NEW Q \in Seq(Timestamps), NEW a \in Nat, NEW r \in Nat, Run(Q, a, r),
         NEW n \in Nat, NEW P \in Seq(Timestamps), Len(P) = n,
         \A i \in 1 .. n : P[i] = (a + r + i - 1) % Width
  PROVE  Run(Q \o P, a, r + n)
<1>1. /\ Len(Q) \in Nat /\ Len(Q) <= r /\ Len(Q \o P) = Len(Q) + n
      /\ \A i \in 1 .. Len(Q) : (Q \o P)[i] = Q[i]
      /\ \A i \in 1 .. n : (Q \o P)[Len(Q) + i] = P[i]
  <2>1. /\ Len(Q \o P) = Len(Q) + Len(P)
        /\ \A i \in 1 .. Len(Q) : (Q \o P)[i] = Q[i]
        /\ \A i \in 1 .. Len(P) : (Q \o P)[Len(Q) + i] = P[i]
    BY ONLY Q \in Seq(Timestamps), P \in Seq(Timestamps), Joined
  <2>2. Len(P) = n /\ Len(Q) \in Nat /\ Len(Q) <= r
    BY DEF Run
  <2>3. QED BY ONLY <2>1, <2>2
<1>2. ASSUME NEW i \in 1 .. Len(Q \o P)
      PROVE  (Q \o P)[i] = (a + ((r + n) - Len(Q \o P) + i - 1)) % Width
  <2>1. (r + n) - Len(Q \o P) + i - 1 = r - Len(Q) + i - 1
    BY <1>1
  <2>2. CASE i <= Len(Q)
    <3>1. i \in 1 .. Len(Q)
      BY <1>1, <2>2
    <3>2. QED BY <1>1, <2>1, <3>1 DEF Run
  <2>3. CASE ~(i <= Len(Q))
    <3>1. PICK j \in 1 .. n : i = Len(Q) + j
      <4>1. i - Len(Q) \in 1 .. n /\ i = Len(Q) + (i - Len(Q))
        BY <1>1, <2>3
      <4>2. QED BY <4>1
    <3>2. a + (r - Len(Q) + i - 1) = a + r + j - 1
      BY <1>1, <3>1
    <3>3. QED BY <1>1, <2>1, <3>1, <3>2
  <2>4. QED BY <2>2, <2>3
<1>3. Len(Q \o P) <= r + n
  BY <1>1
<1>4. QED BY <1>2, <1>3 DEF Run

LEMMA UpToStill ==
  ASSUME NEW s, NEW a, NEW r \in Nat, NEW len \in Nat, NEW n \in Nat, UpTo(s, len, a, r)
  PROVE  UpTo(s, len + n, a, r + n)
<1>1. len < r <=> len + n < r + n
  OBVIOUS
<1>2. (r + n) - (len + n) - 1 = r - len - 1
  OBVIOUS
<1>3. QED BY <1>1, <1>2 DEF UpTo

LEMMA BufferReadInTime ==
  ASSUME QueueInv, InTime, readBuf
  PROVE  InTime' /\ Forwards
<1>1. /\ pc = "read" /\ pc' = "play" /\ adjustPTS' = adjustPTS /\ duration' = duration
  BY DEF readBuf
<1>2. Playing /\ Playing'
  BY <1>1 DEF Playing, InASong
<1>3. /\ owed \in Seq(Timestamps) /\ delayObjectQueue \in Seq(DelayObject)
      /\ flvFrameQueue \in Seq(Timestamps) /\ Owes(owed, delayObjectQueue, flvFrameQueue)
      /\ adjustPTS \in Timestamps /\ adjustPTS \in Nat /\ read \in 0 .. Length /\ read \in Nat
      /\ sent \in Timestamps \cup {None} /\ sentDelayed \in Timestamps \cup {None}
      /\ Run(owed, adjustPTS, read) /\ Run(flvFrameQueue, adjustPTS, read)
      /\ UpTo(sent, Len(flvFrameQueue), adjustPTS, read)
      /\ UpTo(sentDelayed, Len(owed), adjustPTS, read)
      /\ lastTimestamp = IF read = 0 THEN adjustPTS ELSE (adjustPTS + (read - 1)) % Width
  BY <1>2, SendingFacts
<1> DEFINE Parsed(k) == [i \in 1 .. k |-> (adjustPTS + read + i - 1) % Width]
           First(k)  == k > 0 /\ firstPTS = None
           Queue(k)  == IF First(k) THEN Delayed(Parsed(k)[1]) ELSE delayObjectQueue
           Due(k)    == DueAgain(Queue(k))
<1>4. PICK n \in 0 .. MayRead :
        /\ read' = read + n
        /\ lastTimestamp' = IF n = 0 THEN lastTimestamp ELSE Parsed(n)[n]
        /\ flvFrameQueue' = flvFrameQueue \o (IF First(n) THEN Tail(Parsed(n)) ELSE Parsed(n))
        /\ IF First(n) THEN Sends(Parsed(n)[1]) ELSE UNCHANGED <<sent, wanted>>
        /\ sentDelayed' = IF Due(n) = 0 THEN sentDelayed ELSE Queue(n)[Due(n)].timestamp
        /\ owed' = SubSeq(owed \o Parsed(n), Due(n) + 1, Len(owed) + n)
  BY DEF readBuf, AdjustedTimestamps
<1>5. n \in Nat /\ read + n \in 0 .. Length /\ read + n \in Nat
  <2>1. MayRead = Length - read \/ MayRead = 0
    BY DEF MayRead
  <2>2. Length \in Nat /\ read \in 0 .. Length /\ n \in 0 .. MayRead
    BY <1>3, TicksAssumption, Widths
  <2>3. QED BY ONLY <2>1, <2>2
<1> DEFINE P == Parsed(n)
           first == First(n)
           D == Queue(n)
           due == Due(n)
<1>6. P \in Seq(Timestamps) /\ Len(P) = n /\ \A i \in 1 .. n : P[i] = (adjustPTS + read + i - 1) % Width
  <2>1. \A i \in 1 .. n : (adjustPTS + read + i - 1) % Width \in Timestamps
    <3>1. Width \in Nat \ {0} /\ adjustPTS \in Nat /\ read \in Nat /\ n \in Nat
      BY <1>3, <1>5, TicksAssumption, Widths
    <3>2. QED BY ONLY <3>1 DEF Timestamps
  <2>2. P \in [1 .. n -> Timestamps] /\ \A i \in 1 .. n : P[i] = (adjustPTS + read + i - 1) % Width
    BY <2>1
  <2> HIDE DEF P
  <2>3. QED BY <2>2, <1>5
<1>7. /\ read' = read + n
      /\ lastTimestamp' = IF n = 0 THEN lastTimestamp ELSE P[n]
      /\ flvFrameQueue' = flvFrameQueue \o (IF first THEN Tail(P) ELSE P)
      /\ IF first THEN Sends(P[1]) ELSE UNCHANGED <<sent, wanted>>
      /\ sentDelayed' = IF due = 0 THEN sentDelayed ELSE D[due].timestamp
      /\ owed' = SubSeq(owed \o P, due + 1, Len(owed) + n)
  BY <1>4
<1>8. /\ first <=> n > 0 /\ firstPTS = None
      /\ D = IF first THEN Delayed(P[1]) ELSE delayObjectQueue
      /\ due = DueAgain(D)
  OBVIOUS
<1> HIDE DEF P, first, D, due
<1>9. /\ owed \o P \in Seq(Timestamps) /\ flvFrameQueue \o P \in Seq(Timestamps)
      /\ Len(owed \o P) = Len(owed) + n /\ Len(flvFrameQueue \o P) = Len(flvFrameQueue) + n
      /\ Len(owed) \in Nat /\ Len(flvFrameQueue) \in Nat
      /\ Owes(owed \o P, delayObjectQueue, flvFrameQueue \o P)
  <2>1. P \in Seq(Timestamps) /\ Len(P) = n
    BY <1>6
  <2>2. /\ owed \o P \in Seq(Timestamps) /\ flvFrameQueue \o P \in Seq(Timestamps)
        /\ Len(owed \o P) = Len(owed) + Len(P) /\ Len(flvFrameQueue \o P) = Len(flvFrameQueue) + Len(P)
    BY <1>3, <2>1, Joined
  <2>3. Owes(owed \o P, delayObjectQueue, flvFrameQueue \o P)
    BY ONLY <1>3, <2>1, OwesWhenParsed
  <2>4. Len(owed) \in Nat /\ Len(flvFrameQueue) \in Nat
    BY <1>3
  <2>5. QED BY ONLY <2>1, <2>2, <2>3, <2>4
<1>10. /\ Run(owed \o P, adjustPTS, read + n)
       /\ Run(flvFrameQueue \o P, adjustPTS, read + n)
  BY <1>3, <1>5, <1>6, RunGoesOn
<1>11. /\ UpTo(sent, Len(flvFrameQueue \o P), adjustPTS, read + n)
       /\ UpTo(sentDelayed, Len(owed \o P), adjustPTS, read + n)
  BY <1>3, <1>5, <1>9, UpToStill
<1>12. /\ D \in Seq(DelayObject) /\ flvFrameQueue' \in Seq(Timestamps)
       /\ Owes(owed \o P, D, flvFrameQueue')
       /\ GoesOn(sent, sent') /\ UpTo(sent', Len(flvFrameQueue'), adjustPTS, read + n)
  <2>1. CASE first
    <3>1. flvFrameQueue = <<>> /\ n > 0
      BY <2>1, <1>8 DEF QueueInv, Phases
    <3>2. flvFrameQueue \o P = P /\ P # <<>>
      BY <3>1, <1>6, ConcatEmptySeq, EmptySeq
    <3>3. Head(P) = P[1] /\ Tail(P) \in Seq(Timestamps)
      BY <3>2, <1>6, HeadTailProperties
    <3>4. flvFrameQueue' = Tail(P) /\ sent' = Head(P)
      BY <2>1, <3>1, <3>3, <1>7, ConcatEmptySeq DEF Sends
    <3>5. D = Append(delayObjectQueue, [timestamp |-> Head(P), age |-> 0])
      BY <2>1, <3>3, <1>8 DEF Delayed
    <3>6. D \in Seq(DelayObject) /\ Owes(owed \o P, D, Tail(P))
      BY <1>3, <1>6, <1>9, <3>2, <3>5, OwesWhenSent
    <3>7. GoesOn(sent, Head(P)) /\ UpTo(Head(P), Len(Tail(P)), adjustPTS, read + n)
      BY <1>3, <1>5, <1>6, <1>10, <1>11, <3>2, HeadForward
    <3>8. QED BY <3>3, <3>4, <3>6, <3>7
  <2>2. CASE ~first
    <3>1. flvFrameQueue' = flvFrameQueue \o P /\ D = delayObjectQueue /\ sent' = sent
      BY <2>2, <1>7, <1>8
    <3>2. QED BY <3>1, <1>3, <1>9, <1>11 DEF GoesOn
  <2>3. QED BY <2>1, <2>2
<1>13. /\ GoesOn(sentDelayed, sentDelayed') /\ UpTo(sentDelayed', Len(owed'), adjustPTS, read + n)
       /\ Run(owed', adjustPTS, read + n)
  <2>1. owed' = SubSeq(owed \o P, due + 1, Len(owed \o P))
    BY <1>7, <1>9
  <2>2. /\ adjustPTS \in Timestamps /\ sentDelayed \in Timestamps \cup {None}
        /\ due = DueAgain(D) /\ owed \o P \in Seq(Timestamps)
        /\ sentDelayed' = IF due = 0 THEN sentDelayed ELSE D[due].timestamp
    BY <1>3, <1>7, <1>8, <1>9
  <2>3. PICK F \in Seq(Timestamps) : Owes(owed \o P, D, F)
    BY <1>12
  <2>4. /\ GoesOn(sentDelayed, IF due = 0 THEN sentDelayed ELSE D[due].timestamp)
        /\ UpTo(IF due = 0 THEN sentDelayed ELSE D[due].timestamp,
                Len(SubSeq(owed \o P, due + 1, Len(owed \o P))), adjustPTS, read + n)
        /\ Run(SubSeq(owed \o P, due + 1, Len(owed \o P)), adjustPTS, read + n)
    BY ONLY <1>5, <1>10, <1>11, <1>12, <2>2, <2>3, DelayedForward
  <2>5. QED BY ONLY <2>1, <2>2, <2>4
<1>14. lastTimestamp' = IF read + n = 0 THEN adjustPTS ELSE (adjustPTS + ((read + n) - 1)) % Width
  <2>1. CASE n = 0
    BY <1>3, <1>7, <2>1
  <2>2. CASE n # 0
    <3>1. n \in 1 .. n /\ read + n # 0 /\ adjustPTS + read + n - 1 = adjustPTS + ((read + n) - 1)
      BY <1>3, <1>5, <2>2
    <3>2. QED BY <1>6, <1>7, <2>2, <3>1
  <2>3. QED BY <2>1, <2>2
<1>15. QED BY <1>1, <1>2, <1>7, <1>12, <1>13, <1>14 DEF InTime, Forwards, Run, UpTo, Behind

LEMMA InitInTime == Init => InTime
<1> SUFFICES ASSUME Init PROVE InTime
  OBVIOUS
<1>1. pc = "off" /\ sent = None /\ sentDelayed = None
  BY DEF Init
<1>2. ~Playing
  BY <1>1 DEF Playing, InASong
<1>3. QED BY <1>1, <1>2 DEF InTime, Behind

LEMMA StepInTime == QueueInv /\ InTime /\ [Next]_vars => InTime' /\ Forwards
<1> SUFFICES ASSUME QueueInv, InTime, [Next]_vars PROVE InTime' /\ Forwards
  OBVIOUS
<1>1. CASE QuietStep
  BY <1>1, QuietInTime
<1>2. CASE frameNotDue \/ emptyDelayObjectQueue
  BY <1>2, SentAgainInTime
<1>3. CASE frameDue
  BY <1>3, FrameSentInTime
<1>4. CASE drain
  BY <1>4, DrainedInTime
<1>5. CASE readBuf
  BY <1>5, BufferReadInTime
<1>6. CASE Tick
  BY <1>6, TickInTime
<1>7. CASE UNCHANGED vars
  <2>1. UNCHANGED <<pc, read, adjustPTS, lastTimestamp, flvFrameQueue, sent, sentDelayed, owed, duration>>
    BY <1>7 DEF vars, playVars
  <2>2. QED BY <2>1 DEF InTime, Forwards, GoesOn, Playing, InASong, Run, UpTo, Behind
<1>8. QED
  BY <1>1, <1>2, <1>3, <1>4, <1>5, <1>6, <1>7 DEF Next, Thread, QuietStep

(* Of what onKaraokeFrameParsed and checkForDelaySend send, the time in the    *)
(* header goes on, on the original stream and on the delayed one: within a    *)
(* song, from a song to the next, and when one is cut short or empty.  It     *)
(* goes back only into the next lap of the three bytes that FLVParser writes. *)
THEOREM BackOnlyAtTheWrap == Spec => TimeGoesBackOnlyAtTheWrap
<1> DEFINE Forth == GoesOn(sent, sent') /\ GoesOn(sentDelayed, sentDelayed')
<1>1. Init => QueueInv /\ InTime
  BY InitInv, InitInTime
<1>2. QueueInv /\ InTime /\ [Next]_vars => (QueueInv /\ InTime)' /\ [Forth]_vars
  BY StepInv, StepInTime DEF Forwards
<1>3. QED BY <1>1, <1>2, PTL DEF Spec, TimeGoesBackOnlyAtTheWrap
=============================================================================
