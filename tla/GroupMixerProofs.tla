-------------------------- MODULE GroupMixerProofs --------------------------
(***************************************************************************)
(* Proofs about GroupMixer, for any connections, any names of clients and  *)
(* streams of the server, and any backlog of messages.                     *)
(***************************************************************************)
EXTENDS GroupMixer, NumberLemmas, SequenceTheorems

USE DEF Ids!Mapped

(* IdLookup brings its own names for these two.                              *)
LEMMA SameSize ==
  ASSUME NEW S
  PROVE  /\ Ids!IsFiniteSet(S) <=> IsFiniteSet(S)
         /\ Ids!Cardinality(S) = Cardinality(S)
<1>1. Ids!IsFiniteSet(S) <=> IsFiniteSet(S)
  BY Zenon DEF Ids!IsFiniteSet, IsFiniteSet
<1>2. Ids!Cardinality(S) = Cardinality(S)
  BY Zenon DEF Ids!Cardinality, Cardinality, Ids!IsFiniteSet, IsFiniteSet
<1>3. QED BY <1>1, <1>2

(* Both scans for a free id, that of IdLookup and that of the connection, find *)
(* one that is not in use.                                                 *)
LEMMA FreeId ==
  ASSUME NEW bits, bits \subseteq Nat, IsFiniteSet(bits)
  PROVE  Ids!LowestClear(bits) \in Nat /\ Ids!LowestClear(bits) \notin bits
<1>1. Cardinality(bits) \in Nat
  BY FS_CardinalityType
<1>2. \E i \in 0 .. Cardinality(bits) : Ids!IsLowestClear(i, bits)
  BY LowestFree DEF Ids!IsLowestClear
<1>3. /\ Ids!LowestClear(bits) \in 0 .. Cardinality(bits)
      /\ Ids!IsLowestClear(Ids!LowestClear(bits), bits)
  BY <1>2, SameSize DEF Ids!LowestClear
<1>4. QED BY <1>1, <1>3 DEF Ids!IsLowestClear

-----------------------------------------------------------------------------
(* What the types rest on: a thread has a name, a session to post to and a     *)
(* stream to make whenever its next step uses one.                         *)
Making == {"reserve", "create", "publish"}

ControlOK ==
  \A c \in Conns :
    /\ pc[c] \in Making => todo[c] # <<>>
    /\ pc[c] = "checked" => publisherStreamName[c] # None
    /\ closing[c] # "no" => publisherStreamName[c] # None /\ pc[c] \in Making \cup {"live"}
    /\ pc[c] \notin {"absent", "boot"} => allInOneSessionId # None

ExecutorOK ==
  \A c \in Conns :
    /\ IsFiniteSet(connReserved[c])
    /\ \A i \in DOMAIN inbox[c] : inbox[c][i].do = "publish" => inbox[c][i].name # None

TypeInv == TypeOK /\ ControlOK /\ ExecutorOK

LEMMA TypesAtStart == ASSUME Init PROVE TypeInv
<1>1. IsFiniteSet({}) /\ Ids!IsFiniteSet({})
  BY FS_EmptySet, SameSize
<1>2. Ids!TypeOK
  <2>1. groupMappingTable \in [DOMAIN groupMappingTable -> Ids!Entry] /\ DOMAIN groupMappingTable = {}
    BY DEF Init, Ids!Init
  <2>2. QED BY <1>1, <2>1 DEF Init, Ids!Init, Ids!TypeOK
<1>3. TypeOK
  <2>1. mixedStreams = [c \in Conns |-> mixedStreams[c]]
    BY DEF Init
  <2>2. \A c \in Conns : /\ DOMAIN mixedStreams[c] \subseteq Nat
                         /\ mixedStreams[c] \in [DOMAIN mixedStreams[c] -> StreamNames]
    BY DEF Init
  <2>3. QED BY <1>2, <2>1, <2>2 DEF Init, TypeOK
<1>4. ControlOK
  BY DEF Init, ControlOK, Making
<1>5. ExecutorOK
  BY <1>1 DEF Init, ExecutorOK
<1>6. QED BY <1>3, <1>4, <1>5 DEF TypeInv

LEMMA SessionCreatedTypes == ASSUME TypeInv, NEW c \in Conns, sessionCreated(c) PROVE TypeInv'
<1>1. TypeOK'
  BY DEF TypeInv, TypeOK, sessionCreated, idVars, aioVars, Ids!TypeOK
<1>2. ControlOK'
  BY DEF TypeInv, TypeOK, ControlOK, Making, sessionCreated
<1>3. ExecutorOK'
  BY DEF TypeInv, ExecutorOK, sessionCreated, aioVars
<1>4. QED BY <1>1, <1>2, <1>3 DEF TypeInv

LEMMA TryToCreateTypes == ASSUME TypeInv, NEW c \in Conns, tryToCreateAllInOneConn(c) PROVE TypeInv'
<1>0. SystemNames \in Seq(StreamNames) /\ SystemNames # <<>>
  BY SystemNamesAssumption DEF StreamNames
<1>1. TypeOK'
  BY <1>0 DEF TypeInv, TypeOK, tryToCreateAllInOneConn, idVars, aioVars, Ids!TypeOK
<1>2. ControlOK'
  BY <1>0, NoneAssumption DEF TypeInv, TypeOK, ControlOK, Making, tryToCreateAllInOneConn
<1>3. ExecutorOK'
  BY DEF TypeInv, ExecutorOK, tryToCreateAllInOneConn, aioVars
<1>4. QED BY <1>1, <1>2, <1>3 DEF TypeInv

LEMMA PublishTypes ==
  ASSUME TypeInv, NEW c \in Conns, NEW n \in ClientNames, publish(c, n) PROVE TypeInv'
<1>1. TypeOK'
  BY DEF TypeInv, TypeOK, publish, idVars, aioVars, Ids!TypeOK
<1>2. ControlOK'
  BY NoneAssumption DEF TypeInv, TypeOK, ControlOK, Making, publish
<1>3. ExecutorOK'
  BY DEF TypeInv, ExecutorOK, publish, aioVars
<1>4. QED BY <1>1, <1>2, <1>3 DEF TypeInv

LEMMA RegisterTypes == ASSUME TypeInv, NEW c \in Conns, registerBroadcastStream(c) PROVE TypeInv'
<1>0. publisherStreamName[c] \in ClientNames
  BY DEF TypeInv, TypeOK, ControlOK, registerBroadcastStream
<1>1. <<publisherStreamName[c]>> \in Seq(StreamNames) /\ <<publisherStreamName[c]>> # <<>>
  BY <1>0 DEF StreamNames
<1>2. TypeOK'
  BY <1>0, <1>1 DEF TypeInv, TypeOK, registerBroadcastStream, idVars, aioVars, Ids!TypeOK
<1>3. ControlOK'
  BY <1>1 DEF TypeInv, TypeOK, ControlOK, Making, registerBroadcastStream
<1>4. ExecutorOK'
  BY DEF TypeInv, ExecutorOK, registerBroadcastStream, aioVars
<1>5. QED BY <1>2, <1>3, <1>4 DEF TypeInv

(* createNewEntry for a name of any stream.                                   *)
LEMMA NewEntry ==
  ASSUME Ids!TypeOK, NEW n \in StreamNames, Ids!createNewEntry(n)
  PROVE  /\ Ids!reserveStreamId \in Nat \ {0}
         /\ Ids!reserveStreamId - 1 \in Nat \ reservedStreams
         /\ Ids!reserveStreamId - 1 = Ids!LowestClear(reservedStreams)
         /\ reservedStreams' = reservedStreams \cup {Ids!reserveStreamId - 1}
         /\ DOMAIN groupMappingTable' = DOMAIN groupMappingTable \cup {n}
         /\ groupMappingTable'[n].streamId = Ids!reserveStreamId
         /\ \A k \in DOMAIN groupMappingTable : k # n => groupMappingTable'[k] = groupMappingTable[k]
         /\ Ids!TypeOK'
<1> DEFINE mid == Ids!reserveMixerId(n)
           sid == Ids!reserveStreamId
<1>1. /\ mixerStreams \subseteq Nat /\ IsFiniteSet(mixerStreams)
      /\ reservedStreams \subseteq Nat /\ IsFiniteSet(reservedStreams)
  BY SameSize DEF Ids!TypeOK
<1>2. sid \in Nat \ {0} /\ sid - 1 \in Nat \ reservedStreams /\ sid - 1 = Ids!LowestClear(reservedStreams)
  <2>1. Ids!LowestClear(reservedStreams) \in Nat /\ Ids!LowestClear(reservedStreams) \notin reservedStreams
    BY <1>1, FreeId
  <2>2. QED BY <2>1 DEF Ids!reserveStreamId
<1>3. mid \in Nat
  <2>1. Ids!LowestClear(mixerStreams) \in Nat
    BY <1>1, FreeId
  <2>2. QED
    BY <2>1, SlotsAssumption
       DEF Ids!reserveMixerId, Ids!ALL_IN_ONE_STREAM_MIXER_ID, Ids!KARAOKE_STREAM_MIXER_ID
<1> HIDE DEF mid, sid
<1>4. /\ groupMappingTable' = [k \in DOMAIN groupMappingTable \cup {n} |->
            IF k = n THEN [mixerId |-> mid, streamId |-> sid] ELSE groupMappingTable[k]]
      /\ totalInputStreams' = totalInputStreams + 1
      /\ reservedStreams' = reservedStreams \cup {sid - 1}
      /\ mixerStreams' = (IF n \in Ids!Excluded THEN mixerStreams ELSE mixerStreams \cup {mid})
  BY DEF Ids!createNewEntry, mid, sid
<1>5. /\ DOMAIN groupMappingTable' = DOMAIN groupMappingTable \cup {n}
      /\ groupMappingTable'[n].streamId = sid
      /\ \A k \in DOMAIN groupMappingTable : k # n => groupMappingTable'[k] = groupMappingTable[k]
  BY <1>4
<1>6. Ids!TypeOK'
  <2>1. groupMappingTable' \in [DOMAIN groupMappingTable' -> Ids!Entry]
    <3>1. [mixerId |-> mid, streamId |-> sid] \in Ids!Entry
      BY <1>2, <1>3 DEF Ids!Entry
    <3>2. \A k \in DOMAIN groupMappingTable : groupMappingTable[k] \in Ids!Entry
      BY DEF Ids!TypeOK
    <3>3. QED BY <1>4, <3>1, <3>2
  <2>2. reservedStreams' \in SUBSET Nat /\ Ids!IsFiniteSet(reservedStreams')
    BY <1>1, <1>2, <1>4, FS_AddElement, SameSize
  <2>3. mixerStreams' \in SUBSET Nat /\ Ids!IsFiniteSet(mixerStreams')
    BY <1>1, <1>3, <1>4, FS_AddElement, SameSize
  <2>4. DOMAIN groupMappingTable' \subseteq StreamNames /\ totalInputStreams' \in Int
    BY <1>4, <1>5 DEF Ids!TypeOK
  <2>5. QED BY <2>1, <2>2, <2>3, <2>4 DEF Ids!TypeOK
<1>7. QED BY <1>2, <1>4, <1>5, <1>6 DEF sid

(* deleteEntry for a name that is mapped.                                     *)
LEMMA OldEntry ==
  ASSUME Ids!TypeOK, NEW n \in DOMAIN groupMappingTable, Ids!deleteEntry(n)
  PROVE  /\ groupMappingTable[n].streamId \in Nat \ {0}
         /\ reservedStreams' = reservedStreams \ {groupMappingTable[n].streamId - 1}
         /\ DOMAIN groupMappingTable' = DOMAIN groupMappingTable \ {n}
         /\ \A k \in DOMAIN groupMappingTable' : groupMappingTable'[k] = groupMappingTable[k]
         /\ Ids!TypeOK'
<1> DEFINE mid == groupMappingTable[n].mixerId
           sid == groupMappingTable[n].streamId
<1>1. /\ mixerStreams \subseteq Nat /\ IsFiniteSet(mixerStreams)
      /\ reservedStreams \subseteq Nat /\ IsFiniteSet(reservedStreams)
  BY SameSize DEF Ids!TypeOK
<1>2. sid \in Nat \ {0}
  BY DEF Ids!TypeOK, Ids!Entry
<1> HIDE DEF mid, sid
<1>3. /\ groupMappingTable' = [k \in DOMAIN groupMappingTable \ {n} |-> groupMappingTable[k]]
      /\ totalInputStreams' = totalInputStreams - 1
      /\ reservedStreams' = reservedStreams \ {sid - 1}
      /\ mixerStreams' = mixerStreams \ {mid}
  BY DEF Ids!deleteEntry, mid, sid
<1>4. /\ DOMAIN groupMappingTable' = DOMAIN groupMappingTable \ {n}
      /\ \A k \in DOMAIN groupMappingTable' : groupMappingTable'[k] = groupMappingTable[k]
  BY <1>3
<1>5. Ids!TypeOK'
  <2>1. groupMappingTable' \in [DOMAIN groupMappingTable' -> Ids!Entry]
    BY <1>3, <1>4 DEF Ids!TypeOK
  <2>2. reservedStreams' \in SUBSET Nat /\ Ids!IsFiniteSet(reservedStreams')
    BY <1>1, <1>3, FS_RemoveElement, SameSize
  <2>3. mixerStreams' \in SUBSET Nat /\ Ids!IsFiniteSet(mixerStreams')
    BY <1>1, <1>3, FS_RemoveElement, SameSize
  <2>4. DOMAIN groupMappingTable' \subseteq StreamNames /\ totalInputStreams' \in Int
    BY <1>3, <1>4 DEF Ids!TypeOK
  <2>5. QED BY <2>1, <2>2, <2>3, <2>4 DEF Ids!TypeOK
<1>6. QED BY <1>2, <1>3, <1>4, <1>5 DEF sid

-----------------------------------------------------------------------------
LEMMA CreateMixedTypes == ASSUME TypeInv, NEW c \in Conns, createMixedStream(c) PROVE TypeInv'
<1>0. /\ Ids!TypeOK /\ pc[c] = "reserve" /\ todo[c] \in Seq(StreamNames) /\ todo[c] # <<>>
      /\ Ids!createNewEntry(Head(todo[c]))
  BY DEF TypeInv, TypeOK, ControlOK, Making, createMixedStream
<1>1. Head(todo[c]) \in StreamNames
  BY <1>0
<1>2. Ids!TypeOK' /\ Ids!reserveStreamId \in Nat
  BY <1>0, <1>1, NewEntry
<1>3. TypeOK'
  BY <1>2 DEF TypeInv, TypeOK, createMixedStream, aioVars
<1>4. ControlOK'
  BY DEF TypeInv, TypeOK, ControlOK, Making, createMixedStream
<1>5. ExecutorOK'
  BY DEF TypeInv, ExecutorOK, createMixedStream, aioVars
<1>6. QED BY <1>3, <1>4, <1>5 DEF TypeInv

LEMMA PostTypes ==
  ASSUME TypeInv, NEW c \in Conns, pc[c] \notin {"absent", "boot"}, NEW m \in Message, Post(m),
         m.do = "publish" => m.name # None
  PROVE  /\ allInOneSessionId \in Conns
         /\ inbox' \in [Conns -> Seq(Message)]
         /\ \A a \in Conns : \A i \in DOMAIN inbox'[a] : inbox'[a][i].do = "publish" => inbox'[a][i].name # None
<1>1. allInOneSessionId \in Conns
  BY DEF TypeInv, TypeOK, ControlOK
<1>2. PICK s \in Conns : s = allInOneSessionId
  BY <1>1
<1>3. inbox \in [Conns -> Seq(Message)] /\ inbox' = [inbox EXCEPT ![s] = Append(@, m)]
  BY <1>2 DEF TypeInv, TypeOK, Post
<1>4. inbox' \in [Conns -> Seq(Message)]
  BY <1>3
<1>5. ASSUME NEW a \in Conns, NEW i \in DOMAIN inbox'[a], inbox'[a][i].do = "publish"
      PROVE  inbox'[a][i].name # None
  <2>1. CASE a # s
    BY <1>3, <1>5, <2>1 DEF TypeInv, ExecutorOK
  <2>2. CASE a = s
    <3>1. inbox[s] \in Seq(Message) /\ inbox'[s] = Append(inbox[s], m)
      BY <1>3
    <3>2. i \in 1 .. Len(inbox[s]) + 1
      BY <1>5, <2>2, <3>1
    <3>3. CASE i = Len(inbox[s]) + 1
      BY <1>5, <2>2, <3>1, <3>3
    <3>4. CASE i \in 1 .. Len(inbox[s])
      <4>1. inbox'[s][i] = inbox[s][i] /\ i \in DOMAIN inbox[s]
        BY <3>1, <3>4
      <4>2. QED BY <1>5, <2>2, <4>1 DEF TypeInv, ExecutorOK
    <3>5. QED BY <3>1, <3>2, <3>3, <3>4
  <2>3. QED BY <2>1, <2>2
<1>6. QED BY <1>1, <1>4, <1>5

LEMMA PostCreateTypes == ASSUME TypeInv, NEW c \in Conns, postCreateStream(c) PROVE TypeInv'
<1> DEFINE m == [do |-> "createStream", id |-> 0, name |-> None]
<1>1. m \in Message /\ m.do # "publish" /\ Post(m) /\ pc[c] \notin {"absent", "boot"}
  BY DEF Message, postCreateStream
<1> HIDE DEF m
<1>2. /\ inbox' \in [Conns -> Seq(Message)]
      /\ \A a \in Conns : \A i \in DOMAIN inbox'[a] : inbox'[a][i].do = "publish" => inbox'[a][i].name # None
  BY <1>1, PostTypes
<1>3. TypeOK'
  BY <1>2 DEF TypeInv, TypeOK, postCreateStream, idVars, aioVars, Ids!TypeOK
<1>4. ControlOK'
  BY DEF TypeInv, TypeOK, ControlOK, Making, postCreateStream
<1>5. ExecutorOK'
  BY <1>2 DEF TypeInv, ExecutorOK, postCreateStream, aioVars
<1>6. QED BY <1>3, <1>4, <1>5 DEF TypeInv

LEMMA PostPublishTypes == ASSUME TypeInv, NEW c \in Conns, postPublish(c) PROVE TypeInv'
<1> DEFINE m == [do |-> "publish", id |-> newStreamId[c], name |-> Head(todo[c])]
<1>0. todo[c] \in Seq(StreamNames) /\ todo[c] # <<>> /\ newStreamId[c] \in Nat
  BY DEF TypeInv, TypeOK, ControlOK, Making, postPublish
<1>1. Head(todo[c]) \in StreamNames /\ Head(todo[c]) # None /\ Tail(todo[c]) \in Seq(StreamNames)
  BY <1>0, NoneAssumption, SystemNamesAssumption DEF StreamNames
<1>2. m \in Message /\ m.name # None
  BY <1>0, <1>1 DEF Message
<1>3. Post(m) /\ pc[c] \notin {"absent", "boot"}
  BY DEF postPublish
<1> HIDE DEF m
<1>4. /\ inbox' \in [Conns -> Seq(Message)]
      /\ \A a \in Conns : \A i \in DOMAIN inbox'[a] : inbox'[a][i].do = "publish" => inbox'[a][i].name # None
  BY <1>2, <1>3, PostTypes
<1>5. /\ todo' = [todo EXCEPT ![c] = Tail(@)]
      /\ pc' = [pc EXCEPT ![c] = IF Len(todo[c]) > 1 THEN "reserve"
                                 ELSE IF publisherStreamName[c] = None THEN "idle" ELSE "live"]
  BY DEF postPublish
<1>6. TypeOK'
  <2>1. todo' \in [Conns -> Seq(StreamNames)]
    BY <1>1, <1>5 DEF TypeInv, TypeOK
  <2>2. pc' \in [Conns -> {"absent", "boot", "idle", "checked", "reserve", "create", "publish", "live"}]
    BY <1>5 DEF TypeInv, TypeOK
  <2>3. QED BY <1>4, <2>1, <2>2 DEF TypeInv, TypeOK, postPublish, idVars, aioVars, Ids!TypeOK
<1>7. Len(todo[c]) > 1 => Tail(todo[c]) # <<>>
  <2>1. Len(Tail(todo[c])) = Len(todo[c]) - 1
    BY <1>0
  <2>2. QED BY <2>1
<1>8. ControlOK'
  BY <1>5, <1>7 DEF TypeInv, TypeOK, ControlOK, Making, postPublish
<1>9. ExecutorOK'
  BY <1>4 DEF TypeInv, ExecutorOK, postPublish, aioVars
<1>10. QED BY <1>6, <1>8, <1>9 DEF TypeInv

LEMMA CloseTypes == ASSUME TypeInv, NEW c \in Conns, closeStream(c) PROVE TypeInv'
<1>0. publisherStreamName[c] \in ClientNames
  BY DEF TypeInv, TypeOK, closeStream
<1>1. TypeOK'
  BY <1>0 DEF TypeInv, TypeOK, closeStream, idVars, aioVars, Ids!TypeOK
<1>2. ControlOK'
  BY DEF TypeInv, TypeOK, ControlOK, Making, closeStream
<1>3. ExecutorOK'
  BY DEF TypeInv, ExecutorOK, closeStream, aioVars
<1>4. QED BY <1>1, <1>2, <1>3 DEF TypeInv

LEMMA DeleteMixedTypes == ASSUME TypeInv, NEW c \in Conns, deleteMixedStream(c) PROVE TypeInv'
<1> DEFINE n == publisherStreamName[c]
           id == Ids!lookupStreamId(n)
<1>0. Ids!TypeOK /\ Ids!deleteEntry(n) /\ closing[c] = "entry"
  BY DEF TypeInv, TypeOK, deleteMixedStream
<1>1. Ids!TypeOK' /\ (id # -1 => id \in Nat)
  <2>1. CASE n \in DOMAIN groupMappingTable
    BY <1>0, <2>1, OldEntry DEF Ids!lookupStreamId
  <2>2. CASE n \notin DOMAIN groupMappingTable
    BY <1>0, <2>2 DEF Ids!deleteEntry, Ids!idVars, Ids!TypeOK, Ids!lookupStreamId
  <2>3. QED BY <2>1, <2>2
<1> HIDE DEF id
<1>2. /\ closing' = [closing EXCEPT ![c] = IF id = -1 THEN "done" ELSE "message"]
      /\ oldStreamId' = [oldStreamId EXCEPT ![c] = IF id = -1 THEN @ ELSE id]
  BY DEF deleteMixedStream, id
<1>3. TypeOK'
  <2>1. closing' \in [Conns -> {"no", "entry", "message", "done"}]
    BY <1>2 DEF TypeInv, TypeOK
  <2>2. oldStreamId' \in [Conns -> Nat]
    BY <1>1, <1>2 DEF TypeInv, TypeOK
  <2>3. QED BY <1>1, <2>1, <2>2 DEF TypeInv, TypeOK, deleteMixedStream, aioVars
<1>4. ControlOK'
  BY <1>0, <1>2 DEF TypeInv, TypeOK, ControlOK, Making, deleteMixedStream
<1>5. ExecutorOK'
  BY DEF TypeInv, ExecutorOK, deleteMixedStream, aioVars
<1>6. QED BY <1>3, <1>4, <1>5 DEF TypeInv

LEMMA PostDeleteTypes == ASSUME TypeInv, NEW c \in Conns, postDeleteStream(c) PROVE TypeInv'
<1> DEFINE m == [do |-> "deleteStream", id |-> oldStreamId[c], name |-> None]
<1>0. oldStreamId[c] \in Nat
  BY DEF TypeInv, TypeOK
<1>1. m \in Message /\ m.do # "publish"
  BY <1>0 DEF Message
<1>2. Post(m) /\ pc[c] \notin {"absent", "boot"}
  BY DEF postDeleteStream, TypeInv, ControlOK, Making
<1> HIDE DEF m
<1>3. /\ inbox' \in [Conns -> Seq(Message)]
      /\ \A a \in Conns : \A i \in DOMAIN inbox'[a] : inbox'[a][i].do = "publish" => inbox'[a][i].name # None
  BY <1>1, <1>2, PostTypes
<1>4. TypeOK'
  BY <1>3 DEF TypeInv, TypeOK, postDeleteStream, idVars, aioVars, Ids!TypeOK
<1>5. ControlOK'
  BY DEF TypeInv, TypeOK, ControlOK, Making, postDeleteStream
<1>6. ExecutorOK'
  BY <1>3 DEF TypeInv, ExecutorOK, postDeleteStream, aioVars
<1>7. QED BY <1>4, <1>5, <1>6 DEF TypeInv

LEMMA ClosedTypes == ASSUME TypeInv, NEW c \in Conns, closed(c) PROVE TypeInv'
<1>1. TypeOK'
  BY DEF TypeInv, TypeOK, closed, idVars, aioVars, Ids!TypeOK
<1>2. ControlOK'
  BY DEF TypeInv, TypeOK, ControlOK, Making, closed
<1>3. ExecutorOK'
  BY DEF TypeInv, ExecutorOK, closed, aioVars
<1>4. QED BY <1>1, <1>2, <1>3 DEF TypeInv

(* The executor's messages.                                                   *)
LEMMA TakeTypes ==
  ASSUME TypeInv, NEW a \in Conns, NEW kind, Take(a, kind)
  PROVE  /\ inbox[a] \in Seq(Message) /\ inbox[a] # <<>>
         /\ Head(inbox[a]) \in Message /\ Head(inbox[a]).do = kind
         /\ kind = "publish" => Head(inbox[a]).name \in StreamNames
         /\ inbox' = [inbox EXCEPT ![a] = Tail(@)]
         /\ inbox' \in [Conns -> Seq(Message)]
         /\ \A b \in Conns : \A i \in DOMAIN inbox'[b] : inbox'[b][i].do = "publish" => inbox'[b][i].name # None
<1>1. inbox[a] \in Seq(Message) /\ inbox[a] # <<>> /\ inbox \in [Conns -> Seq(Message)]
  BY DEF TypeInv, TypeOK, Take
<1>2. /\ Head(inbox[a]) \in Message /\ Head(inbox[a]).do = kind /\ Tail(inbox[a]) \in Seq(Message)
      /\ inbox' = [inbox EXCEPT ![a] = Tail(@)]
  BY <1>1 DEF Take
<1>3. 1 \in DOMAIN inbox[a] /\ Head(inbox[a]) = inbox[a][1]
  BY <1>1
<1>4. kind = "publish" => Head(inbox[a]).name \in StreamNames
  BY <1>2, <1>3 DEF TypeInv, ExecutorOK, Message
<1>5. inbox' \in [Conns -> Seq(Message)]
  BY <1>1, <1>2
<1>6. ASSUME NEW b \in Conns, NEW i \in DOMAIN inbox'[b], inbox'[b][i].do = "publish"
      PROVE  inbox'[b][i].name # None
  <2>1. CASE b # a
    BY <1>1, <1>2, <1>6, <2>1 DEF TypeInv, ExecutorOK
  <2>2. CASE b = a
    <3>1. inbox'[a] = Tail(inbox[a])
      BY <1>1, <1>2
    <3>2. i + 1 \in DOMAIN inbox[a] /\ inbox'[a][i] = inbox[a][i + 1]
      BY <1>1, <1>6, <2>2, <3>1
    <3>3. QED BY <1>6, <2>2, <3>2 DEF TypeInv, ExecutorOK
  <2>3. QED BY <2>1, <2>2
<1>7. QED BY <1>1, <1>2, <1>4, <1>5, <1>6

LEMMA HandleCreateTypes == ASSUME TypeInv, NEW a \in Conns, handleCreateStream(a) PROVE TypeInv'
<1> DEFINE free == Ids!LowestClear(connReserved[a])
<1>1. Take(a, "createStream")
  BY DEF handleCreateStream
<1>2. /\ inbox' \in [Conns -> Seq(Message)]
      /\ \A b \in Conns : \A i \in DOMAIN inbox'[b] : inbox'[b][i].do = "publish" => inbox'[b][i].name # None
  BY <1>1, TakeTypes
<1>3. connReserved[a] \subseteq Nat /\ IsFiniteSet(connReserved[a])
  BY DEF TypeInv, TypeOK, ExecutorOK
<1>4. free \in Nat
  BY <1>3, FreeId
<1>5. IsFiniteSet(connReserved[a] \cup {free})
  BY <1>3, FS_AddElement
<1>6. connReserved' = [connReserved EXCEPT ![a] = connReserved[a] \cup {free}]
  BY DEF handleCreateStream
<1> HIDE DEF free
<1>7. TypeOK'
  <2>1. connReserved' \in [Conns -> SUBSET Nat]
    BY <1>3, <1>4, <1>6 DEF TypeInv, TypeOK
  <2>2. QED
    BY <1>2, <2>1 DEF TypeInv, TypeOK, handleCreateStream, Take, idVars, connVars, Ids!TypeOK
<1>8. ControlOK'
  BY DEF TypeInv, ControlOK, handleCreateStream, Take, connVars
<1>9. ExecutorOK'
  BY <1>2, <1>5, <1>6 DEF TypeInv, TypeOK, ExecutorOK
<1>10. QED BY <1>7, <1>8, <1>9 DEF TypeInv

LEMMA HandlePublishTypes == ASSUME TypeInv, NEW a \in Conns, handlePublish(a) PROVE TypeInv'
<1> DEFINE msg == Head(inbox[a])
           grown == [i \in DOMAIN mixedStreams[a] \cup {msg.id} |->
                       IF i = msg.id THEN msg.name ELSE mixedStreams[a][i]]
<1>1. Take(a, "publish")
  BY DEF handlePublish
<1>2. /\ inbox' \in [Conns -> Seq(Message)]
      /\ \A b \in Conns : \A i \in DOMAIN inbox'[b] : inbox'[b][i].do = "publish" => inbox'[b][i].name # None
      /\ msg \in Message /\ msg.name \in StreamNames
  BY <1>1, TakeTypes
<1>3. msg.id \in Nat
  BY <1>2 DEF Message
<1>4. \/ UNCHANGED <<mixedStreams, mixedProviders>>
      \/ /\ mixedStreams' = [mixedStreams EXCEPT ![a] = grown]
         /\ mixedProviders' = mixedProviders \cup {msg.name}
  BY DEF handlePublish
<1> HIDE DEF msg
<1>5. /\ mixedProviders' \subseteq StreamNames
      /\ mixedStreams' = [c \in Conns |-> mixedStreams'[c]]
      /\ \A c \in Conns : /\ DOMAIN mixedStreams'[c] \subseteq Nat
                          /\ mixedStreams'[c] \in [DOMAIN mixedStreams'[c] -> StreamNames]
  <2>1. CASE UNCHANGED <<mixedStreams, mixedProviders>>
    BY <2>1 DEF TypeInv, TypeOK
  <2>2. CASE /\ mixedStreams' = [mixedStreams EXCEPT ![a] = grown]
             /\ mixedProviders' = mixedProviders \cup {msg.name}
    <3>1. DOMAIN grown \subseteq Nat /\ grown \in [DOMAIN grown -> StreamNames]
      BY <1>2, <1>3 DEF TypeInv, TypeOK
    <3> HIDE DEF grown
    <3>2. mixedStreams = [c \in Conns |-> mixedStreams[c]]
      BY DEF TypeInv, TypeOK
    <3>3. mixedStreams' = [c \in Conns |-> IF c = a THEN grown ELSE mixedStreams[c]]
      BY <2>2, <3>2
    <3>4. mixedStreams' = [c \in Conns |-> mixedStreams'[c]]
      BY <3>3
    <3>5. \A c \in Conns : mixedStreams'[c] = IF c = a THEN grown ELSE mixedStreams[c]
      BY <3>3
    <3>6. QED BY <1>2, <2>2, <3>1, <3>4, <3>5 DEF TypeInv, TypeOK
  <2>3. QED BY <1>4, <2>1, <2>2
<1>6. TypeOK'
  BY <1>2, <1>5 DEF TypeInv, TypeOK, handlePublish, Take, idVars, connVars, Ids!TypeOK
<1>7. ControlOK'
  BY DEF TypeInv, ControlOK, handlePublish, Take, connVars
<1>8. ExecutorOK'
  BY <1>2 DEF TypeInv, ExecutorOK, handlePublish
<1>9. QED BY <1>6, <1>7, <1>8 DEF TypeInv

LEMMA HandleDeleteTypes == ASSUME TypeInv, NEW a \in Conns, handleDeleteStream(a) PROVE TypeInv'
<1> DEFINE id == Head(inbox[a]).id
           kept == [i \in DOMAIN mixedStreams[a] \ {id} |-> mixedStreams[a][i]]
           free == connReserved[a] \ {id - 1}
<1>1. Take(a, "deleteStream")
  BY DEF handleDeleteStream
<1>2. /\ inbox' \in [Conns -> Seq(Message)]
      /\ \A b \in Conns : \A i \in DOMAIN inbox'[b] : inbox'[b][i].do = "publish" => inbox'[b][i].name # None
  BY <1>1, TakeTypes
<1>3. /\ mixedStreams' = [mixedStreams EXCEPT ![a] = kept]
      /\ mixedProviders' \subseteq mixedProviders
      /\ connReserved' = [connReserved EXCEPT ![a] = free]
  BY DEF handleDeleteStream
<1>4. free \subseteq Nat /\ IsFiniteSet(free)
  BY FS_Subset DEF TypeInv, TypeOK, ExecutorOK
<1>5. DOMAIN kept \subseteq Nat /\ kept \in [DOMAIN kept -> StreamNames]
  BY DEF TypeInv, TypeOK
<1> HIDE DEF id, kept, free
<1>6. mixedStreams = [c \in Conns |-> mixedStreams[c]]
  BY DEF TypeInv, TypeOK
<1>7. mixedStreams' = [c \in Conns |-> IF c = a THEN kept ELSE mixedStreams[c]]
  BY <1>3, <1>6
<1>8. mixedStreams' = [c \in Conns |-> mixedStreams'[c]]
  BY <1>7
<1>9. \A c \in Conns : mixedStreams'[c] = IF c = a THEN kept ELSE mixedStreams[c]
  BY <1>7
<1>10. \A c \in Conns : /\ DOMAIN mixedStreams'[c] \subseteq Nat
                        /\ mixedStreams'[c] \in [DOMAIN mixedStreams'[c] -> StreamNames]
  BY <1>5, <1>9 DEF TypeInv, TypeOK
<1>11. connReserved' \in [Conns -> SUBSET Nat] /\ \A c \in Conns : IsFiniteSet(connReserved'[c])
  BY <1>3, <1>4 DEF TypeInv, TypeOK, ExecutorOK
<1>12. TypeOK'
  BY <1>2, <1>3, <1>8, <1>10, <1>11
     DEF TypeInv, TypeOK, handleDeleteStream, Take, idVars, connVars, Ids!TypeOK
<1>13. ControlOK'
  BY DEF TypeInv, ControlOK, handleDeleteStream, Take, connVars
<1>14. ExecutorOK'
  BY <1>2, <1>11 DEF ExecutorOK
<1>15. QED BY <1>12, <1>13, <1>14 DEF TypeInv

LEMMA TypesKept == ASSUME TypeInv, [Next]_vars PROVE TypeInv'
<1>1. CASE UNCHANGED vars
  BY <1>1 DEF TypeInv, TypeOK, ControlOK, ExecutorOK, vars, idVars, connVars, aioVars, Ids!TypeOK
<1>2. CASE Next
  <2>1. PICK c \in Conns : Client(c) \/ Thread(c) \/ Executor(c)
    BY <1>2 DEF Next
  <2>2. CASE Client(c)
    BY <2>2, SessionCreatedTypes, CloseTypes, PublishTypes DEF Client
  <2>3. CASE Thread(c)
    BY <2>3, TryToCreateTypes, RegisterTypes, CreateMixedTypes, PostCreateTypes, PostPublishTypes,
       DeleteMixedTypes, PostDeleteTypes, ClosedTypes DEF Thread
  <2>4. CASE Executor(c)
    BY <2>4, HandleCreateTypes, HandlePublishTypes, HandleDeleteTypes DEF Executor
  <2>5. QED BY <2>1, <2>2, <2>3, <2>4
<1>3. QED BY <1>1, <1>2

LEMMA TypesHold == Spec => []TypeInv
<1>1. QED BY TypesAtStart, TypesKept, PTL DEF Spec

(* The variables of the server keep their types, also when clients come and go  *)
(* at the same time and are closed by another thread: whoever posts to the     *)
(* all-in-one connection finds its session, whoever makes a mixed stream has   *)
(* a name for it, and the scans for a free id end (GroupMixer.java:95-109).    *)
THEOREM TypeCorrect == Spec => []TypeOK
<1>1. TypeInv => TypeOK
  BY DEF TypeInv
<1>2. QED BY <1>1, TypesHold, PTL

-----------------------------------------------------------------------------
(* From here on: one client comes or goes at a time, and none publishes under   *)
(* a name of the server's own streams.                                        *)
ClientsTakeTurns == Serial /\ ClientNames \cap SystemNameSet = {}

(* One client comes or goes at a time.                                        *)
Busy(c) == closing[c] # "no" \/ pc[c] \notin {"absent", "idle", "live"}

OneAtATime ==
  /\ \A c, d \in Conns : Busy(c) /\ Busy(d) => c = d
  /\ \A c \in Conns : closing[c] # "no" => pc[c] = "live"
  /\ \A c \in Conns : IF allInOneSessionId = None THEN pc[c] \in {"absent", "boot"} ELSE pc[c] # "boot"

(* The names: who has one, that no two have the same, and what is to be made.  *)
OfTheServer(names) ==
  \A i, j \in DOMAIN names : names[i] \in SystemNameSet /\ (names[i] = names[j] => i = j)

NamesKept ==
  \A c \in Conns :
    /\ pc[c] \in {"absent", "boot", "idle"} => publisherStreamName[c] = None
    /\ pc[c] = "live" => publisherStreamName[c] # None
    /\ pc[c] \in Making => \/ publisherStreamName[c] # None /\ todo[c] = <<publisherStreamName[c]>>
                           \/ publisherStreamName[c] = None /\ OfTheServer(todo[c])
    /\ \A d \in Conns :
         publisherStreamName[c] # None /\ publisherStreamName[c] = publisherStreamName[d] => c = d

ProvidersKept ==
  \A n \in ClientNames, c \in Conns :
    c \in providers[n] <=> /\ publisherStreamName[c] = n
                           /\ pc[c] \in Making \cup {"live"} /\ closing[c] = "no"

(* What the table maps: the streams of the server that are made, and a name     *)
(* from its entry until that is deleted.                                   *)
Left(c) == {todo[c][i] : i \in (IF pc[c] = "reserve" THEN 1 ELSE 2) .. Len(todo[c])}
Missing(n) == \E c \in Conns : pc[c] \in Making /\ publisherStreamName[c] = None /\ n \in Left(c)
Holds(c) ==
  /\ publisherStreamName[c] # None
  /\ pc[c] \in {"create", "publish"} \/ (pc[c] = "live" /\ closing[c] \in {"no", "entry"})

TableKept ==
  /\ \A n \in StreamNames :
       n \in Ids!Mapped <=>
         \/ allInOneSessionId # None /\ n \in SystemNameSet /\ ~Missing(n)
         \/ \E c \in Conns : Holds(c) /\ publisherStreamName[c] = n
  /\ \A b \in Nat : b \in reservedStreams <=> \E n \in Ids!Mapped : groupMappingTable[n].streamId = b + 1
  /\ Ids!StreamIdsUnique

(* What a thread has in hand.                                                 *)
InHand ==
  \A c \in Conns :
    /\ pc[c] \in {"create", "publish"} => /\ Head(todo[c]) \in Ids!Mapped
                                          /\ groupMappingTable[Head(todo[c])].streamId = newStreamId[c]
    /\ pc[c] = "create" => newStreamId[c] - 1 = Ids!LowestClear(reservedStreams \ {newStreamId[c] - 1})
    /\ closing[c] = "message" => /\ publisherStreamName[c] \notin Ids!Mapped
                                 /\ oldStreamId[c] # 0 /\ oldStreamId[c] - 1 \notin reservedStreams

(* What the all-in-one connection is going to have when its executor is through  *)
(* with the messages that are there.                                        *)
View == [reserved : SUBSET Nat, on : SUBSET (Nat \X StreamNames), names : SUBSET StreamNames]

Now(a) == [reserved |-> connReserved[a],
           on       |-> {<<i, mixedStreams[a][i]>> : i \in DOMAIN mixedStreams[a]},
           names    |-> mixedProviders]

Accepted(m, s) ==
  /\ m.name \notin s.names
  /\ m.id - 1 \in s.reserved \/ \E n \in StreamNames : <<m.id, n>> \in s.on

Handled(m, s, t) ==
  \/ /\ m.do = "createStream"
     /\ t.reserved = s.reserved \cup {Ids!LowestClear(s.reserved)}
     /\ t.on = s.on /\ t.names = s.names
  \/ /\ m.do = "publish" /\ Accepted(m, s)
     /\ t.reserved = s.reserved
     /\ t.on = {p \in s.on : p[1] # m.id} \cup {<<m.id, m.name>>}
     /\ t.names = s.names \cup {m.name}
  \/ m.do = "publish" /\ ~Accepted(m, s) /\ t = s
  \/ /\ m.do = "deleteStream"
     /\ t.reserved = s.reserved \ {m.id - 1}
     /\ t.on = {p \in s.on : p[1] # m.id}
     /\ t.names = {n \in s.names : <<m.id, n>> \notin s.on}

Leads(q, s, e) ==
  \E v \in [Nat -> View] :
    /\ v[0] = s /\ v[Len(q)] = e
    /\ \A i \in 1 .. Len(q) : Handled(q[i], v[i - 1], v[i])

(* That is the streams of the table, less the one being made, and the one whose  *)
(* entry is deleted and whose message is not yet posted.                     *)
BeingMade(n)     == \E c \in Conns : pc[c] \in {"create", "publish"} /\ n = Head(todo[c])
BeingLost(id, n) == \E c \in Conns : closing[c] = "message" /\ n = publisherStreamName[c] /\ id = oldStreamId[c]

JustReserved(b)  == \E c \in Conns : pc[c] = "create" /\ b = newStreamId[c] - 1
ToFree(b)        == \E c \in Conns : closing[c] = "message" /\ b = oldStreamId[c] - 1

Ahead(e) ==
  /\ \A id \in Nat, n \in StreamNames :
       <<id, n>> \in e.on <=> \/ n \in Ids!Mapped /\ id = groupMappingTable[n].streamId /\ ~BeingMade(n)
                              \/ BeingLost(id, n)
  /\ \A n \in StreamNames : n \in e.names <=> \/ n \in Ids!Mapped /\ ~BeingMade(n)
                                              \/ \E id \in Nat : BeingLost(id, n)
  /\ \A b \in Nat : b \in e.reserved <=> \/ b \in reservedStreams /\ ~JustReserved(b)
                                         \/ ToFree(b)

Foreseen ==
  IF allInOneSessionId = None
  THEN /\ \A c \in Conns : inbox[c] = <<>> /\ connReserved[c] = {} /\ DOMAIN mixedStreams[c] = {}
       /\ mixedProviders = {}
  ELSE /\ \A c \in Conns : c # allInOneSessionId => inbox[c] = <<>>
       /\ \E e \in View : Leads(inbox[allInOneSessionId], Now(allInOneSessionId), e) /\ Ahead(e)

SerialInv == TypeInv /\ OneAtATime /\ NamesKept /\ ProvidersKept /\ TableKept /\ InHand /\ Foreseen

-----------------------------------------------------------------------------
(* One at a time, with names and providers: action by action.                  *)
ControlInv == OneAtATime /\ NamesKept /\ ProvidersKept

LEMMA SessionCreatedControl ==
  ASSUME ClientsTakeTurns, SerialInv, NEW c \in Conns, sessionCreated(c) PROVE ControlInv'
<1>1. OneAtATime'
  BY DEF SerialInv, TypeInv, TypeOK, ControlOK, OneAtATime, Busy, MayStart, ThreadsAtRest, ClientsTakeTurns, Making, sessionCreated
<1>2. NamesKept'
  BY DEF SerialInv, TypeInv, TypeOK, ControlOK, OneAtATime, Busy, NamesKept, MayStart, ThreadsAtRest, ClientsTakeTurns, Making, sessionCreated
<1>3. ProvidersKept'
  BY DEF SerialInv, TypeInv, TypeOK, ControlOK, OneAtATime, Busy, NamesKept, ProvidersKept, MayStart, ThreadsAtRest, ClientsTakeTurns, Making, sessionCreated
<1>4. QED BY <1>1, <1>2, <1>3 DEF ControlInv

LEMMA TryToCreateControl ==
  ASSUME ClientsTakeTurns, SerialInv, NEW c \in Conns, tryToCreateAllInOneConn(c) PROVE ControlInv'
<1>0. /\ pc[c] = "boot" /\ pc' = [pc EXCEPT ![c] = "reserve"] /\ allInOneSessionId' = c /\ c # None
      /\ todo' = [todo EXCEPT ![c] = SystemNames]
      /\ UNCHANGED <<providers, closing, publisherStreamName>>
      /\ closing[c] = "no" /\ publisherStreamName[c] = None
  BY NoneAssumption DEF SerialInv, OneAtATime, NamesKept, tryToCreateAllInOneConn
<1>1. OneAtATime'
  BY <1>0 DEF SerialInv, TypeInv, TypeOK, OneAtATime, Busy
<1>2. NamesKept'
  <2>1. OfTheServer(SystemNames)
    BY SystemNamesAssumption DEF OfTheServer, SystemNameSet
  <2>2. todo'[c] = SystemNames /\ pc'[c] = "reserve" /\ publisherStreamName'[c] = None
    BY <1>0 DEF SerialInv, TypeInv, TypeOK
  <2>3. \A d \in Conns : d # c => todo'[d] = todo[d] /\ pc'[d] = pc[d]
    BY <1>0 DEF SerialInv, TypeInv, TypeOK
  <2>4. QED BY <1>0, <2>1, <2>2, <2>3 DEF SerialInv, NamesKept, OfTheServer
<1>3. ProvidersKept'
  BY <1>0, NoneAssumption DEF SerialInv, TypeInv, TypeOK, ProvidersKept, Making
<1>4. QED BY <1>1, <1>2, <1>3 DEF ControlInv

LEMMA PublishControl ==
  ASSUME ClientsTakeTurns, SerialInv, NEW c \in Conns, NEW n \in ClientNames, publish(c, n) PROVE ControlInv'
<1>1. OneAtATime'
  BY DEF SerialInv, TypeInv, TypeOK, ControlOK, OneAtATime, Busy, MayStart, ThreadsAtRest, ClientsTakeTurns, Making, publish
<1>2. NamesKept'
  <2>1. /\ pc[c] = "idle" /\ pc' = [pc EXCEPT ![c] = "checked"] /\ providers[n] = {}
        /\ publisherStreamName' = [publisherStreamName EXCEPT ![c] = n]
        /\ \A d \in Conns : closing[d] = "no" /\ pc[d] \in {"absent", "idle", "live"}
        /\ UNCHANGED todo
    BY DEF publish, MayStart, ThreadsAtRest, ClientsTakeTurns
  <2>2. \A d \in Conns : publisherStreamName[d] # n
    BY <2>1, NoneAssumption DEF SerialInv, NamesKept, ProvidersKept
  <2>3. /\ pc'[c] = "checked" /\ publisherStreamName'[c] = n /\ n # None
        /\ \A d \in Conns : d # c => pc'[d] = pc[d] /\ publisherStreamName'[d] = publisherStreamName[d]
    BY <2>1, NoneAssumption DEF SerialInv, TypeInv, TypeOK
  <2>4. QED BY <2>1, <2>2, <2>3 DEF SerialInv, NamesKept, Making
<1>3. ProvidersKept'
  BY DEF SerialInv, TypeInv, TypeOK, ControlOK, OneAtATime, Busy, NamesKept, ProvidersKept, MayStart, ThreadsAtRest, ClientsTakeTurns, Making, publish
<1>4. QED BY <1>1, <1>2, <1>3 DEF ControlInv

LEMMA RegisterControl ==
  ASSUME ClientsTakeTurns, SerialInv, NEW c \in Conns, registerBroadcastStream(c) PROVE ControlInv'
<1>0. /\ pc[c] = "checked" /\ pc' = [pc EXCEPT ![c] = "reserve"]
      /\ todo' = [todo EXCEPT ![c] = <<publisherStreamName[c]>>]
      /\ providers' = [providers EXCEPT ![publisherStreamName[c]] = @ \cup {c}]
      /\ UNCHANGED <<closing, publisherStreamName, allInOneSessionId>>
      /\ closing[c] = "no" /\ publisherStreamName[c] \in ClientNames /\ publisherStreamName[c] # None
  BY DEF SerialInv, TypeInv, TypeOK, ControlOK, OneAtATime, registerBroadcastStream
<1>1. OneAtATime'
  BY <1>0 DEF SerialInv, TypeInv, TypeOK, OneAtATime, Busy
<1>2. NamesKept'
  <2>1. todo'[c] = <<publisherStreamName[c]>> /\ pc'[c] = "reserve"
    BY <1>0 DEF SerialInv, TypeInv, TypeOK
  <2>2. \A d \in Conns : d # c => todo'[d] = todo[d] /\ pc'[d] = pc[d]
    BY <1>0 DEF SerialInv, TypeInv, TypeOK
  <2>3. QED BY <1>0, <2>1, <2>2 DEF SerialInv, NamesKept, OfTheServer
<1>3. ProvidersKept'
  BY <1>0 DEF SerialInv, TypeInv, TypeOK, NamesKept, ProvidersKept, Making
<1>4. QED BY <1>1, <1>2, <1>3 DEF ControlInv

LEMMA CreateMixedControl ==
  ASSUME ClientsTakeTurns, SerialInv, NEW c \in Conns, createMixedStream(c) PROVE ControlInv'
<1>1. OneAtATime'
  BY DEF SerialInv, TypeInv, TypeOK, ControlOK, OneAtATime, Busy, MayStart, ThreadsAtRest, ClientsTakeTurns, Making, createMixedStream
<1>2. NamesKept'
  BY DEF SerialInv, TypeInv, TypeOK, ControlOK, OneAtATime, Busy, NamesKept, MayStart, ThreadsAtRest, ClientsTakeTurns, Making, createMixedStream
<1>3. ProvidersKept'
  BY DEF SerialInv, TypeInv, TypeOK, ControlOK, OneAtATime, Busy, NamesKept, ProvidersKept, MayStart, ThreadsAtRest, ClientsTakeTurns, Making, createMixedStream
<1>4. QED BY <1>1, <1>2, <1>3 DEF ControlInv

LEMMA PostCreateControl ==
  ASSUME ClientsTakeTurns, SerialInv, NEW c \in Conns, postCreateStream(c) PROVE ControlInv'
<1>1. OneAtATime'
  BY DEF SerialInv, TypeInv, TypeOK, ControlOK, OneAtATime, Busy, MayStart, ThreadsAtRest, ClientsTakeTurns, Making, postCreateStream
<1>2. NamesKept'
  BY DEF SerialInv, TypeInv, TypeOK, ControlOK, OneAtATime, Busy, NamesKept, MayStart, ThreadsAtRest, ClientsTakeTurns, Making, postCreateStream
<1>3. ProvidersKept'
  BY DEF SerialInv, TypeInv, TypeOK, ControlOK, OneAtATime, Busy, NamesKept, ProvidersKept, MayStart, ThreadsAtRest, ClientsTakeTurns, Making, postCreateStream
<1>4. QED BY <1>1, <1>2, <1>3 DEF ControlInv

LEMMA PostPublishControl ==
  ASSUME ClientsTakeTurns, SerialInv, NEW c \in Conns, postPublish(c) PROVE ControlInv'
<1>0. /\ pc[c] = "publish" /\ closing[c] = "no"
      /\ todo' = [todo EXCEPT ![c] = Tail(todo[c])]
      /\ pc' = [pc EXCEPT ![c] = IF Len(todo[c]) > 1 THEN "reserve"
                                 ELSE IF publisherStreamName[c] = None THEN "idle" ELSE "live"]
      /\ UNCHANGED <<providers, closing, publisherStreamName, allInOneSessionId>>
      /\ todo[c] \in Seq(StreamNames) /\ todo[c] # <<>>
  BY DEF SerialInv, TypeInv, TypeOK, ControlOK, OneAtATime, Making, postPublish
<1>1. /\ pc'[c] = IF Len(todo[c]) > 1 THEN "reserve"
                   ELSE IF publisherStreamName[c] = None THEN "idle" ELSE "live"
      /\ todo'[c] = Tail(todo[c])
      /\ \A d \in Conns : d # c => todo'[d] = todo[d] /\ pc'[d] = pc[d]
  BY <1>0 DEF SerialInv, TypeInv, TypeOK
<1>2. OneAtATime'
  BY <1>0, <1>1 DEF SerialInv, OneAtATime, Busy
<1>3. NamesKept'
  <2>1. CASE publisherStreamName[c] = None
    <3>1. OfTheServer(todo[c])
      BY <1>0, <2>1 DEF SerialInv, NamesKept, Making
    <3>2. \A i \in DOMAIN Tail(todo[c]) : i + 1 \in DOMAIN todo[c] /\ Tail(todo[c])[i] = todo[c][i + 1]
      BY <1>0
    <3>3. OfTheServer(Tail(todo[c]))
      <4>1. DOMAIN Tail(todo[c]) \subseteq Nat
        BY <1>0
      <4> DEFINE t == Tail(todo[c])
      <4>2. ASSUME NEW i \in DOMAIN t, NEW j \in DOMAIN t
            PROVE  t[i] \in SystemNameSet /\ (t[i] = t[j] => i = j)
        <5>1. i + 1 = j + 1 => i = j
          BY <4>1
        <5>2. QED BY <3>1, <3>2, <5>1 DEF OfTheServer
      <4>3. QED BY <4>2 DEF OfTheServer
    <3>4. pc'[c] \in {"reserve", "idle"} /\ publisherStreamName'[c] = None
      BY <1>0, <1>1, <2>1
    <3>5. QED BY <1>0, <1>1, <3>3, <3>4 DEF SerialInv, NamesKept
  <2>2. CASE publisherStreamName[c] # None
    <3>1. todo[c] = <<publisherStreamName[c]>>
      BY <1>0, <2>2 DEF SerialInv, NamesKept, Making
    <3>2. pc'[c] = "live"
      BY <1>1, <2>2, <3>1
    <3>3. QED BY <1>0, <1>1, <2>2, <3>2 DEF SerialInv, NamesKept, OfTheServer, Making
  <2>3. QED BY <2>1, <2>2
<1>4. ProvidersKept'
  <2>1. pc'[c] \in Making \cup {"live"} <=> publisherStreamName[c] # None \/ pc'[c] = "reserve"
    BY <1>1 DEF Making
  <2>2. \A n \in ClientNames : n # None
    BY NoneAssumption
  <2>3. QED BY <1>0, <1>1, <2>1, <2>2 DEF SerialInv, ProvidersKept, Making
<1>5. QED BY <1>2, <1>3, <1>4 DEF ControlInv

LEMMA CloseControl ==
  ASSUME ClientsTakeTurns, SerialInv, NEW c \in Conns, closeStream(c) PROVE ControlInv'
<1>1. OneAtATime'
  BY DEF SerialInv, TypeInv, TypeOK, ControlOK, OneAtATime, Busy, MayStart, ThreadsAtRest, ClientsTakeTurns, Making, closeStream
<1>2. NamesKept'
  BY DEF SerialInv, TypeInv, TypeOK, ControlOK, OneAtATime, Busy, NamesKept, MayStart, ThreadsAtRest, ClientsTakeTurns, Making, closeStream
<1>3. ProvidersKept'
  BY DEF SerialInv, TypeInv, TypeOK, ControlOK, OneAtATime, Busy, NamesKept, ProvidersKept, MayStart, ThreadsAtRest, ClientsTakeTurns, Making, closeStream
<1>4. QED BY <1>1, <1>2, <1>3 DEF ControlInv

LEMMA DeleteMixedControl ==
  ASSUME ClientsTakeTurns, SerialInv, NEW c \in Conns, deleteMixedStream(c) PROVE ControlInv'
<1>1. OneAtATime'
  BY DEF SerialInv, TypeInv, TypeOK, ControlOK, OneAtATime, Busy, MayStart, ThreadsAtRest, ClientsTakeTurns, Making, deleteMixedStream
<1>2. NamesKept'
  BY DEF SerialInv, TypeInv, TypeOK, ControlOK, OneAtATime, Busy, NamesKept, MayStart, ThreadsAtRest, ClientsTakeTurns, Making, deleteMixedStream
<1>3. ProvidersKept'
  BY DEF SerialInv, TypeInv, TypeOK, ControlOK, OneAtATime, Busy, NamesKept, ProvidersKept, MayStart, ThreadsAtRest, ClientsTakeTurns, Making, deleteMixedStream
<1>4. QED BY <1>1, <1>2, <1>3 DEF ControlInv

LEMMA PostDeleteControl ==
  ASSUME ClientsTakeTurns, SerialInv, NEW c \in Conns, postDeleteStream(c) PROVE ControlInv'
<1>1. OneAtATime'
  BY DEF SerialInv, TypeInv, TypeOK, ControlOK, OneAtATime, Busy, MayStart, ThreadsAtRest, ClientsTakeTurns, Making, postDeleteStream
<1>2. NamesKept'
  BY DEF SerialInv, TypeInv, TypeOK, ControlOK, OneAtATime, Busy, NamesKept, MayStart, ThreadsAtRest, ClientsTakeTurns, Making, postDeleteStream
<1>3. ProvidersKept'
  BY DEF SerialInv, TypeInv, TypeOK, ControlOK, OneAtATime, Busy, NamesKept, ProvidersKept, MayStart, ThreadsAtRest, ClientsTakeTurns, Making, postDeleteStream
<1>4. QED BY <1>1, <1>2, <1>3 DEF ControlInv

LEMMA ClosedControl ==
  ASSUME ClientsTakeTurns, SerialInv, NEW c \in Conns, closed(c) PROVE ControlInv'
<1>1. OneAtATime'
  BY DEF SerialInv, TypeInv, TypeOK, ControlOK, OneAtATime, Busy, MayStart, ThreadsAtRest, ClientsTakeTurns, Making, closed
<1>2. NamesKept'
  BY DEF SerialInv, TypeInv, TypeOK, ControlOK, OneAtATime, Busy, NamesKept, MayStart, ThreadsAtRest, ClientsTakeTurns, Making, closed
<1>3. ProvidersKept'
  BY DEF SerialInv, TypeInv, TypeOK, ControlOK, OneAtATime, Busy, NamesKept, ProvidersKept, MayStart, ThreadsAtRest, ClientsTakeTurns, Making, closed
<1>4. QED BY <1>1, <1>2, <1>3 DEF ControlInv

-----------------------------------------------------------------------------
(* The table, and what the threads have in hand, action by action.             *)
TableInv == TableKept /\ InHand

(* A step that leaves the table alone, and what a thread holds and has yet to     *)
(* make.                                                                     *)
LEMMA SameTable ==
  ASSUME TableKept, UNCHANGED idVars,
         \A n \in StreamNames :
           \/ n \in SystemNameSet /\ allInOneSessionId = None /\ (allInOneSessionId' = None \/ Missing(n)')
           \/ UNCHANGED allInOneSessionId /\ (n \in SystemNameSet => (Missing(n)' <=> Missing(n)))
           \/ n \notin SystemNameSet,
         \A d \in Conns : /\ Holds(d)' <=> Holds(d)
                          /\ Holds(d) => publisherStreamName'[d] = publisherStreamName[d]
  PROVE  TableKept'
<1>1. \A n \in StreamNames :
        (allInOneSessionId # None /\ n \in SystemNameSet /\ ~Missing(n))'
          <=> (allInOneSessionId # None /\ n \in SystemNameSet /\ ~Missing(n))
  BY DEF SystemNameSet
<1>2. \A n \in StreamNames :
        (\E c \in Conns : Holds(c) /\ publisherStreamName[c] = n)'
          <=> (\E c \in Conns : Holds(c) /\ publisherStreamName[c] = n)
  OBVIOUS
<1>3. groupMappingTable' = groupMappingTable /\ reservedStreams' = reservedStreams
  BY DEF idVars
<1>4. (\A n \in StreamNames :
         n \in Ids!Mapped <=>
           \/ allInOneSessionId # None /\ n \in SystemNameSet /\ ~Missing(n)
           \/ \E c \in Conns : Holds(c) /\ publisherStreamName[c] = n)'
  BY <1>1, <1>2, <1>3 DEF TableKept
<1>5. Ids!StreamIdsUnique'
  BY <1>3 DEF TableKept, Ids!StreamIdsUnique
<1>6. QED BY <1>3, <1>4, <1>5 DEF TableKept

LEMMA SessionCreatedTable == ASSUME SerialInv, NEW c \in Conns, sessionCreated(c) PROVE TableInv'
<1>1. /\ pc[c] = "absent" /\ pc' = [pc EXCEPT ![c] = IF allInOneSessionId = None THEN "boot" ELSE "idle"]
      /\ UNCHANGED <<idVars, allInOneSessionId, todo, publisherStreamName, newStreamId, oldStreamId, closing>>
  BY DEF sessionCreated
<1>2. pc'[c] \in {"boot", "idle"} /\ \A d \in Conns : d # c => pc'[d] = pc[d]
  BY <1>1 DEF SerialInv, TypeInv, TypeOK
<1>3. \A n \in StreamNames : Missing(n)' <=> Missing(n)
  BY <1>1, <1>2 DEF Missing, Left, Making
<1>4. \A d \in Conns : Holds(d)' <=> Holds(d)
  BY <1>1, <1>2 DEF Holds
<1>5. TableKept'
  BY <1>1, <1>3, <1>4, SameTable DEF SerialInv
<1>6. InHand'
  BY <1>1, <1>2 DEF SerialInv, InHand, idVars
<1>7. QED BY <1>5, <1>6 DEF TableInv

LEMMA TryToCreateTable == ASSUME SerialInv, NEW c \in Conns, tryToCreateAllInOneConn(c) PROVE TableInv'
<1>1. /\ pc[c] = "boot" /\ pc' = [pc EXCEPT ![c] = "reserve"] /\ allInOneSessionId = None
      /\ todo' = [todo EXCEPT ![c] = SystemNames] /\ closing[c] = "no" /\ publisherStreamName[c] = None
      /\ UNCHANGED <<idVars, publisherStreamName, newStreamId, oldStreamId, closing>>
  BY DEF tryToCreateAllInOneConn, SerialInv, OneAtATime, NamesKept
<1>2. /\ pc'[c] = "reserve" /\ todo'[c] = SystemNames
      /\ \A d \in Conns : d # c => pc'[d] = pc[d] /\ todo'[d] = todo[d]
  BY <1>1 DEF SerialInv, TypeInv, TypeOK
<1>3. \A n \in SystemNameSet : Missing(n)'
  <2>1. Left(c)' = SystemNameSet
    BY <1>2, SystemNamesAssumption DEF Left, SystemNameSet
  <2>2. QED BY <1>1, <1>2, <2>1 DEF Missing, Making
<1>4. \A d \in Conns : Holds(d)' <=> Holds(d)
  BY <1>1, <1>2 DEF Holds
<1>5. TableKept'
  BY <1>1, <1>3, <1>4, SameTable DEF SerialInv
<1>6. InHand'
  BY <1>1, <1>2 DEF SerialInv, InHand, idVars
<1>7. QED BY <1>5, <1>6 DEF TableInv

LEMMA PublishTable ==
  ASSUME SerialInv, NEW c \in Conns, NEW n \in ClientNames, publish(c, n) PROVE TableInv'
<1>1. /\ pc[c] = "idle" /\ pc' = [pc EXCEPT ![c] = "checked"] /\ closing[c] = "no"
      /\ publisherStreamName' = [publisherStreamName EXCEPT ![c] = n]
      /\ UNCHANGED <<idVars, allInOneSessionId, todo, newStreamId, oldStreamId, closing>>
  BY DEF publish, SerialInv, OneAtATime
<1>2. /\ pc'[c] = "checked"
      /\ \A d \in Conns : d # c => pc'[d] = pc[d] /\ publisherStreamName'[d] = publisherStreamName[d]
  BY <1>1 DEF SerialInv, TypeInv, TypeOK
<1>3. \A k \in StreamNames : Missing(k)' <=> Missing(k)
  BY <1>1, <1>2 DEF Missing, Left, Making
<1>4. \A d \in Conns : /\ Holds(d)' <=> Holds(d)
                       /\ Holds(d) => publisherStreamName'[d] = publisherStreamName[d]
  BY <1>1, <1>2 DEF Holds
<1>5. TableKept'
  BY <1>1, <1>3, <1>4, SameTable DEF SerialInv
<1>6. InHand'
  BY <1>1, <1>2 DEF SerialInv, InHand, idVars
<1>7. QED BY <1>5, <1>6 DEF TableInv

LEMMA RegisterTable == ASSUME SerialInv, NEW c \in Conns, registerBroadcastStream(c) PROVE TableInv'
<1>1. /\ pc[c] = "checked" /\ pc' = [pc EXCEPT ![c] = "reserve"] /\ publisherStreamName[c] # None
      /\ todo' = [todo EXCEPT ![c] = <<publisherStreamName[c]>>] /\ closing[c] = "no"
      /\ UNCHANGED <<idVars, allInOneSessionId, publisherStreamName, newStreamId, oldStreamId, closing>>
  BY DEF registerBroadcastStream, SerialInv, TypeInv, ControlOK, OneAtATime
<1>2. pc'[c] = "reserve" /\ \A d \in Conns : d # c => pc'[d] = pc[d] /\ todo'[d] = todo[d]
  BY <1>1 DEF SerialInv, TypeInv, TypeOK
<1>3. \A k \in StreamNames : Missing(k)' <=> Missing(k)
  BY <1>1, <1>2 DEF Missing, Left, Making
<1>4. \A d \in Conns : Holds(d)' <=> Holds(d)
  BY <1>1, <1>2 DEF Holds
<1>5. TableKept'
  BY <1>1, <1>3, <1>4, SameTable DEF SerialInv
<1>6. InHand'
  BY <1>1, <1>2 DEF SerialInv, InHand, idVars
<1>7. QED BY <1>5, <1>6 DEF TableInv

LEMMA PostCreateTable == ASSUME SerialInv, NEW c \in Conns, postCreateStream(c) PROVE TableInv'
<1>1. /\ pc[c] = "create" /\ pc' = [pc EXCEPT ![c] = "publish"]
      /\ UNCHANGED <<idVars, allInOneSessionId, todo, publisherStreamName, newStreamId, oldStreamId, closing>>
  BY DEF postCreateStream
<1>2. pc'[c] = "publish" /\ \A d \in Conns : d # c => pc'[d] = pc[d]
  BY <1>1 DEF SerialInv, TypeInv, TypeOK
<1>3. \A k \in StreamNames : Missing(k)' <=> Missing(k)
  BY <1>1, <1>2 DEF Missing, Left, Making
<1>4. \A d \in Conns : Holds(d)' <=> Holds(d)
  BY <1>1, <1>2 DEF Holds
<1>5. TableKept'
  BY <1>1, <1>3, <1>4, SameTable DEF SerialInv
<1>6. InHand'
  BY <1>1, <1>2 DEF SerialInv, InHand, idVars
<1>7. QED BY <1>5, <1>6 DEF TableInv

LEMMA PostPublishTable == ASSUME SerialInv, NEW c \in Conns, postPublish(c) PROVE TableInv'
<1>1. /\ pc[c] = "publish" /\ closing[c] = "no"
      /\ todo' = [todo EXCEPT ![c] = Tail(todo[c])]
      /\ pc' = [pc EXCEPT ![c] = IF Len(todo[c]) > 1 THEN "reserve"
                                 ELSE IF publisherStreamName[c] = None THEN "idle" ELSE "live"]
      /\ UNCHANGED <<idVars, closing, publisherStreamName, allInOneSessionId, newStreamId, oldStreamId>>
      /\ todo[c] \in Seq(StreamNames) /\ todo[c] # <<>>
  BY DEF SerialInv, TypeInv, TypeOK, ControlOK, OneAtATime, Making, postPublish
<1>2. /\ pc'[c] = IF Len(todo[c]) > 1 THEN "reserve"
                  ELSE IF publisherStreamName[c] = None THEN "idle" ELSE "live"
      /\ todo'[c] = Tail(todo[c])
      /\ \A d \in Conns : d # c => todo'[d] = todo[d] /\ pc'[d] = pc[d]
  BY <1>1 DEF SerialInv, TypeInv, TypeOK
<1>3. \A k \in StreamNames : Missing(k)' <=> Missing(k)
  <2>1. CASE publisherStreamName[c] # None
    BY <1>1, <1>2, <2>1 DEF Missing, Left
  <2>2. CASE publisherStreamName[c] = None /\ Len(todo[c]) > 1
    <3>1. Left(c)' = Left(c)
      <4>1. Left(c)' = {Tail(todo[c])[i] : i \in 1 .. Len(Tail(todo[c]))}
        BY <1>2, <2>2 DEF Left
      <4>2. Left(c) = {todo[c][i] : i \in 2 .. Len(todo[c])}
        BY <1>1 DEF Left
      <4>3. /\ Len(Tail(todo[c])) = Len(todo[c]) - 1 /\ Len(todo[c]) \in Nat
            /\ \A i \in 1 .. Len(todo[c]) - 1 : Tail(todo[c])[i] = todo[c][i + 1]
        BY <1>1
      <4>4. ASSUME NEW i \in 2 .. Len(todo[c])
            PROVE  i - 1 \in 1 .. Len(todo[c]) - 1 /\ Tail(todo[c])[i - 1] = todo[c][i]
        <5>1. i - 1 \in 1 .. Len(todo[c]) - 1 /\ (i - 1) + 1 = i
          BY <4>3
        <5>2. Tail(todo[c])[i - 1] = todo[c][(i - 1) + 1]
          BY <4>3, <5>1
        <5>3. QED BY <5>1, <5>2
      <4>5. ASSUME NEW i \in 1 .. Len(todo[c]) - 1
            PROVE  i + 1 \in 2 .. Len(todo[c]) /\ Tail(todo[c])[i] = todo[c][i + 1]
        BY <4>3
      <4>6. QED BY <4>1, <4>2, <4>3, <4>4, <4>5
    <3>2. \A d \in Conns : d # c => Left(d)' = Left(d)
      BY <1>2 DEF Left
    <3>3. pc'[c] = "reserve"
      BY <1>2, <2>2
    <3>4. QED BY <1>1, <1>2, <3>1, <3>2, <3>3 DEF Missing, Making
  <2>3. CASE publisherStreamName[c] = None /\ ~(Len(todo[c]) > 1)
    <3>1. Left(c) = {}
      <4>1. Len(todo[c]) \in Nat /\ 2 .. Len(todo[c]) = {}
        BY <1>1, <2>3
      <4>2. QED BY <1>1, <4>1 DEF Left
    <3>2. \A d \in Conns : d # c => Left(d)' = Left(d)
      BY <1>2 DEF Left
    <3>3. pc'[c] = "idle"
      BY <1>2, <2>3
    <3>4. QED BY <1>1, <1>2, <3>1, <3>2, <3>3 DEF Missing, Making
  <2>4. QED BY <2>1, <2>2, <2>3
<1>4. \A d \in Conns : Holds(d)' <=> Holds(d)
  <2>1. publisherStreamName[c] # None => pc'[c] = "live"
    <3>1. SUFFICES ASSUME publisherStreamName[c] # None PROVE pc'[c] = "live"
      OBVIOUS
    <3>2. todo[c] = <<publisherStreamName[c]>>
      BY <1>1, <3>1 DEF SerialInv, NamesKept, Making
    <3>3. Len(todo[c]) = 1
      BY <3>2
    <3>4. ~(Len(todo[c]) > 1)
      BY <3>3
    <3>5. QED BY <1>2, <3>1, <3>4
  <2>2. QED BY <1>1, <1>2, <2>1 DEF Holds
<1>5. TableKept'
  BY <1>1, <1>3, <1>4, SameTable DEF SerialInv
<1>6. InHand'
  <2>1. pc'[c] \notin {"create", "publish"}
    BY <1>2
  <2>2. QED BY <1>1, <1>2, <2>1 DEF SerialInv, InHand, idVars
<1>7. QED BY <1>5, <1>6 DEF TableInv

LEMMA CloseTable == ASSUME ClientsTakeTurns, SerialInv, NEW c \in Conns, closeStream(c) PROVE TableInv'
<1>1. /\ pc[c] = "live" /\ closing[c] = "no" /\ closing' = [closing EXCEPT ![c] = "entry"]
      /\ UNCHANGED <<idVars, pc, todo, publisherStreamName, allInOneSessionId, newStreamId, oldStreamId>>
  BY DEF closeStream, MayStart, ThreadsAtRest, ClientsTakeTurns
<1>2. closing'[c] = "entry" /\ \A d \in Conns : d # c => closing'[d] = closing[d]
  BY <1>1 DEF SerialInv, TypeInv, TypeOK
<1>3. \A k \in StreamNames : Missing(k)' <=> Missing(k)
  BY <1>1 DEF Missing, Left
<1>4. \A d \in Conns : Holds(d)' <=> Holds(d)
  BY <1>1, <1>2 DEF Holds
<1>5. TableKept'
  BY <1>1, <1>3, <1>4, SameTable DEF SerialInv
<1>6. InHand'
  BY <1>1, <1>2 DEF SerialInv, InHand, idVars
<1>7. QED BY <1>5, <1>6 DEF TableInv

LEMMA PostDeleteTable == ASSUME SerialInv, NEW c \in Conns, postDeleteStream(c) PROVE TableInv'
<1>1. /\ closing[c] = "message" /\ closing' = [closing EXCEPT ![c] = "done"] /\ pc[c] = "live"
      /\ UNCHANGED <<idVars, pc, todo, publisherStreamName, allInOneSessionId, newStreamId, oldStreamId>>
  BY DEF postDeleteStream, SerialInv, OneAtATime
<1>2. closing'[c] = "done" /\ \A d \in Conns : d # c => closing'[d] = closing[d]
  BY <1>1 DEF SerialInv, TypeInv, TypeOK
<1>3. \A k \in StreamNames : Missing(k)' <=> Missing(k)
  BY <1>1 DEF Missing, Left
<1>4. \A d \in Conns : Holds(d)' <=> Holds(d)
  BY <1>1, <1>2 DEF Holds
<1>5. TableKept'
  BY <1>1, <1>3, <1>4, SameTable DEF SerialInv
<1>6. InHand'
  BY <1>1, <1>2 DEF SerialInv, InHand, idVars
<1>7. QED BY <1>5, <1>6 DEF TableInv

LEMMA ClosedTable == ASSUME SerialInv, NEW c \in Conns, closed(c) PROVE TableInv'
<1>1. /\ closing[c] = "done" /\ closing' = [closing EXCEPT ![c] = "no"]
      /\ pc[c] = "live" /\ pc' = [pc EXCEPT ![c] = "idle"]
      /\ publisherStreamName' = [publisherStreamName EXCEPT ![c] = None]
      /\ UNCHANGED <<idVars, todo, allInOneSessionId, newStreamId, oldStreamId>>
  BY DEF closed
<1>2. /\ closing'[c] = "no" /\ pc'[c] = "idle"
      /\ \A d \in Conns : d # c => /\ closing'[d] = closing[d] /\ pc'[d] = pc[d]
                                   /\ publisherStreamName'[d] = publisherStreamName[d]
  BY <1>1 DEF SerialInv, TypeInv, TypeOK
<1>3. \A k \in StreamNames : Missing(k)' <=> Missing(k)
  BY <1>1, <1>2 DEF Missing, Left, Making
<1>4. \A d \in Conns : /\ Holds(d)' <=> Holds(d)
                       /\ Holds(d) => publisherStreamName'[d] = publisherStreamName[d]
  BY <1>1, <1>2 DEF Holds
<1>5. TableKept'
  BY <1>1, <1>3, <1>4, SameTable DEF SerialInv
<1>6. InHand'
  BY <1>1, <1>2 DEF SerialInv, InHand, idVars
<1>7. QED BY <1>5, <1>6 DEF TableInv

(* A new entry is for a name that is not mapped, whoever has it made.           *)
LEMMA NotMappedYet ==
  ASSUME ClientsTakeTurns, SerialInv, NEW c \in Conns, createMixedStream(c)
  PROVE  /\ Head(todo[c]) \in StreamNames
         /\ Head(todo[c]) \notin DOMAIN groupMappingTable
<1> DEFINE n == Head(todo[c])
<1>1. pc[c] = "reserve" /\ todo[c] \in Seq(StreamNames) /\ todo[c] # <<>>
  BY DEF createMixedStream, SerialInv, TypeInv, TypeOK, ControlOK, Making
<1>2. n \in StreamNames /\ n = todo[c][1] /\ 1 \in 1 .. Len(todo[c])
  BY <1>1
<1>3. \A d \in Conns : Holds(d) => publisherStreamName[d] \in ClientNames \ SystemNameSet
  BY DEF SerialInv, TypeInv, TypeOK, Holds, ClientsTakeTurns
<1>4. CASE publisherStreamName[c] # None
  <2>1. n = publisherStreamName[c]
    <3>1. todo[c] = <<publisherStreamName[c]>>
      BY <1>1, <1>4 DEF SerialInv, NamesKept, Making
    <3>2. QED BY <3>1
  <2>2. n \notin SystemNameSet
    BY <1>4, <2>1 DEF SerialInv, TypeInv, TypeOK, ClientsTakeTurns
  <2>3. \A d \in Conns : Holds(d) => publisherStreamName[d] # n
    BY <1>1, <1>4, <2>1 DEF SerialInv, NamesKept, Holds
  <2>4. QED BY <1>2, <2>2, <2>3 DEF SerialInv, TableKept
<1>5. CASE publisherStreamName[c] = None
  <2>1. OfTheServer(todo[c])
    BY <1>1, <1>5 DEF SerialInv, NamesKept, Making
  <2>2. n \in SystemNameSet
    BY <1>1, <1>2, <2>1 DEF OfTheServer
  <2>3. n \in Left(c)
    BY <1>1, <1>2 DEF Left
  <2>4. Missing(n)
    BY <1>1, <1>5, <2>3 DEF Missing, Making
  <2>5. QED BY <1>2, <1>3, <2>2, <2>4 DEF SerialInv, TableKept
<1>6. QED BY <1>2, <1>4, <1>5

LEMMA CreateMixedTable ==
  ASSUME ClientsTakeTurns, SerialInv, NEW c \in Conns, createMixedStream(c) PROVE TableInv'
<1> DEFINE n == Head(todo[c])
           sid == Ids!reserveStreamId
<1>1. /\ pc[c] = "reserve" /\ pc' = [pc EXCEPT ![c] = "create"] /\ closing[c] = "no"
      /\ newStreamId' = [newStreamId EXCEPT ![c] = sid]
      /\ Ids!createNewEntry(n)
      /\ UNCHANGED <<allInOneSessionId, todo, publisherStreamName, oldStreamId, closing>>
      /\ allInOneSessionId # None /\ todo[c] \in Seq(StreamNames) /\ todo[c] # <<>>
  BY DEF createMixedStream, SerialInv, TypeInv, TypeOK, ControlOK, OneAtATime, Making
<1>2. n \in StreamNames /\ n \notin DOMAIN groupMappingTable
  BY NotMappedYet
<1>3. Ids!TypeOK
  BY DEF SerialInv, TypeInv, TypeOK
<1>4. /\ sid \in Nat \ {0}
      /\ sid - 1 \in Nat \ reservedStreams
      /\ sid - 1 = Ids!LowestClear(reservedStreams)
      /\ reservedStreams' = reservedStreams \cup {sid - 1}
      /\ DOMAIN groupMappingTable' = DOMAIN groupMappingTable \cup {n}
      /\ groupMappingTable'[n].streamId = sid
      /\ \A k \in DOMAIN groupMappingTable : groupMappingTable'[k] = groupMappingTable[k]
  BY <1>1, <1>2, <1>3, NewEntry
<1> HIDE DEF n, sid
<1>5. /\ pc'[c] = "create" /\ newStreamId'[c] = sid
      /\ \A d \in Conns : d # c => pc'[d] = pc[d] /\ newStreamId'[d] = newStreamId[d]
      /\ \A d \in Conns : d # c => pc[d] \notin {"create", "publish", "reserve"} /\ closing[d] = "no"
  BY <1>1 DEF SerialInv, TypeInv, TypeOK, OneAtATime, Busy
<1>6. /\ \A d \in Conns : d # c => (Holds(d)' <=> Holds(d))
      /\ ~Holds(c) /\ (Holds(c)' <=> publisherStreamName[c] # None)
  BY <1>1, <1>5 DEF Holds
<1>7. \A k \in StreamNames : Missing(k) <=> publisherStreamName[c] = None /\ k \in Left(c)
  BY <1>1, <1>5 DEF Missing, Making
<1>8. \A k \in StreamNames : Missing(k)' <=> publisherStreamName[c] = None /\ k \in Left(c)'
  BY <1>1, <1>5 DEF Missing, Making
<1>9. \A k \in StreamNames :
        k \in DOMAIN groupMappingTable' <=>
          \/ allInOneSessionId' # None /\ k \in SystemNameSet /\ ~Missing(k)'
          \/ \E d \in Conns : Holds(d)' /\ publisherStreamName'[d] = k
  <2>1. CASE publisherStreamName[c] # None
    <3>1. n = publisherStreamName[c]
      <4>1. todo[c] = <<publisherStreamName[c]>>
        BY <1>1, <2>1 DEF SerialInv, NamesKept, Making
      <4>2. QED BY <4>1 DEF n
    <3>2. \A k \in StreamNames : ~Missing(k) /\ ~Missing(k)'
      BY <1>7, <1>8, <2>1
    <3>3. QED BY <1>1, <1>2, <1>4, <1>6, <2>1, <3>1, <3>2 DEF SerialInv, TableKept
  <2>2. CASE publisherStreamName[c] = None
    <3>1. OfTheServer(todo[c])
      BY <1>1, <2>2 DEF SerialInv, NamesKept, Making
    <3>2. n = todo[c][1] /\ Len(todo[c]) \in Nat /\ Len(todo[c]) >= 1 /\ DOMAIN todo[c] = 1 .. Len(todo[c])
      BY <1>1 DEF n
    <3>3. n \in SystemNameSet
      BY <3>1, <3>2 DEF OfTheServer
    <3>4. Left(c) = {todo[c][i] : i \in 1 .. Len(todo[c])} /\ Left(c)' = {todo[c][i] : i \in 2 .. Len(todo[c])}
      BY <1>1, <1>5 DEF Left
    <3>5. \A k : k \in Left(c)' <=> k \in Left(c) /\ k # n
      <4>1. \A i \in 2 .. Len(todo[c]) : todo[c][i] # n
        BY <3>1, <3>2 DEF OfTheServer
      <4>2. \A i \in 1 .. Len(todo[c]) : i = 1 \/ i \in 2 .. Len(todo[c])
        BY <3>2
      <4>3. \A i \in 2 .. Len(todo[c]) : i \in 1 .. Len(todo[c])
        BY <3>2
      <4>4. QED BY <3>2, <3>4, <4>1, <4>2, <4>3
    <3>6. \A d \in Conns : Holds(d)' <=> Holds(d)
      BY <1>6, <2>2
    <3>7. \A k \in StreamNames : Missing(k)' <=> Missing(k) /\ k # n
      BY <1>7, <1>8, <3>5
    <3>8. \A k \in StreamNames :
            k \in DOMAIN groupMappingTable <=>
              \/ k \in SystemNameSet /\ ~Missing(k)
              \/ \E d \in Conns : Holds(d) /\ publisherStreamName[d] = k
      BY <1>1 DEF SerialInv, TableKept
    <3>9. QED BY <1>1, <1>2, <1>4, <3>3, <3>6, <3>7, <3>8
  <2>3. QED BY <2>1, <2>2
<1>10. /\ \A k \in DOMAIN groupMappingTable : groupMappingTable[k].streamId \in Nat \ {0}
       /\ \A k \in DOMAIN groupMappingTable : groupMappingTable[k].streamId # sid
       /\ reservedStreams \subseteq Nat
  <2>1. /\ \A k \in DOMAIN groupMappingTable : groupMappingTable[k].streamId \in Nat \ {0}
        /\ reservedStreams \subseteq Nat
    BY <1>3 DEF Ids!TypeOK, Ids!Entry
  <2>2. \A k \in DOMAIN groupMappingTable : groupMappingTable[k].streamId # sid
    BY <1>4, <2>1 DEF SerialInv, TableKept
  <2>3. QED BY <2>1, <2>2
<1>11. \A b \in Nat :
         b \in reservedStreams' <=>
           \E k \in DOMAIN groupMappingTable' : groupMappingTable'[k].streamId = b + 1
  <2>1. \A b \in Nat :
         b \in reservedStreams <=>
           \E k \in DOMAIN groupMappingTable : groupMappingTable[k].streamId = b + 1
    BY DEF SerialInv, TableKept
  <2>2. \A b \in Nat : b = sid - 1 <=> b + 1 = sid
    BY <1>4
  <2>3. QED BY <1>4, <2>1, <2>2
<1>12. Ids!StreamIdsUnique'
  BY <1>4, <1>10 DEF SerialInv, TableKept, Ids!StreamIdsUnique
<1>13. TableKept'
  BY <1>9, <1>11, <1>12 DEF TableKept
<1>14. InHand'
  <2>1. Head(todo'[c]) = n
    BY <1>1 DEF n
  <2>2. reservedStreams' \ {newStreamId'[c] - 1} = reservedStreams
    BY <1>4, <1>5
  <2>3. newStreamId'[c] - 1 = Ids!LowestClear(reservedStreams' \ {newStreamId'[c] - 1})
    BY <1>4, <1>5, <2>2
  <2>4. \A d \in Conns : d # c => pc'[d] \notin {"create", "publish"} /\ closing'[d] = "no"
    BY <1>1, <1>5
  <2>5. closing'[c] = "no"
    BY <1>1
  <2>6. QED BY <1>4, <1>5, <2>1, <2>3, <2>4, <2>5 DEF InHand
<1>15. QED BY <1>13, <1>14 DEF TableInv

(* Who closes has its name mapped until then.                                  *)
LEMMA StillMapped ==
  ASSUME SerialInv, NEW c \in Conns, closing[c] = "entry"
  PROVE  publisherStreamName[c] \in DOMAIN groupMappingTable
<1>1. Holds(c) /\ publisherStreamName[c] \in StreamNames
  BY DEF SerialInv, TypeInv, TypeOK, ControlOK, OneAtATime, Holds, StreamNames
<1>2. QED BY <1>1 DEF SerialInv, TableKept

LEMMA DeleteMixedTable ==
  ASSUME ClientsTakeTurns, SerialInv, NEW c \in Conns, deleteMixedStream(c) PROVE TableInv'
<1> DEFINE n == publisherStreamName[c]
           sid == groupMappingTable[n].streamId
<1>0. closing[c] = "entry" /\ Ids!deleteEntry(n)
  BY DEF deleteMixedStream
<1>1. n \in DOMAIN groupMappingTable
  BY <1>0, StillMapped
<1>2. /\ sid \in Nat \ {0}
      /\ reservedStreams' = reservedStreams \ {sid - 1}
      /\ DOMAIN groupMappingTable' = DOMAIN groupMappingTable \ {n}
      /\ \A k \in DOMAIN groupMappingTable' : groupMappingTable'[k] = groupMappingTable[k]
  BY <1>0, <1>1, OldEntry DEF SerialInv, TypeInv, TypeOK
<1>3. Ids!lookupStreamId(n) = sid /\ sid # -1
  BY <1>1, <1>2 DEF Ids!lookupStreamId
<1>4. /\ closing' = [closing EXCEPT ![c] = "message"]
      /\ oldStreamId' = [oldStreamId EXCEPT ![c] = sid]
      /\ UNCHANGED <<allInOneSessionId, pc, todo, publisherStreamName, newStreamId>>
      /\ n \in ClientNames \ SystemNameSet /\ n # None /\ pc[c] = "live"
  BY <1>0, <1>3 DEF deleteMixedStream, SerialInv, TypeInv, TypeOK, ControlOK, OneAtATime, ClientsTakeTurns
<1> HIDE DEF sid
<1>5. /\ closing'[c] = "message" /\ oldStreamId'[c] = sid
      /\ \A d \in Conns : d # c => /\ closing'[d] = closing[d] /\ oldStreamId'[d] = oldStreamId[d]
                                   /\ closing[d] = "no" /\ pc[d] \notin {"create", "publish"}
  BY <1>0, <1>4 DEF SerialInv, TypeInv, TypeOK, OneAtATime, Busy
<1>6. /\ \A d \in Conns : d # c => (Holds(d)' <=> Holds(d))
      /\ ~Holds(c)' /\ Holds(c)
  BY <1>0, <1>4, <1>5 DEF Holds
<1>7. \A k \in StreamNames : Missing(k)' <=> Missing(k)
  BY <1>4 DEF Missing, Left
<1>8. \A k \in StreamNames :
        k \in DOMAIN groupMappingTable' <=>
          \/ allInOneSessionId' # None /\ k \in SystemNameSet /\ ~Missing(k)'
          \/ \E d \in Conns : Holds(d)' /\ publisherStreamName'[d] = k
  <2>1. \A d \in Conns : d # c => publisherStreamName[d] # n
    BY <1>4 DEF SerialInv, NamesKept
  <2>2. \A k \in StreamNames :
          k \in DOMAIN groupMappingTable <=>
            \/ allInOneSessionId # None /\ k \in SystemNameSet /\ ~Missing(k)
            \/ \E d \in Conns : Holds(d) /\ publisherStreamName[d] = k
    BY DEF SerialInv, TableKept
  <2>3. QED BY <1>2, <1>4, <1>6, <1>7, <2>1, <2>2
<1>9. \A b \in Nat :
        b \in reservedStreams' <=>
          \E k \in DOMAIN groupMappingTable' : groupMappingTable'[k].streamId = b + 1
  <2>1. \A b \in Nat :
         b \in reservedStreams <=>
           \E k \in DOMAIN groupMappingTable : groupMappingTable[k].streamId = b + 1
    BY DEF SerialInv, TableKept
  <2>2. \A k \in DOMAIN groupMappingTable : groupMappingTable[k].streamId = sid <=> k = n
    BY <1>1 DEF SerialInv, TableKept, Ids!StreamIdsUnique, sid
  <2>3. \A b \in Nat : b = sid - 1 <=> b + 1 = sid
    BY <1>2
  <2>4. QED BY <1>2, <2>1, <2>2, <2>3
<1>10. Ids!StreamIdsUnique'
  BY <1>2 DEF SerialInv, TableKept, Ids!StreamIdsUnique
<1>11. TableKept'
  BY <1>8, <1>9, <1>10 DEF TableKept
<1>12. InHand'
  <2>1. publisherStreamName'[c] \notin DOMAIN groupMappingTable' /\ sid - 1 \notin reservedStreams'
    BY <1>2, <1>4
  <2>2. pc'[c] = "live" /\ \A d \in Conns : d # c => pc'[d] \notin {"create", "publish"} /\ closing'[d] = "no"
    BY <1>4, <1>5
  <2>3. QED BY <1>2, <1>5, <2>1, <2>2 DEF InHand
<1>13. QED BY <1>11, <1>12 DEF TableInv

-----------------------------------------------------------------------------
(* What messages lead to.                                                      *)
LEMMA LeadsNowhere ==
  ASSUME NEW s \in View, NEW e
  PROVE  Leads(<<>>, s, e) <=> e = s
<1>1. ASSUME Leads(<<>>, s, e) PROVE e = s
  BY <1>1 DEF Leads
<1>2. Leads(<<>>, s, s)
  <2> DEFINE v == [i \in Nat |-> s]
  <2>1. v \in [Nat -> View] /\ v[0] = s /\ v[Len(<<>>)] = s
    OBVIOUS
  <2>2. \A i \in 1 .. Len(<<>>) : Handled(<<>>[i], v[i - 1], v[i])
    OBVIOUS
  <2> HIDE DEF v
  <2>3. QED BY <2>1, <2>2 DEF Leads
<1>3. QED BY <1>1, <1>2

LEMMA LeadsOn ==
  ASSUME NEW q \in Seq(Message), NEW s \in View, NEW e \in View, Leads(q, s, e),
         NEW m \in Message, NEW f \in View, Handled(m, e, f)
  PROVE  Leads(Append(q, m), s, f)
<1>1. PICK v \in [Nat -> View] :
        /\ v[0] = s /\ v[Len(q)] = e
        /\ \A i \in 1 .. Len(q) : Handled(q[i], v[i - 1], v[i])
  BY DEF Leads
<1> DEFINE n == Len(q)
           w == [i \in Nat |-> IF i = n + 1 THEN f ELSE v[i]]
           r == Append(q, m)
<1>2. n \in Nat /\ Len(r) = n + 1 /\ r[n + 1] = m /\ \A i \in 1 .. n : r[i] = q[i]
  OBVIOUS
<1> HIDE DEF r, n
<1>3. w \in [Nat -> View] /\ w[n + 1] = f /\ \A i \in 0 .. n : w[i] = v[i]
  BY <1>2
<1> HIDE DEF w
<1>4. ASSUME NEW i \in 1 .. n + 1 PROVE Handled(r[i], w[i - 1], w[i])
  <2>1. CASE i = n + 1
    <3>1. (n + 1) - 1 = n /\ n \in 0 .. n
      BY <1>2
    <3>2. w[(n + 1) - 1] = e
      BY <1>1, <1>3, <3>1 DEF n
    <3>3. QED BY <1>2, <1>3, <2>1, <3>2
  <2>2. CASE i \in 1 .. n
    <3>1. i - 1 \in 0 .. n /\ i \in 0 .. n
      BY <1>2, <2>2
    <3>2. Handled(q[i], v[i - 1], v[i])
      BY <1>1, <2>2 DEF n
    <3>3. w[i - 1] = v[i - 1] /\ w[i] = v[i] /\ r[i] = q[i]
      BY <1>2, <1>3, <2>2, <3>1
    <3>4. QED BY <3>2, <3>3
  <2>3. QED BY <1>2, <2>1, <2>2
<1>5. w[0] = s
  BY <1>1, <1>2, <1>3
<1>6. w \in [Nat -> View] /\ w[0] = s /\ w[Len(r)] = f /\ \A i \in 1 .. Len(r) : Handled(r[i], w[i - 1], w[i])
  BY <1>2, <1>3, <1>4, <1>5
<1>7. Leads(r, s, f)
  BY <1>6 DEF Leads
<1>8. QED BY <1>7 DEF r

LEMMA LeadsFrom ==
  ASSUME NEW q \in Seq(Message), q # <<>>, NEW s \in View, NEW e \in View, Leads(q, s, e)
  PROVE  \E t \in View : Handled(Head(q), s, t) /\ Leads(Tail(q), t, e)
<1>1. PICK v \in [Nat -> View] :
        /\ v[0] = s /\ v[Len(q)] = e
        /\ \A i \in 1 .. Len(q) : Handled(q[i], v[i - 1], v[i])
  BY DEF Leads
<1> DEFINE n == Len(q)
           w == [i \in Nat |-> v[i + 1]]
           r == Tail(q)
<1>2. /\ n \in Nat /\ n >= 1 /\ Len(r) = n - 1 /\ Head(q) = q[1]
      /\ \A i \in 1 .. n - 1 : r[i] = q[i + 1]
  OBVIOUS
<1> HIDE DEF r, n
<1>3. w \in [Nat -> View] /\ \A i \in Nat : w[i] = v[i + 1]
  OBVIOUS
<1> HIDE DEF w
<1>4. Handled(q[1], v[0], v[1])
  <2>1. 1 \in 1 .. n /\ 1 - 1 = 0
    BY <1>2
  <2>2. Handled(q[1], v[1 - 1], v[1])
    BY <1>1, <2>1 DEF n
  <2>3. QED BY <2>1, <2>2
<1>5. ASSUME NEW i \in 1 .. n - 1 PROVE Handled(r[i], w[i - 1], w[i])
  <2>1. i + 1 \in 1 .. n /\ (i + 1) - 1 = i /\ (i - 1) + 1 = i /\ i - 1 \in Nat /\ i \in Nat
    BY <1>2
  <2>2. Handled(q[i + 1], v[(i + 1) - 1], v[i + 1])
    BY <1>1, <2>1 DEF n
  <2>3. r[i] = q[i + 1] /\ w[i - 1] = v[(i - 1) + 1] /\ w[i] = v[i + 1]
    BY <1>2, <1>3, <2>1
  <2>4. w[i - 1] = v[(i + 1) - 1]
    BY <2>1, <2>3
  <2>5. QED BY <2>2, <2>3, <2>4
<1>6. w[0] = v[1] /\ w[Len(r)] = e
  <2>1. n - 1 \in Nat /\ (n - 1) + 1 = n /\ 0 + 1 = 1
    BY <1>2
  <2>2. w[n - 1] = v[(n - 1) + 1] /\ w[0] = v[0 + 1]
    BY <1>3, <2>1
  <2>3. v[n] = e
    BY <1>1 DEF n
  <2>4. w[n - 1] = e /\ w[0] = v[1]
    BY <2>1, <2>2, <2>3
  <2>5. QED BY <1>2, <2>4
<1>7. Leads(r, v[1], e)
  <2>1. w \in [Nat -> View] /\ w[0] = v[1] /\ w[Len(r)] = e /\ \A i \in 1 .. Len(r) : Handled(r[i], w[i - 1], w[i])
    BY <1>2, <1>3, <1>5, <1>6
  <2>2. QED BY <2>1 DEF Leads
<1>8. v[1] \in View /\ Handled(Head(q), s, v[1])
  BY <1>1, <1>2, <1>4
<1>9. QED BY <1>7, <1>8 DEF r

LEMMA HandledOneWay ==
  ASSUME NEW m \in Message, NEW s \in View, NEW t \in View, NEW u \in View,
         Handled(m, s, t), Handled(m, s, u)
  PROVE  t = u
<1>1. t.reserved = u.reserved /\ t.on = u.on /\ t.names = u.names
  <2>1. CASE m.do = "createStream"
    BY <2>1 DEF Handled
  <2>2. CASE m.do = "publish" /\ Accepted(m, s)
    BY <2>2 DEF Handled
  <2>3. CASE m.do = "publish" /\ ~Accepted(m, s)
    BY <2>3 DEF Handled
  <2>4. CASE m.do = "deleteStream"
    BY <2>4 DEF Handled
  <2>5. QED BY <2>1, <2>2, <2>3, <2>4 DEF Message
<1>2. QED BY <1>1 DEF View

(* The executor does with a message what Handled says.                         *)
LEMMA NowIsView == ASSUME TypeInv, NEW a \in Conns PROVE Now(a) \in View
<1>1. connReserved[a] \in SUBSET Nat /\ mixedProviders \in SUBSET StreamNames
  BY DEF TypeInv, TypeOK
<1>2. {<<i, mixedStreams[a][i]>> : i \in DOMAIN mixedStreams[a]} \in SUBSET (Nat \X StreamNames)
  BY DEF TypeInv, TypeOK
<1>3. QED BY <1>1, <1>2 DEF Now, View

NowShows(a) ==
  /\ Now(a) \in View
  /\ Now(a).reserved = connReserved[a] /\ Now(a).names = mixedProviders
  /\ \A i \in Nat, n \in StreamNames :
       <<i, n>> \in Now(a).on <=> i \in DOMAIN mixedStreams[a] /\ mixedStreams[a][i] = n
  /\ Now(a).on \in SUBSET (Nat \X StreamNames)

LEMMA NowHas == TypeInv => \A a \in Conns : NowShows(a)
<1> SUFFICES ASSUME TypeInv, NEW a \in Conns PROVE NowShows(a)
  OBVIOUS
<1>1. Now(a).reserved = connReserved[a] /\ Now(a).names = mixedProviders
  BY DEF Now
<1>2. Now(a).on = {<<i, mixedStreams[a][i]>> : i \in DOMAIN mixedStreams[a]}
  BY DEF Now
<1>3. Now(a).on \in SUBSET (Nat \X StreamNames)
  BY NowIsView DEF View
<1>4. \A i \in Nat, n \in StreamNames :
        <<i, n>> \in Now(a).on <=> i \in DOMAIN mixedStreams[a] /\ mixedStreams[a][i] = n
  BY <1>2
<1>5. QED BY <1>1, <1>3, <1>4, NowIsView DEF NowShows

LEMMA NowHasThen == TypeInv' => (\A a \in Conns : NowShows(a))'
<1>1. TypeInv => \A a \in Conns : NowShows(a)
  BY NowHas
<1>2. QED BY <1>1, PTL

LEMMA CreateHandled ==
  ASSUME TypeInv, TypeInv', NEW a \in Conns, handleCreateStream(a)
  PROVE  Handled(Head(inbox[a]), Now(a), Now(a)')
<1>1. Head(inbox[a]).do = "createStream"
  BY DEF handleCreateStream, Take
<1>2. /\ connReserved'[a] = connReserved[a] \cup {Ids!LowestClear(connReserved[a])}
      /\ UNCHANGED <<mixedStreams, mixedProviders>>
  BY DEF handleCreateStream, TypeInv, TypeOK
<1>3. Now(a)'.on = Now(a).on
  BY <1>2 DEF Now
<1>4. QED BY <1>1, <1>2, <1>3 DEF Handled, Now

LEMMA PublishHandled ==
  ASSUME TypeInv, TypeInv', NEW a \in Conns, handlePublish(a)
  PROVE  Handled(Head(inbox[a]), Now(a), Now(a)')
<1> DEFINE m == Head(inbox[a])
           s == Now(a)
           t == Now(a)'
           grown == [i \in DOMAIN mixedStreams[a] \cup {m.id} |->
                       IF i = m.id THEN m.name ELSE mixedStreams[a][i]]
<1>1. m \in Message /\ m.do = "publish" /\ m.name \in StreamNames
  BY TakeTypes DEF handlePublish
<1>2. m.id \in Nat
  BY <1>1 DEF Message
<1>3. CanPublish(a, m) <=> Accepted(m, s)
  <2>1. m.id \in DOMAIN mixedStreams[a] <=> \E n \in StreamNames : <<m.id, n>> \in s.on
      <3>1. \A n \in StreamNames : <<m.id, n>> \in s.on <=> m.id \in DOMAIN mixedStreams[a] /\ mixedStreams[a][m.id] = n
        BY <1>2, NowHas DEF NowShows
      <3>2. m.id \in DOMAIN mixedStreams[a] => mixedStreams[a][m.id] \in StreamNames
        BY DEF TypeInv, TypeOK
      <3>3. QED BY <3>1, <3>2
  <2>2. s.reserved = connReserved[a] /\ s.names = mixedProviders
    BY NowHas DEF NowShows
  <2>3. QED BY <2>1, <2>2 DEF CanPublish, Accepted
<1>4. UNCHANGED connReserved
  BY DEF handlePublish
<1>5. CASE ~CanPublish(a, m)
  <2>1. UNCHANGED <<mixedStreams, mixedProviders>>
    BY <1>5 DEF handlePublish
  <2>2. t = s
    BY <1>4, <2>1 DEF Now
  <2>3. QED BY <1>1, <1>3, <1>5, <2>2 DEF Handled
<1>6. CASE CanPublish(a, m)
  <2>1. mixedStreams' = [mixedStreams EXCEPT ![a] = grown] /\ mixedProviders' = mixedProviders \cup {m.name}
    BY <1>6 DEF handlePublish
  <2>2. mixedStreams'[a] = grown
    BY <2>1 DEF TypeInv, TypeOK
  <2> HIDE DEF m, s, t
  <2>3. /\ DOMAIN grown = DOMAIN mixedStreams[a] \cup {m.id}
        /\ grown[m.id] = m.name
        /\ \A i \in DOMAIN mixedStreams[a] : i # m.id => grown[i] = mixedStreams[a][i]
    OBVIOUS
  <2> HIDE DEF grown
  <2>4. \A i \in Nat, n \in StreamNames :
          <<i, n>> \in t.on <=> i \in DOMAIN grown /\ grown[i] = n
    <3>1. \A i \in Nat, n \in StreamNames :
            <<i, n>> \in t.on <=> i \in DOMAIN mixedStreams'[a] /\ mixedStreams'[a][i] = n
      BY NowHasThen DEF NowShows, t
    <3>2. QED BY <2>2, <3>1
  <2>5. \A i \in Nat, n \in StreamNames :
          <<i, n>> \in s.on <=> i \in DOMAIN mixedStreams[a] /\ mixedStreams[a][i] = n
    BY NowHas DEF NowShows, s
  <2>6. \A i \in Nat, n \in StreamNames :
          <<i, n>> \in t.on <=> (<<i, n>> \in s.on /\ i # m.id) \/ (i = m.id /\ n = m.name)
    <3> TAKE i \in Nat, n \in StreamNames
    <3>1. CASE i = m.id
      <4>1. <<i, n>> \in t.on <=> grown[m.id] = n
        BY <2>3, <2>4, <3>1
      <4>2. QED BY <2>3, <3>1, <4>1
    <3>2. CASE i # m.id
      <4>1. i \in DOMAIN grown <=> i \in DOMAIN mixedStreams[a]
        BY <2>3, <3>2
      <4>2. QED BY <2>3, <2>4, <2>5, <3>2, <4>1
    <3>3. QED BY <3>1, <3>2
  <2>7. s.on \in SUBSET (Nat \X StreamNames) /\ t.on \in SUBSET (Nat \X StreamNames)
    BY NowHas, NowHasThen DEF NowShows, s, t
  <2>8. t.on = {p \in s.on : p[1] # m.id} \cup {<<m.id, m.name>>}
    BY <1>1, <1>2, <2>6, <2>7
  <2>9. t.reserved = s.reserved /\ t.names = s.names \cup {m.name}
    BY <1>4, <2>1, NowHas, NowHasThen DEF NowShows, s, t
  <2>10. Handled(m, s, t)
    BY <1>1, <1>3, <1>6, <2>8, <2>9 DEF Handled
  <2>11. QED BY <2>10 DEF m, s, t
<1>7. QED BY <1>5, <1>6

LEMMA DeleteHandled ==
  ASSUME TypeInv, TypeInv', NEW a \in Conns, handleDeleteStream(a)
  PROVE  Handled(Head(inbox[a]), Now(a), Now(a)')
<1> DEFINE m == Head(inbox[a])
           s == Now(a)
           t == Now(a)'
           kept == [i \in DOMAIN mixedStreams[a] \ {m.id} |-> mixedStreams[a][i]]
<1>1. m \in Message /\ m.do = "deleteStream"
  BY TakeTypes DEF handleDeleteStream
<1>2. m.id \in Nat
  BY <1>1 DEF Message
<1>3. /\ mixedStreams' = [mixedStreams EXCEPT ![a] = kept]
      /\ mixedProviders' = mixedProviders \ {mixedStreams[a][i] : i \in DOMAIN mixedStreams[a] \cap {m.id}}
      /\ connReserved' = [connReserved EXCEPT ![a] = connReserved[a] \ {m.id - 1}]
  BY DEF handleDeleteStream
<1>4. mixedStreams'[a] = kept /\ connReserved'[a] = connReserved[a] \ {m.id - 1}
  BY <1>3 DEF TypeInv, TypeOK
<1> HIDE DEF m, s, t
<1>5. /\ DOMAIN kept = DOMAIN mixedStreams[a] \ {m.id}
      /\ \A i \in DOMAIN kept : kept[i] = mixedStreams[a][i]
  OBVIOUS
<1> HIDE DEF kept
<1>6. \A i \in Nat, n \in StreamNames :
        <<i, n>> \in t.on <=> i \in DOMAIN kept /\ kept[i] = n
  <2>1. \A i \in Nat, n \in StreamNames :
          <<i, n>> \in t.on <=> i \in DOMAIN mixedStreams'[a] /\ mixedStreams'[a][i] = n
    BY NowHasThen DEF NowShows, t
  <2>2. QED BY <1>4, <2>1
<1>7. \A i \in Nat, n \in StreamNames :
        <<i, n>> \in s.on <=> i \in DOMAIN mixedStreams[a] /\ mixedStreams[a][i] = n
  BY NowHas DEF NowShows, s
<1>8. s.on \in SUBSET (Nat \X StreamNames) /\ t.on \in SUBSET (Nat \X StreamNames)
  BY NowHas, NowHasThen DEF NowShows, s, t
<1>9. t.on = {p \in s.on : p[1] # m.id}
  BY <1>5, <1>6, <1>7, <1>8
<1>10. t.reserved = s.reserved \ {m.id - 1}
  BY <1>4, NowHas, NowHasThen DEF NowShows, s, t
<1>11. t.names = {n \in s.names : <<m.id, n>> \notin s.on}
  <2>1. s.names = mixedProviders /\ t.names = mixedProviders' /\ mixedProviders \subseteq StreamNames
    BY NowHas, NowHasThen DEF NowShows, s, t, TypeInv, TypeOK
  <2>2. \A n \in StreamNames :
          n \in {mixedStreams[a][i] : i \in DOMAIN mixedStreams[a] \cap {m.id}} <=> <<m.id, n>> \in s.on
    BY <1>2, <1>7
  <2>3. QED BY <1>3, <2>1, <2>2
<1>12. Handled(m, s, t)
  BY <1>1, <1>9, <1>10, <1>11 DEF Handled
<1>13. QED BY <1>12 DEF m, s, t

(* So one message less leads to the same.                                      *)
LEMMA ExecutorForeseen ==
  ASSUME SerialInv, TypeInv', NEW a \in Conns, Executor(a) PROVE Foreseen'
<1>1. /\ inbox[a] \in Seq(Message) /\ inbox[a] # <<>> /\ Head(inbox[a]) \in Message
      /\ inbox' = [inbox EXCEPT ![a] = Tail(@)]
      /\ UNCHANGED <<idVars, connVars, allInOneSessionId>>
  BY TakeTypes DEF Executor, handleCreateStream, handlePublish, handleDeleteStream, Take, SerialInv
<1>2. Handled(Head(inbox[a]), Now(a), Now(a)')
  BY CreateHandled, PublishHandled, DeleteHandled DEF Executor, SerialInv
<1>3. a = allInOneSessionId /\ allInOneSessionId # None
  BY <1>1 DEF SerialInv, Foreseen
<1>4. PICK e \in View : Leads(inbox[a], Now(a), e) /\ Ahead(e)
  BY <1>3 DEF SerialInv, Foreseen
<1>5. Now(a) \in View /\ Now(a)' \in View
  BY NowHas, NowHasThen DEF NowShows, SerialInv
<1>6. PICK t \in View : Handled(Head(inbox[a]), Now(a), t) /\ Leads(Tail(inbox[a]), t, e)
  BY <1>1, <1>4, <1>5, LeadsFrom
<1>7. t = Now(a)'
  BY <1>1, <1>2, <1>5, <1>6, HandledOneWay
<1>8. inbox'[a] = Tail(inbox[a]) /\ \A c \in Conns : c # a => inbox'[c] = inbox[c]
  BY <1>1 DEF SerialInv, TypeInv, TypeOK
<1>9. Leads(inbox'[a], Now(a)', e)
  BY <1>6, <1>7, <1>8
<1>10. Ahead(e)'
  BY <1>1, <1>4 DEF Ahead, BeingMade, BeingLost, JustReserved, ToFree, idVars, connVars
<1>11. \A c \in Conns : c # a => inbox'[c] = <<>>
  BY <1>3, <1>8 DEF SerialInv, Foreseen
<1>12. QED
  <2>1. allInOneSessionId' = a /\ a # None
    BY <1>1, <1>3
  <2>2. Now(allInOneSessionId)' = Now(a)'
    BY <2>1 DEF Now
  <2>3. QED BY <1>9, <1>10, <1>11, <2>1, <2>2 DEF Foreseen

-----------------------------------------------------------------------------
(* Where the messages lead, after a thread's step.                             *)
LEMMA SameForeseen ==
  ASSUME Foreseen, UNCHANGED <<aioVars, inbox, allInOneSessionId>>,
         \A e \in View : Ahead(e) => Ahead(e)'
  PROVE  Foreseen'
<1>1. CASE allInOneSessionId = None
  BY <1>1 DEF Foreseen, aioVars
<1>2. CASE allInOneSessionId # None
  <2>1. PICK e \in View : Leads(inbox[allInOneSessionId], Now(allInOneSessionId), e) /\ Ahead(e)
    BY <1>2 DEF Foreseen
  <2>2. Now(allInOneSessionId)' = Now(allInOneSessionId)
    BY DEF Now, aioVars
  <2>3. Leads(inbox[allInOneSessionId], Now(allInOneSessionId), e)'
    BY <2>1, <2>2
  <2>4. Ahead(e)'
    BY <2>1
  <2>5. \A c \in Conns : c # allInOneSessionId' => inbox'[c] = <<>>
    BY <1>2 DEF Foreseen
  <2>6. QED BY <1>2, <2>3, <2>4, <2>5 DEF Foreseen
<1>3. QED BY <1>1, <1>2

(* Steps that have no part in a mixed stream.                                  *)
LEMMA SameAhead ==
  ASSUME UNCHANGED idVars, NEW c \in Conns,
         pc[c] \notin {"create", "publish"}, pc'[c] \notin {"create", "publish"},
         closing[c] # "message", closing'[c] # "message",
         \A d \in Conns : d # c =>
           /\ pc'[d] = pc[d] /\ closing'[d] = closing[d] /\ todo'[d] = todo[d]
           /\ publisherStreamName'[d] = publisherStreamName[d]
           /\ newStreamId'[d] = newStreamId[d] /\ oldStreamId'[d] = oldStreamId[d],
         NEW e \in View, Ahead(e)
  PROVE  Ahead(e)'
<1>1. \A n \in StreamNames : BeingMade(n)' <=> BeingMade(n)
  BY DEF BeingMade
<1>2. \A id \in Nat, n \in StreamNames : BeingLost(id, n)' <=> BeingLost(id, n)
  BY DEF BeingLost
<1>3. \A b \in Nat : (JustReserved(b)' <=> JustReserved(b)) /\ (ToFree(b)' <=> ToFree(b))
  BY DEF JustReserved, ToFree
<1>4. groupMappingTable' = groupMappingTable /\ reservedStreams' = reservedStreams
  BY DEF idVars
<1>5. QED BY <1>1, <1>2, <1>3, <1>4 DEF Ahead

LEMMA SessionCreatedForeseen == ASSUME SerialInv, NEW c \in Conns, sessionCreated(c) PROVE Foreseen'
<1>1. /\ pc[c] = "absent" /\ pc' = [pc EXCEPT ![c] = IF allInOneSessionId = None THEN "boot" ELSE "idle"]
      /\ UNCHANGED <<idVars, aioVars, inbox, allInOneSessionId, todo, publisherStreamName,
                     newStreamId, oldStreamId, closing>>
      /\ closing[c] # "message"
  BY DEF sessionCreated, SerialInv, OneAtATime
<1>2. pc'[c] \in {"boot", "idle"} /\ \A d \in Conns : d # c => pc'[d] = pc[d]
  BY <1>1 DEF SerialInv, TypeInv, TypeOK
<1>3. \A e \in View : Ahead(e) => Ahead(e)'
  BY <1>1, <1>2, SameAhead
<1>4. QED BY <1>1, <1>3, SameForeseen DEF SerialInv

LEMMA PublishForeseen ==
  ASSUME SerialInv, NEW c \in Conns, NEW n \in ClientNames, publish(c, n) PROVE Foreseen'
<1>1. /\ pc[c] = "idle" /\ pc' = [pc EXCEPT ![c] = "checked"]
      /\ publisherStreamName' = [publisherStreamName EXCEPT ![c] = n]
      /\ UNCHANGED <<idVars, aioVars, inbox, allInOneSessionId, todo, newStreamId, oldStreamId, closing>>
      /\ closing[c] # "message"
  BY DEF publish, SerialInv, OneAtATime
<1>2. /\ pc'[c] = "checked"
      /\ \A d \in Conns : d # c => pc'[d] = pc[d] /\ publisherStreamName'[d] = publisherStreamName[d]
  BY <1>1 DEF SerialInv, TypeInv, TypeOK
<1>3. \A e \in View : Ahead(e) => Ahead(e)'
  BY <1>1, <1>2, SameAhead
<1>4. QED BY <1>1, <1>3, SameForeseen DEF SerialInv

LEMMA RegisterForeseen == ASSUME SerialInv, NEW c \in Conns, registerBroadcastStream(c) PROVE Foreseen'
<1>1. /\ pc[c] = "checked" /\ pc' = [pc EXCEPT ![c] = "reserve"]
      /\ todo' = [todo EXCEPT ![c] = <<publisherStreamName[c]>>]
      /\ UNCHANGED <<idVars, aioVars, inbox, allInOneSessionId, publisherStreamName,
                     newStreamId, oldStreamId, closing>>
      /\ closing[c] # "message"
  BY DEF registerBroadcastStream, SerialInv, OneAtATime
<1>2. pc'[c] = "reserve" /\ \A d \in Conns : d # c => pc'[d] = pc[d] /\ todo'[d] = todo[d]
  BY <1>1 DEF SerialInv, TypeInv, TypeOK
<1>3. \A e \in View : Ahead(e) => Ahead(e)'
  BY <1>1, <1>2, SameAhead
<1>4. QED BY <1>1, <1>3, SameForeseen DEF SerialInv

LEMMA CloseForeseen == ASSUME ClientsTakeTurns, SerialInv, NEW c \in Conns, closeStream(c) PROVE Foreseen'
<1>1. /\ pc[c] = "live" /\ closing[c] = "no" /\ closing' = [closing EXCEPT ![c] = "entry"]
      /\ UNCHANGED <<idVars, aioVars, inbox, allInOneSessionId, pc, todo, publisherStreamName,
                     newStreamId, oldStreamId>>
  BY DEF closeStream, MayStart, ThreadsAtRest, ClientsTakeTurns
<1>2. closing'[c] = "entry" /\ \A d \in Conns : d # c => closing'[d] = closing[d]
  BY <1>1 DEF SerialInv, TypeInv, TypeOK
<1>3. \A e \in View : Ahead(e) => Ahead(e)'
  BY <1>1, <1>2, SameAhead
<1>4. QED BY <1>1, <1>3, SameForeseen DEF SerialInv

LEMMA ClosedForeseen == ASSUME SerialInv, NEW c \in Conns, closed(c) PROVE Foreseen'
<1>1. /\ closing[c] = "done" /\ closing' = [closing EXCEPT ![c] = "no"]
      /\ pc[c] = "live" /\ pc' = [pc EXCEPT ![c] = "idle"]
      /\ publisherStreamName' = [publisherStreamName EXCEPT ![c] = None]
      /\ UNCHANGED <<idVars, aioVars, inbox, allInOneSessionId, todo, newStreamId, oldStreamId>>
  BY DEF closed
<1>2. /\ closing'[c] = "no" /\ pc'[c] = "idle"
      /\ \A d \in Conns : d # c => /\ closing'[d] = closing[d] /\ pc'[d] = pc[d]
                                   /\ publisherStreamName'[d] = publisherStreamName[d]
  BY <1>1 DEF SerialInv, TypeInv, TypeOK
<1>3. \A e \in View : Ahead(e) => Ahead(e)'
  BY <1>1, <1>2, SameAhead
<1>4. QED BY <1>1, <1>3, SameForeseen DEF SerialInv

(* The all-in-one connection starts with nothing, and there is nothing to have.  *)
LEMMA TryToCreateForeseen ==
  ASSUME SerialInv, TypeInv', NEW c \in Conns, tryToCreateAllInOneConn(c) PROVE Foreseen'
<1>1. /\ pc[c] = "boot" /\ pc' = [pc EXCEPT ![c] = "reserve"] /\ allInOneSessionId = None
      /\ allInOneSessionId' = c /\ c # None
      /\ UNCHANGED <<idVars, aioVars, inbox, closing>>
  BY NoneAssumption DEF tryToCreateAllInOneConn, SerialInv, OneAtATime
<1>2. /\ \A d \in Conns : inbox[d] = <<>> /\ connReserved[d] = {} /\ DOMAIN mixedStreams[d] = {}
      /\ mixedProviders = {}
  BY <1>1 DEF SerialInv, Foreseen
<1>3. \A d \in Conns : pc[d] \in {"absent", "boot"} /\ closing[d] = "no"
  BY <1>1 DEF SerialInv, OneAtATime
<1>4. \A n \in StreamNames : n \notin DOMAIN groupMappingTable
  BY <1>1, <1>3 DEF SerialInv, TableKept, Holds
<1>5. DOMAIN groupMappingTable = {} /\ \A b \in Nat : b \notin reservedStreams
  <2>1. DOMAIN groupMappingTable = {}
    BY <1>4 DEF SerialInv, TypeInv, TypeOK, Ids!TypeOK
  <2>2. QED BY <2>1 DEF SerialInv, TableKept
<1>6. \A d \in Conns : pc'[d] \notin {"create", "publish"} /\ closing'[d] # "message"
  BY <1>1, <1>3 DEF SerialInv, TypeInv, TypeOK
<1>7. groupMappingTable' = groupMappingTable /\ reservedStreams' = reservedStreams
  BY <1>1 DEF idVars
<1> DEFINE e == Now(c)'
<1>8. e \in View /\ NowShows(c)'
  BY NowHasThen DEF NowShows
<1>9. /\ \A id \in Nat, n \in StreamNames : <<id, n>> \notin e.on
      /\ \A n \in StreamNames : n \notin e.names
      /\ \A b \in Nat : b \notin e.reserved
  <2>1. connReserved' = connReserved /\ mixedStreams' = mixedStreams /\ mixedProviders' = mixedProviders
    BY <1>1 DEF aioVars
  <2>2. \A id \in Nat, n \in StreamNames : <<id, n>> \notin e.on
    BY <1>2, <1>8, <2>1 DEF NowShows
  <2>3. e.names = {} /\ e.reserved = {}
    BY <1>2, <1>8, <2>1 DEF NowShows
  <2>4. QED BY <2>2, <2>3
<1> HIDE DEF e
<1>10. PICK f \in View : f = e
  BY <1>8
<1>11. Ahead(f)'
  BY <1>5, <1>6, <1>7, <1>9, <1>10 DEF Ahead, BeingMade, BeingLost, JustReserved, ToFree
<1>12. Leads(inbox'[c], Now(c)', f)
  <2>1. Leads(<<>>, e, f)
    BY <1>8, <1>10, LeadsNowhere
  <2>2. inbox'[c] = <<>>
    BY <1>1, <1>2
  <2>3. QED BY <2>1, <2>2 DEF e
<1>13. \A d \in Conns : inbox'[d] = <<>>
  BY <1>1, <1>2
<1>14. Leads(inbox[allInOneSessionId], Now(allInOneSessionId), f)'
  <2>1. Now(allInOneSessionId)' = Now(c)'
    BY <1>1 DEF Now
  <2>2. QED BY <1>1, <1>12, <2>1
<1>15. QED BY <1>1, <1>11, <1>13, <1>14 DEF Foreseen

-----------------------------------------------------------------------------
(* Of what the busy thread does.                                               *)
OnlyHim(c) ==
  \A d \in Conns : d # c => pc[d] \notin Making /\ closing[d] = "no"

LEMMA OnlyOne == ASSUME SerialInv, NEW c \in Conns, Busy(c) PROVE OnlyHim(c)
BY DEF SerialInv, OneAtATime, OnlyHim, Busy, Making

LEMMA AheadOfHim ==
  ASSUME NEW c \in Conns, OnlyHim(c)
  PROVE  /\ \A n \in StreamNames : BeingMade(n) <=> pc[c] \in {"create", "publish"} /\ n = Head(todo[c])
         /\ \A id \in Nat, n \in StreamNames :
              BeingLost(id, n) <=> closing[c] = "message" /\ n = publisherStreamName[c] /\ id = oldStreamId[c]
         /\ \A b \in Nat : JustReserved(b) <=> pc[c] = "create" /\ b = newStreamId[c] - 1
         /\ \A b \in Nat : ToFree(b) <=> closing[c] = "message" /\ b = oldStreamId[c] - 1
<1>1. \A n \in StreamNames : BeingMade(n) <=> pc[c] \in {"create", "publish"} /\ n = Head(todo[c])
  BY DEF OnlyHim, BeingMade, Making
<1>2. \A id \in Nat, n \in StreamNames :
        BeingLost(id, n) <=> closing[c] = "message" /\ n = publisherStreamName[c] /\ id = oldStreamId[c]
  BY DEF OnlyHim, BeingLost
<1>3. \A b \in Nat : JustReserved(b) <=> pc[c] = "create" /\ b = newStreamId[c] - 1
  BY DEF OnlyHim, JustReserved, Making
<1>4. \A b \in Nat : ToFree(b) <=> closing[c] = "message" /\ b = oldStreamId[c] - 1
  BY DEF OnlyHim, ToFree
<1>5. QED BY <1>1, <1>2, <1>3, <1>4

(* The new view is e, in the terms of the thread that is busy.                  *)
AheadBy(c, e) ==
  /\ \A id \in Nat, n \in StreamNames :
       <<id, n>> \in e.on <=>
         \/ /\ n \in DOMAIN groupMappingTable /\ id = groupMappingTable[n].streamId
            /\ ~(pc[c] \in {"create", "publish"} /\ n = Head(todo[c]))
         \/ closing[c] = "message" /\ n = publisherStreamName[c] /\ id = oldStreamId[c]
  /\ \A n \in StreamNames :
       n \in e.names <=>
         \/ n \in DOMAIN groupMappingTable /\ ~(pc[c] \in {"create", "publish"} /\ n = Head(todo[c]))
         \/ closing[c] = "message" /\ n = publisherStreamName[c]
  /\ \A b \in Nat :
       b \in e.reserved <=>
         \/ b \in reservedStreams /\ ~(pc[c] = "create" /\ b = newStreamId[c] - 1)
         \/ closing[c] = "message" /\ b = oldStreamId[c] - 1

LEMMA AheadIsBy ==
  TypeOK => \A c \in Conns : OnlyHim(c) => \A e \in View : Ahead(e) <=> AheadBy(c, e)
<1> SUFFICES ASSUME TypeOK, NEW c \in Conns, OnlyHim(c), NEW e \in View
             PROVE  Ahead(e) <=> AheadBy(c, e)
  OBVIOUS
<1>1. oldStreamId[c] \in Nat
  BY DEF TypeOK
<1>2. \A n \in StreamNames :
        (\E id \in Nat : BeingLost(id, n)) <=> closing[c] = "message" /\ n = publisherStreamName[c]
  BY <1>1, AheadOfHim
<1>3. QED BY <1>2, AheadOfHim DEF Ahead, AheadBy

LEMMA AheadIsByThen ==
  TypeOK' => (\A c \in Conns : OnlyHim(c) => \A e \in View : Ahead(e) <=> AheadBy(c, e))'
<1>1. TypeOK => \A c \in Conns : OnlyHim(c) => \A e \in View : Ahead(e) <=> AheadBy(c, e)
  BY AheadIsBy
<1>2. QED BY <1>1, PTL

(* A step of his that posts nothing, and one that posts a message.              *)
LEMMA NothingPosted ==
  ASSUME SerialInv, TypeInv', NEW c \in Conns, OnlyHim(c), OnlyHim(c)',
         UNCHANGED <<aioVars, inbox, allInOneSessionId>>,
         \A e \in View : AheadBy(c, e) => AheadBy(c, e)'
  PROVE  Foreseen'
<1>1. \A e \in View : Ahead(e) => Ahead(e)'
  <2>1. \A e \in View : Ahead(e) <=> AheadBy(c, e)
    BY AheadIsBy DEF SerialInv, TypeInv
  <2>2. \A e \in View : Ahead(e)' <=> AheadBy(c, e)'
    BY AheadIsByThen DEF TypeInv
  <2>3. QED BY <2>1, <2>2
<1>2. QED BY <1>1, SameForeseen DEF SerialInv

LEMMA OnePosted ==
  ASSUME SerialInv, TypeInv', NEW c \in Conns, OnlyHim(c), OnlyHim(c)',
         pc[c] \notin {"absent", "boot"}, UNCHANGED <<aioVars, allInOneSessionId>>,
         NEW m \in Message, Post(m),
         \A e \in View : AheadBy(c, e) => \E f \in View : Handled(m, e, f) /\ AheadBy(c, f)'
  PROVE  Foreseen'
<1>1. allInOneSessionId \in Conns /\ allInOneSessionId # None
  BY NoneAssumption DEF SerialInv, TypeInv, TypeOK, ControlOK
<1>2. PICK a \in Conns : a = allInOneSessionId
  BY <1>1
<1>3. PICK e \in View : Leads(inbox[a], Now(a), e) /\ Ahead(e)
  BY <1>1, <1>2 DEF SerialInv, Foreseen
<1>4. AheadBy(c, e)
  BY <1>3, AheadIsBy DEF SerialInv, TypeInv
<1>5. PICK f \in View : Handled(m, e, f) /\ AheadBy(c, f)'
  BY <1>4
<1>6. Ahead(f)'
  BY <1>5, AheadIsByThen DEF TypeInv
<1>7. inbox[a] \in Seq(Message) /\ inbox'[a] = Append(inbox[a], m)
      /\ \A d \in Conns : d # a => inbox'[d] = inbox[d]
  BY <1>2 DEF SerialInv, TypeInv, TypeOK, Post
<1>8. Now(a) \in View /\ Now(a)' = Now(a)
  BY NowIsView DEF SerialInv, Now, aioVars
<1>9. Leads(inbox'[a], Now(a)', f)
  BY <1>3, <1>5, <1>7, <1>8, LeadsOn
<1>10. Leads(inbox[allInOneSessionId], Now(allInOneSessionId), f)'
  <2>1. Now(allInOneSessionId)' = Now(a)'
    BY <1>2 DEF Now
  <2>2. QED BY <1>2, <1>9, <2>1
<1>11. \A d \in Conns : d # allInOneSessionId' => inbox'[d] = <<>>
  BY <1>1, <1>2, <1>7 DEF SerialInv, Foreseen
<1>12. QED BY <1>1, <1>6, <1>10, <1>11 DEF Foreseen

LEMMA CreateMixedForeseen ==
  ASSUME ClientsTakeTurns, SerialInv, TypeInv', NEW c \in Conns, createMixedStream(c) PROVE Foreseen'
<1> DEFINE n == Head(todo[c])
           sid == Ids!reserveStreamId
<1>1. /\ pc[c] = "reserve" /\ pc' = [pc EXCEPT ![c] = "create"] /\ closing[c] = "no"
      /\ newStreamId' = [newStreamId EXCEPT ![c] = sid]
      /\ Ids!createNewEntry(n)
      /\ UNCHANGED <<aioVars, inbox, allInOneSessionId, todo, publisherStreamName, oldStreamId, closing>>
  BY DEF createMixedStream, SerialInv, OneAtATime, Making
<1>2. n \in StreamNames /\ n \notin DOMAIN groupMappingTable
  BY NotMappedYet
<1>3. Ids!TypeOK
  BY DEF SerialInv, TypeInv, TypeOK
<1>4. /\ sid - 1 \in Nat \ reservedStreams
      /\ reservedStreams' = reservedStreams \cup {sid - 1}
      /\ DOMAIN groupMappingTable' = DOMAIN groupMappingTable \cup {n}
      /\ \A k \in DOMAIN groupMappingTable : groupMappingTable'[k] = groupMappingTable[k]
  BY <1>1, <1>2, <1>3, NewEntry
<1> HIDE DEF sid
<1>5. /\ pc'[c] = "create" /\ newStreamId'[c] = sid /\ n = Head(todo'[c])
      /\ \A d \in Conns : d # c => pc'[d] = pc[d]
  BY <1>1 DEF SerialInv, TypeInv, TypeOK
<1> HIDE DEF n
<1>6. OnlyHim(c) /\ OnlyHim(c)'
  BY <1>1, <1>5, OnlyOne DEF Busy, OnlyHim
<1>7. ASSUME NEW e \in View, AheadBy(c, e) PROVE AheadBy(c, e)'
  <2>1. /\ \A id \in Nat, k \in StreamNames :
             <<id, k>> \in e.on <=> k \in DOMAIN groupMappingTable /\ id = groupMappingTable[k].streamId
        /\ \A k \in StreamNames : k \in e.names <=> k \in DOMAIN groupMappingTable
        /\ \A b \in Nat : b \in e.reserved <=> b \in reservedStreams
    BY <1>1, <1>7 DEF AheadBy
  <2>2. \A id \in Nat, k \in StreamNames :
          <<id, k>> \in e.on <=> k \in DOMAIN groupMappingTable' /\ id = groupMappingTable'[k].streamId /\ k # n
    BY <1>2, <1>4, <2>1
  <2>3. \A k \in StreamNames : k \in e.names <=> k \in DOMAIN groupMappingTable' /\ k # n
    BY <1>2, <1>4, <2>1
  <2>4. \A b \in Nat : b \in e.reserved <=> b \in reservedStreams' /\ b # sid - 1
    BY <1>4, <2>1
  <2>5. QED BY <1>1, <1>5, <2>2, <2>3, <2>4 DEF AheadBy
<1>8. QED BY <1>1, <1>6, <1>7, NothingPosted

LEMMA DeleteMixedForeseen ==
  ASSUME ClientsTakeTurns, SerialInv, TypeInv', NEW c \in Conns, deleteMixedStream(c) PROVE Foreseen'
<1> DEFINE n == publisherStreamName[c]
           sid == groupMappingTable[n].streamId
<1>0. closing[c] = "entry" /\ Ids!deleteEntry(n)
  BY DEF deleteMixedStream
<1>1. n \in DOMAIN groupMappingTable
  BY <1>0, StillMapped
<1>2. /\ sid \in Nat \ {0}
      /\ reservedStreams' = reservedStreams \ {sid - 1}
      /\ DOMAIN groupMappingTable' = DOMAIN groupMappingTable \ {n}
      /\ \A k \in DOMAIN groupMappingTable' : groupMappingTable'[k] = groupMappingTable[k]
  BY <1>0, <1>1, OldEntry DEF SerialInv, TypeInv, TypeOK
<1>3. Ids!lookupStreamId(n) = sid /\ sid # -1
  BY <1>1, <1>2 DEF Ids!lookupStreamId
<1>4. /\ closing' = [closing EXCEPT ![c] = "message"]
      /\ oldStreamId' = [oldStreamId EXCEPT ![c] = sid]
      /\ UNCHANGED <<aioVars, inbox, allInOneSessionId, pc, todo, publisherStreamName, newStreamId>>
      /\ pc[c] = "live"
  BY <1>0, <1>3 DEF deleteMixedStream, SerialInv, OneAtATime
<1>5. sid - 1 \in reservedStreams
  BY <1>1, <1>2 DEF SerialInv, TableKept
<1>6. sid = groupMappingTable[n].streamId
  OBVIOUS
<1> HIDE DEF sid
<1>7. /\ closing'[c] = "message" /\ oldStreamId'[c] = sid /\ n = publisherStreamName'[c]
      /\ \A d \in Conns : d # c => closing'[d] = closing[d]
  BY <1>4 DEF SerialInv, TypeInv, TypeOK
<1> HIDE DEF n
<1>8. OnlyHim(c) /\ OnlyHim(c)'
  BY <1>0, <1>4, <1>7, OnlyOne DEF Busy, OnlyHim
<1>9. ASSUME NEW e \in View, AheadBy(c, e) PROVE AheadBy(c, e)'
  <2>1. /\ \A id \in Nat, k \in StreamNames :
             <<id, k>> \in e.on <=> k \in DOMAIN groupMappingTable /\ id = groupMappingTable[k].streamId
        /\ \A k \in StreamNames : k \in e.names <=> k \in DOMAIN groupMappingTable
        /\ \A b \in Nat : b \in e.reserved <=> b \in reservedStreams
    BY <1>0, <1>4, <1>9 DEF AheadBy
  <2>2. \A id \in Nat, k \in StreamNames :
          <<id, k>> \in e.on <=> \/ k \in DOMAIN groupMappingTable' /\ id = groupMappingTable'[k].streamId
                                 \/ k = n /\ id = sid
    <3> TAKE id \in Nat, k \in StreamNames
    <3>1. <<id, k>> \in e.on <=> k \in DOMAIN groupMappingTable /\ id = groupMappingTable[k].streamId
      BY <2>1
    <3>2. CASE k = n
      BY <1>1, <1>2, <1>6, <3>1, <3>2
    <3>3. CASE k # n
      BY <1>2, <3>1, <3>3
    <3>4. QED BY <3>2, <3>3
  <2>3. \A k \in StreamNames : k \in e.names <=> k \in DOMAIN groupMappingTable' \/ k = n
    BY <1>1, <1>2, <2>1
  <2>4. \A b \in Nat : b \in e.reserved <=> b \in reservedStreams' \/ b = sid - 1
    BY <1>2, <1>5, <2>1
  <2>5. pc'[c] = "live"
    BY <1>4
  <2>6. QED BY <1>7, <2>2, <2>3, <2>4, <2>5 DEF AheadBy
<1>10. QED BY <1>4, <1>8, <1>9, NothingPosted

(* createStream reserves the id that the table has reserved for the name.       *)
LEMMA PostCreateForeseen ==
  ASSUME SerialInv, TypeInv', NEW c \in Conns, postCreateStream(c) PROVE Foreseen'
<1> DEFINE m == [do |-> "createStream", id |-> 0, name |-> None]
           bit == newStreamId[c] - 1
<1>1. /\ pc[c] = "create" /\ pc' = [pc EXCEPT ![c] = "publish"] /\ closing[c] = "no" /\ Post(m)
      /\ UNCHANGED <<idVars, aioVars, allInOneSessionId, todo, publisherStreamName,
                     newStreamId, oldStreamId, closing>>
  BY DEF postCreateStream, SerialInv, OneAtATime
<1>2. m \in Message /\ m.do = "createStream"
  BY DEF Message
<1> HIDE DEF m
<1>3. pc'[c] = "publish" /\ \A d \in Conns : d # c => pc'[d] = pc[d]
  BY <1>1 DEF SerialInv, TypeInv, TypeOK
<1>4. OnlyHim(c) /\ OnlyHim(c)'
  BY <1>1, <1>3, OnlyOne DEF Busy, OnlyHim
<1>5. bit \in reservedStreams /\ bit \in Nat /\ reservedStreams \subseteq Nat
  <2>1. /\ Head(todo[c]) \in DOMAIN groupMappingTable
        /\ groupMappingTable[Head(todo[c])].streamId = newStreamId[c]
    BY <1>1 DEF SerialInv, InHand
  <2>2. newStreamId[c] \in Nat \ {0} /\ reservedStreams \subseteq Nat
    BY <2>1 DEF SerialInv, TypeInv, TypeOK, Ids!TypeOK, Ids!Entry
  <2>3. bit \in Nat /\ bit + 1 = newStreamId[c]
    BY <2>2
  <2> HIDE DEF bit
  <2>4. QED BY <2>1, <2>2, <2>3 DEF SerialInv, TableKept
<1>6. bit = Ids!LowestClear(reservedStreams \ {bit})
  BY <1>1 DEF SerialInv, InHand
<1>7. ASSUME NEW e \in View, AheadBy(c, e)
      PROVE  \E f \in View : Handled(m, e, f) /\ AheadBy(c, f)'
  <2> DEFINE f == [reserved |-> e.reserved \cup {bit}, on |-> e.on, names |-> e.names]
  <2>1. \A b \in Nat : b \in e.reserved <=> b \in reservedStreams /\ b # bit
    BY <1>1, <1>7 DEF AheadBy
  <2>2. e.reserved = reservedStreams \ {bit}
    BY <1>5, <2>1 DEF View
  <2>3. f \in View /\ f.reserved = e.reserved \cup {bit} /\ f.on = e.on /\ f.names = e.names
    BY <1>5 DEF View
  <2> HIDE DEF f
  <2>4. Handled(m, e, f)
    BY <1>2, <1>6, <2>2, <2>3 DEF Handled
  <2>5. \A b \in Nat : b \in f.reserved <=> b \in reservedStreams'
    BY <1>1, <1>5, <2>2, <2>3 DEF idVars
  <2>6. groupMappingTable' = groupMappingTable /\ closing'[c] = "no" /\ todo'[c] = todo[c]
    BY <1>1 DEF idVars
  <2>7. PICK g \in View : g = f
    BY <2>3
  <2>8. AheadBy(c, g)'
    BY <1>1, <1>3, <1>7, <2>3, <2>5, <2>6, <2>7 DEF AheadBy
  <2>9. QED BY <2>4, <2>7, <2>8
<1>8. pc[c] \notin {"absent", "boot"} /\ UNCHANGED <<aioVars, allInOneSessionId>>
  BY <1>1
<1>9. QED BY <1>1, <1>2, <1>4, <1>7, <1>8, OnePosted

(* publish is accepted: the name has no stream yet, and its id is reserved.     *)
LEMMA PostPublishForeseen ==
  ASSUME SerialInv, TypeInv', NEW c \in Conns, postPublish(c) PROVE Foreseen'
<1> DEFINE n == Head(todo[c])
           id == newStreamId[c]
           m == [do |-> "publish", id |-> id, name |-> n]
<1>1. /\ pc[c] = "publish" /\ closing[c] = "no" /\ Post(m)
      /\ pc' = [pc EXCEPT ![c] = IF Len(todo[c]) > 1 THEN "reserve"
                                 ELSE IF publisherStreamName[c] = None THEN "idle" ELSE "live"]
      /\ UNCHANGED <<idVars, aioVars, allInOneSessionId, closing>>
  BY DEF postPublish, SerialInv, OneAtATime
<1>2. /\ pc'[c] \notin {"create", "publish"} /\ closing'[c] = "no"
      /\ \A d \in Conns : d # c => pc'[d] = pc[d]
  BY <1>1 DEF SerialInv, TypeInv, TypeOK
<1>3. n \in DOMAIN groupMappingTable /\ groupMappingTable[n].streamId = id
  BY <1>1 DEF SerialInv, InHand
<1>4. n \in StreamNames /\ id \in Nat \ {0} /\ id - 1 \in Nat
  <2>1. n \in StreamNames
    BY <1>3 DEF SerialInv, TypeInv, TypeOK, Ids!TypeOK
  <2>2. id \in Nat \ {0}
    BY <1>3 DEF SerialInv, TypeInv, TypeOK, Ids!TypeOK, Ids!Entry
  <2> HIDE DEF id
  <2>3. id - 1 \in Nat
    BY <2>2
  <2>4. QED BY <2>1, <2>2, <2>3
<1>5. id - 1 \in reservedStreams
  BY <1>3, <1>4 DEF SerialInv, TableKept
<1>6. m \in Message /\ m.do = "publish" /\ m.id = id /\ m.name = n
  BY <1>4 DEF Message
<1> HIDE DEF m
<1>7. OnlyHim(c) /\ OnlyHim(c)'
  BY <1>1, <1>2, OnlyOne DEF Busy, OnlyHim
<1>8. ASSUME NEW e \in View, AheadBy(c, e)
      PROVE  \E f \in View : Handled(m, e, f) /\ AheadBy(c, f)'
  <2> DEFINE f == [reserved |-> e.reserved, on |-> {p \in e.on : p[1] # id} \cup {<<id, n>>},
                   names |-> e.names \cup {n}]
  <2>1. /\ \A i \in Nat, k \in StreamNames :
             <<i, k>> \in e.on <=> k \in DOMAIN groupMappingTable /\ i = groupMappingTable[k].streamId /\ k # n
        /\ \A k \in StreamNames : k \in e.names <=> k \in DOMAIN groupMappingTable /\ k # n
        /\ \A b \in Nat : b \in e.reserved <=> b \in reservedStreams
    BY <1>1, <1>8 DEF AheadBy
  <2> HIDE DEF n, id
  <2>2. /\ f \in View /\ f.reserved = e.reserved /\ f.names = e.names \cup {n}
        /\ f.on = {p \in e.on : p[1] # id} \cup {<<id, n>>}
    BY <1>4 DEF View
  <2> HIDE DEF f
  <2>3. Accepted(m, e)
    BY <1>4, <1>5, <1>6, <2>1 DEF Accepted
  <2>4. Handled(m, e, f)
    BY <1>6, <2>2, <2>3 DEF Handled
  <2>5. \A i \in Nat, k \in StreamNames :
          <<i, k>> \in f.on <=> (<<i, k>> \in e.on /\ i # id) \/ (i = id /\ k = n)
    BY <2>2
  <2>6. \A i \in Nat, k \in StreamNames :
          <<i, k>> \in f.on <=> k \in DOMAIN groupMappingTable /\ i = groupMappingTable[k].streamId
    <3> TAKE i \in Nat, k \in StreamNames
    <3>1. k \in DOMAIN groupMappingTable /\ groupMappingTable[k].streamId = id => k = n
      BY <1>3 DEF SerialInv, TableKept, Ids!StreamIdsUnique
    <3>2. QED BY <1>3, <2>1, <2>5, <3>1
  <2>7. \A k \in StreamNames : k \in f.names <=> k \in DOMAIN groupMappingTable
    BY <1>3, <2>1, <2>2
  <2>8. groupMappingTable' = groupMappingTable /\ reservedStreams' = reservedStreams
    BY <1>1 DEF idVars
  <2>9. PICK g \in View : g = f
    BY <2>2
  <2>10. AheadBy(c, g)'
    BY <1>2, <2>1, <2>2, <2>6, <2>7, <2>8, <2>9 DEF AheadBy
  <2>11. QED BY <2>4, <2>9, <2>10
<1>9. pc[c] \notin {"absent", "boot"} /\ UNCHANGED <<aioVars, allInOneSessionId>>
  BY <1>1
<1>10. QED BY <1>1, <1>6, <1>7, <1>8, <1>9, OnePosted

(* deleteStream closes the stream of the entry that is gone, and no other.      *)
LEMMA PostDeleteForeseen ==
  ASSUME SerialInv, TypeInv', NEW c \in Conns, postDeleteStream(c) PROVE Foreseen'
<1> DEFINE n == publisherStreamName[c]
           id == oldStreamId[c]
           m == [do |-> "deleteStream", id |-> id, name |-> None]
<1>1. /\ closing[c] = "message" /\ closing' = [closing EXCEPT ![c] = "done"] /\ pc[c] = "live" /\ Post(m)
      /\ UNCHANGED <<idVars, aioVars, allInOneSessionId, pc, todo, publisherStreamName>>
  BY DEF postDeleteStream, SerialInv, OneAtATime
<1>2. closing'[c] = "done" /\ \A d \in Conns : d # c => closing'[d] = closing[d]
  BY <1>1 DEF SerialInv, TypeInv, TypeOK
<1>3. n \in StreamNames /\ id \in Nat
  BY <1>1 DEF SerialInv, TypeInv, TypeOK, ControlOK, StreamNames
<1>4. n \notin DOMAIN groupMappingTable /\ id # 0 /\ id - 1 \notin reservedStreams
  BY <1>1 DEF SerialInv, InHand
<1>5. \A k \in DOMAIN groupMappingTable : groupMappingTable[k].streamId # id
  <2>1. \A b \in Nat : b \in reservedStreams <=>
          \E k \in DOMAIN groupMappingTable : groupMappingTable[k].streamId = b + 1
    BY DEF SerialInv, TableKept
  <2>2. id - 1 \in Nat /\ (id - 1) + 1 = id
    BY <1>3, <1>4
  <2>3. QED BY <1>4, <2>1, <2>2
<1>6. m \in Message /\ m.do = "deleteStream" /\ m.id = id
  BY <1>3 DEF Message
<1> HIDE DEF m
<1>7. OnlyHim(c) /\ OnlyHim(c)'
  BY <1>1, <1>2, OnlyOne DEF Busy, OnlyHim
<1>8. ASSUME NEW e \in View, AheadBy(c, e)
      PROVE  \E f \in View : Handled(m, e, f) /\ AheadBy(c, f)'
  <2> DEFINE f == [reserved |-> e.reserved \ {id - 1}, on |-> {p \in e.on : p[1] # id},
                   names |-> {k \in e.names : <<id, k>> \notin e.on}]
  <2>1. /\ \A i \in Nat, k \in StreamNames :
             <<i, k>> \in e.on <=> \/ k \in DOMAIN groupMappingTable /\ i = groupMappingTable[k].streamId
                                   \/ k = n /\ i = id
        /\ \A k \in StreamNames : k \in e.names <=> k \in DOMAIN groupMappingTable \/ k = n
        /\ \A b \in Nat : b \in e.reserved <=> b \in reservedStreams \/ b = id - 1
    BY <1>1, <1>8 DEF AheadBy
  <2> HIDE DEF n, id
  <2>2. /\ f \in View /\ f.reserved = e.reserved \ {id - 1}
        /\ f.on = {p \in e.on : p[1] # id}
        /\ f.names = {k \in e.names : <<id, k>> \notin e.on}
    BY DEF View
  <2> HIDE DEF f
  <2>3. Handled(m, e, f)
    BY <1>6, <2>2 DEF Handled
  <2>4. \A i \in Nat, k \in StreamNames : <<i, k>> \in f.on <=> <<i, k>> \in e.on /\ i # id
    BY <2>2
  <2>5. \A i \in Nat, k \in StreamNames :
          <<i, k>> \in f.on <=> k \in DOMAIN groupMappingTable /\ i = groupMappingTable[k].streamId
    <3> TAKE i \in Nat, k \in StreamNames
    <3>1. k \in DOMAIN groupMappingTable => groupMappingTable[k].streamId # id
      BY <1>5
    <3>2. QED BY <2>1, <2>4, <3>1
  <2>6. \A k \in StreamNames : k \in f.names <=> k \in DOMAIN groupMappingTable
    <3> TAKE k \in StreamNames
    <3>1. k \in f.names <=> k \in e.names /\ <<id, k>> \notin e.on
      BY <2>2
    <3>2. <<id, k>> \in e.on <=> k = n
      <4>1. k \in DOMAIN groupMappingTable => groupMappingTable[k].streamId # id
        BY <1>5
      <4>2. QED BY <1>3, <2>1, <4>1
    <3>3. QED BY <1>4, <2>1, <3>1, <3>2
  <2>7. \A b \in Nat : b \in f.reserved <=> b \in reservedStreams
    BY <1>4, <2>1, <2>2
  <2>8. /\ groupMappingTable' = groupMappingTable /\ reservedStreams' = reservedStreams
        /\ pc'[c] = "live"
    BY <1>1 DEF idVars
  <2>9. PICK g \in View : g = f
    BY <2>2
  <2>10. AheadBy(c, g)'
    BY <1>2, <2>5, <2>6, <2>7, <2>8, <2>9 DEF AheadBy
  <2>11. QED BY <2>3, <2>9, <2>10
<1>9. pc[c] \notin {"absent", "boot"} /\ UNCHANGED <<aioVars, allInOneSessionId>>
  BY <1>1
<1>10. QED BY <1>1, <1>6, <1>7, <1>8, <1>9, OnePosted

-----------------------------------------------------------------------------
(* The invariant of the serial case.                                           *)
LEMMA SerialAtStart == ASSUME Init PROVE SerialInv
<1>1. TypeInv
  BY TypesAtStart
<1>2. /\ \A c \in Conns : /\ pc[c] = "absent" /\ closing[c] = "no" /\ todo[c] = <<>>
                          /\ publisherStreamName[c] = None /\ inbox[c] = <<>>
                          /\ connReserved[c] = {} /\ DOMAIN mixedStreams[c] = {}
      /\ mixedProviders = {} /\ allInOneSessionId = None
      /\ \A n \in ClientNames : providers[n] = {}
      /\ DOMAIN groupMappingTable = {} /\ reservedStreams = {}
  BY DEF Init, Ids!Init
<1>3. OneAtATime
  BY <1>2 DEF OneAtATime, Busy
<1>4. NamesKept
  BY <1>2 DEF NamesKept, Making
<1>5. ProvidersKept
  BY <1>2 DEF ProvidersKept, Making
<1>6. TableKept
  BY <1>2 DEF TableKept, Holds, Ids!StreamIdsUnique
<1>7. InHand
  BY <1>2 DEF InHand
<1>8. Foreseen
  BY <1>2 DEF Foreseen
<1>9. QED BY <1>1, <1>3, <1>4, <1>5, <1>6, <1>7, <1>8 DEF SerialInv

LEMMA SerialKept == ASSUME ClientsTakeTurns, SerialInv, [Next]_vars PROVE SerialInv'
<1>1. TypeInv'
  BY TypesKept DEF SerialInv
<1>2. ASSUME ControlInv', TableInv', Foreseen' PROVE SerialInv'
  BY <1>1, <1>2 DEF SerialInv, ControlInv, TableInv
<1>3. ASSUME UNCHANGED <<idVars, connVars, allInOneSessionId>> PROVE ControlInv' /\ TableInv'
  <2>1. OneAtATime' /\ NamesKept' /\ ProvidersKept'
    BY <1>3 DEF SerialInv, OneAtATime, Busy, NamesKept, OfTheServer, ProvidersKept, connVars
  <2>2. TableKept'
    BY <1>3 DEF SerialInv, TableKept, Missing, Left, Holds, Ids!StreamIdsUnique, idVars, connVars
  <2>3. InHand'
    BY <1>3 DEF SerialInv, InHand, idVars, connVars
  <2>4. QED BY <2>1, <2>2, <2>3 DEF ControlInv, TableInv
<1>4. CASE UNCHANGED vars
  <2>1. UNCHANGED <<idVars, connVars, allInOneSessionId>> /\ UNCHANGED <<aioVars, inbox, allInOneSessionId>>
    BY <1>4 DEF vars
  <2>2. \A e \in View : Ahead(e) => Ahead(e)'
    BY <2>1 DEF Ahead, BeingMade, BeingLost, JustReserved, ToFree, idVars, connVars
  <2>3. Foreseen'
    BY <2>1, <2>2, SameForeseen DEF SerialInv
  <2>4. QED BY <1>2, <1>3, <2>1, <2>3
<1>5. CASE Next
  <2>1. PICK c \in Conns : Client(c) \/ Thread(c) \/ Executor(c)
    BY <1>5 DEF Next
  <2>2. CASE sessionCreated(c)
    BY <1>2, <2>2, SessionCreatedControl, SessionCreatedTable, SessionCreatedForeseen
  <2>3. CASE closeStream(c)
    BY <1>2, <2>3, CloseControl, CloseTable, CloseForeseen
  <2>4. CASE \E n \in ClientNames : publish(c, n)
    BY <1>2, <2>4, PublishControl, PublishTable, PublishForeseen
  <2>5. CASE tryToCreateAllInOneConn(c)
    BY <1>1, <1>2, <2>5, TryToCreateControl, TryToCreateTable, TryToCreateForeseen
  <2>6. CASE registerBroadcastStream(c)
    BY <1>2, <2>6, RegisterControl, RegisterTable, RegisterForeseen
  <2>7. CASE createMixedStream(c)
    BY <1>1, <1>2, <2>7, CreateMixedControl, CreateMixedTable, CreateMixedForeseen
  <2>8. CASE postCreateStream(c)
    BY <1>1, <1>2, <2>8, PostCreateControl, PostCreateTable, PostCreateForeseen
  <2>9. CASE postPublish(c)
    BY <1>1, <1>2, <2>9, PostPublishControl, PostPublishTable, PostPublishForeseen
  <2>10. CASE deleteMixedStream(c)
    BY <1>1, <1>2, <2>10, DeleteMixedControl, DeleteMixedTable, DeleteMixedForeseen
  <2>11. CASE postDeleteStream(c)
    BY <1>1, <1>2, <2>11, PostDeleteControl, PostDeleteTable, PostDeleteForeseen
  <2>12. CASE closed(c)
    BY <1>2, <2>12, ClosedControl, ClosedTable, ClosedForeseen
  <2>13. CASE Executor(c)
    <3>1. UNCHANGED <<idVars, connVars, allInOneSessionId>>
      BY <2>13 DEF Executor, handleCreateStream, handlePublish, handleDeleteStream, Take
    <3>2. Foreseen'
      BY <1>1, <2>13, ExecutorForeseen
    <3>3. QED BY <1>2, <1>3, <3>1, <3>2
  <2>14. QED BY <2>1, <2>2, <2>3, <2>4, <2>5, <2>6, <2>7, <2>8, <2>9, <2>10, <2>11, <2>12, <2>13
         DEF Client, Thread
<1>6. QED BY <1>4, <1>5

LEMMA SerialHolds == ASSUME ClientsTakeTurns PROVE Spec => []SerialInv
<1>1. Init => SerialInv
  BY SerialAtStart
<1>2. SerialInv /\ [Next]_vars => SerialInv'
  BY SerialKept
<1>3. QED BY <1>1, <1>2, PTL DEF Spec

-----------------------------------------------------------------------------
LEMMA StepsAgree == SerialInv => IdsInStep
<1> SUFFICES ASSUME SerialInv, Quiescent, allInOneSessionId # None
             PROVE  /\ \A n \in Ids!Mapped : OnAir(n)
                    /\ connReserved[allInOneSessionId] = reservedStreams
  BY DEF IdsInStep
<1>1. PICK a \in Conns : a = allInOneSessionId
  BY DEF SerialInv, TypeInv, TypeOK
<1>2. PICK e \in View : Leads(inbox[a], Now(a), e) /\ Ahead(e)
  BY <1>1 DEF SerialInv, Foreseen
<1>3. inbox[a] = <<>> /\ \A c \in Conns : closing[c] = "no" /\ pc[c] \notin {"create", "publish"}
  BY DEF Quiescent, ThreadsAtRest
<1>4. NowShows(a)
  BY NowHas DEF SerialInv
<1>5. e = Now(a)
  BY <1>2, <1>3, <1>4, LeadsNowhere DEF NowShows
<1>6. /\ \A id \in Nat, n \in StreamNames :
           <<id, n>> \in e.on <=> n \in DOMAIN groupMappingTable /\ id = groupMappingTable[n].streamId
      /\ \A b \in Nat : b \in e.reserved <=> b \in reservedStreams
  BY <1>2, <1>3 DEF Ahead, BeingMade, BeingLost, JustReserved, ToFree
<1>7. ASSUME NEW n \in Ids!Mapped PROVE OnAir(n)
  <2>1. n \in StreamNames /\ n \in DOMAIN groupMappingTable
    BY <1>7 DEF SerialInv, TypeInv, TypeOK, Ids!TypeOK
  <2>2. groupMappingTable[n].streamId \in Nat
    BY <2>1 DEF SerialInv, TypeInv, TypeOK, Ids!TypeOK, Ids!Entry
  <2>3. Ids!lookupStreamId(n) = groupMappingTable[n].streamId
    BY <2>1 DEF Ids!lookupStreamId
  <2>4. <<groupMappingTable[n].streamId, n>> \in Now(a).on
    BY <1>5, <1>6, <2>1, <2>2
  <2>5. groupMappingTable[n].streamId \in DOMAIN mixedStreams[a]
        /\ mixedStreams[a][groupMappingTable[n].streamId] = n
    BY <1>4, <2>1, <2>2, <2>4 DEF NowShows
  <2>6. QED BY <1>1, <2>3, <2>5 DEF OnAir
<1>8. connReserved[a] = reservedStreams
  <2>1. connReserved[a] \subseteq Nat /\ reservedStreams \subseteq Nat
    BY DEF SerialInv, TypeInv, TypeOK, Ids!TypeOK
  <2>2. \A b \in Nat : b \in connReserved[a] <=> b \in reservedStreams
    BY <1>4, <1>5, <1>6 DEF NowShows
  <2>3. QED BY <2>1, <2>2
<1>9. QED BY <1>1, <1>7, <1>8

LEMMA TableAgrees == SerialInv => TableIsTheParticipants
<1> SUFFICES ASSUME SerialInv, Quiescent, allInOneSessionId # None
             PROVE  Ids!Mapped = SystemNameSet \cup {publisherStreamName[c] : c \in {d \in Conns : pc[d] = "live"}}
  BY DEF TableIsTheParticipants
<1>1. \A c \in Conns : closing[c] = "no" /\ pc[c] \in {"absent", "idle", "live"}
  BY DEF Quiescent, ThreadsAtRest
<1>2. \A n \in StreamNames : ~Missing(n)
  BY <1>1 DEF Missing, Making
<1>3. \A c \in Conns : Holds(c) <=> pc[c] = "live"
  BY <1>1 DEF Holds, SerialInv, NamesKept
<1>4. \A n \in StreamNames :
        n \in Ids!Mapped <=> n \in SystemNameSet \/ \E c \in Conns : pc[c] = "live" /\ publisherStreamName[c] = n
  BY <1>2, <1>3 DEF SerialInv, TableKept
<1>5. Ids!Mapped \subseteq StreamNames /\ SystemNameSet \subseteq StreamNames
  BY DEF SerialInv, TypeInv, TypeOK, Ids!TypeOK, StreamNames
<1>6. \A c \in Conns : pc[c] = "live" => publisherStreamName[c] \in StreamNames
  BY DEF SerialInv, NamesKept, TypeInv, TypeOK, StreamNames
<1>7. QED BY <1>4, <1>5, <1>6

(* However many clients come and go, one at a time: whenever nothing is under    *)
(* way every entry of the table has its mixed stream on the all-in-one           *)
(* connection, under the entry's own id, and that connection has reserved the   *)
(* same ids as the table.  The id that createStream finds is never exchanged:   *)
(* two counters in two classes agree (IdLookup.java:37-48, RTMPConnection.java:510). *)
THEOREM IdsAgree == ASSUME ClientsTakeTurns PROVE Spec => []IdsInStep
<1>1. QED BY SerialHolds, StepsAgree, PTL

(* ... and the table holds the system's streams and the live clients' names, no  *)
(* more and no less (GroupMixer.java:96-110).                               *)
THEOREM TableIsRight == ASSUME ClientsTakeTurns PROVE Spec => []TableIsTheParticipants
<1>1. QED BY SerialHolds, TableAgrees, PTL

-----------------------------------------------------------------------------
(* A name that is on the air later, with no publish message for it to come, is   *)
(* on the air now.                                                            *)
LEMMA OnAllTheWay ==
  ASSUME NEW q \in Seq(Message), NEW s \in View, NEW e \in View, Leads(q, s, e),
         NEW id \in Nat, NEW n \in StreamNames, <<id, n>> \in e.on,
         \A i \in 1 .. Len(q) : ~(q[i].do = "publish" /\ q[i].name = n)
  PROVE  <<id, n>> \in s.on
<1>1. PICK v \in [Nat -> View] :
        /\ v[0] = s /\ v[Len(q)] = e
        /\ \A i \in 1 .. Len(q) : Handled(q[i], v[i - 1], v[i])
  BY DEF Leads
<1> DEFINE S == {i \in Nat : i <= Len(q) /\ <<id, n>> \in v[i].on}
<1>2. Len(q) \in S /\ S \subseteq Nat
  BY <1>1
<1>3. PICK i \in S : \A j \in S : i <= j
  BY <1>2, LeastNumber
<1>4. i \in Nat /\ i <= Len(q) /\ <<id, n>> \in v[i].on
  BY <1>3
<1> HIDE DEF S
<1>5. ASSUME i # 0 PROVE FALSE
  <2>1. i - 1 \in Nat /\ i - 1 < i /\ i \in 1 .. Len(q) /\ Len(q) \in Nat
    BY <1>4, <1>5
  <2>2. i - 1 \notin S
    <3>1. ASSUME i - 1 \in S PROVE i <= i - 1
      BY <1>3, <3>1
    <3>2. QED BY <2>1, <3>1
  <2>3. <<id, n>> \notin v[i - 1].on
    BY <1>4, <2>1, <2>2 DEF S
  <2>4. Handled(q[i], v[i - 1], v[i])
    BY <1>1, <2>1
  <2>5. q[i].do = "publish" /\ q[i].name = n
    BY <1>4, <2>3, <2>4 DEF Handled
  <2>6. QED BY <2>1, <2>5
<1>6. QED BY <1>1, <1>4, <1>5

LEMMA StreamKept ==
  ASSUME ClientsTakeTurns, SerialInv, TypeInv', Next, NEW c \in Conns,
         pc[c] = "live", pc'[c] = "live", closing[c] = "no", closing'[c] = "no",
         OnAir(publisherStreamName[c]), ~PublishPending(publisherStreamName[c])
  PROVE  OnAir(publisherStreamName[c])'
<1>1. PICK d \in Conns : Client(d) \/ Thread(d) \/ Executor(d)
  BY DEF Next
<1>2. PICK n \in ClientNames : n = publisherStreamName[c] /\ n # None
  BY DEF SerialInv, TypeInv, TypeOK, NamesKept
<1>3. PICK a \in Conns : a = allInOneSessionId /\ a # None
  BY DEF OnAir, SerialInv, TypeInv, TypeOK
<1>4. n \in StreamNames /\ n \notin SystemNameSet /\ n \in DOMAIN groupMappingTable
  <2>1. Holds(c) /\ n \in StreamNames /\ n \notin SystemNameSet
    BY <1>2 DEF Holds, StreamNames, ClientsTakeTurns
  <2>2. QED BY <1>2, <2>1 DEF SerialInv, TableKept
<1>5. PICK id \in Nat : id = groupMappingTable[n].streamId
  BY <1>4 DEF SerialInv, TypeInv, TypeOK, Ids!TypeOK, Ids!Entry
<1>6. id \in DOMAIN mixedStreams[a] /\ mixedStreams[a][id] = n
  BY <1>2, <1>3, <1>4, <1>5 DEF OnAir, Ids!lookupStreamId
<1>7. allInOneSessionId' = a
  <2>1. pc[d] # "boot"
    BY <1>3 DEF SerialInv, OneAtATime
  <2>2. UNCHANGED allInOneSessionId
    BY <1>1, <2>1 DEF Client, Thread, Executor, sessionCreated, closeStream, publish, tryToCreateAllInOneConn,
       registerBroadcastStream, createMixedStream, postCreateStream, postPublish, deleteMixedStream,
       postDeleteStream, closed, handleCreateStream, handlePublish, handleDeleteStream, Take
  <2>3. QED BY <1>3, <2>2
<1>8. publisherStreamName'[c] = n
  <2>1. CASE \E m \in ClientNames : publish(d, m)
    BY <1>2, <2>1 DEF publish, SerialInv, TypeInv, TypeOK
  <2>2. CASE closed(d)
    BY <1>2, <2>2 DEF closed, SerialInv, TypeInv, TypeOK
  <2>3. CASE UNCHANGED publisherStreamName
    BY <1>2, <2>3
  <2>4. QED
    BY <1>1, <2>1, <2>2, <2>3 DEF Client, Thread, Executor, sessionCreated, closeStream, tryToCreateAllInOneConn,
       registerBroadcastStream, createMixedStream, postCreateStream, postPublish, deleteMixedStream,
       postDeleteStream, handleCreateStream, handlePublish, handleDeleteStream, Take, connVars
<1>9. n \in DOMAIN groupMappingTable' /\ groupMappingTable'[n].streamId = id
  <2>1. CASE createMixedStream(d)
    <3>1. Ids!createNewEntry(Head(todo[d])) /\ Head(todo[d]) \in StreamNames
          /\ Head(todo[d]) \notin DOMAIN groupMappingTable
      BY <2>1, NotMappedYet DEF createMixedStream
    <3>2. Ids!TypeOK
      BY DEF SerialInv, TypeInv, TypeOK
    <3>3. /\ DOMAIN groupMappingTable' = DOMAIN groupMappingTable \cup {Head(todo[d])}
          /\ \A k \in DOMAIN groupMappingTable : k # Head(todo[d]) => groupMappingTable'[k] = groupMappingTable[k]
      BY <3>1, <3>2, NewEntry
    <3>4. QED BY <1>4, <1>5, <3>1, <3>3
  <2>2. CASE deleteMixedStream(d)
    <3>1. closing[d] = "entry" /\ Ids!deleteEntry(publisherStreamName[d])
      BY <2>2 DEF deleteMixedStream
    <3>2. Ids!TypeOK /\ publisherStreamName[d] \in DOMAIN groupMappingTable
      BY <3>1, StillMapped DEF SerialInv, TypeInv, TypeOK
    <3>3. /\ DOMAIN groupMappingTable' = DOMAIN groupMappingTable \ {publisherStreamName[d]}
          /\ \A k \in DOMAIN groupMappingTable' : groupMappingTable'[k] = groupMappingTable[k]
      BY <3>1, <3>2, OldEntry
    <3>4. publisherStreamName[d] # n
      BY <1>2, <3>1 DEF SerialInv, NamesKept
    <3>5. QED BY <1>4, <1>5, <3>3, <3>4
  <2>3. CASE UNCHANGED idVars
    BY <1>4, <1>5, <2>3 DEF idVars
  <2>4. QED
    BY <1>1, <2>1, <2>2, <2>3 DEF Client, Thread, Executor, sessionCreated, closeStream, publish,
       tryToCreateAllInOneConn, registerBroadcastStream, postCreateStream, postPublish, postDeleteStream,
       closed, handleCreateStream, handlePublish, handleDeleteStream, Take
<1>10. id \in DOMAIN mixedStreams'[a] /\ mixedStreams'[a][id] = n
  <2>1. CASE Executor(d)
    <3>1. d = a
      BY <1>3, <2>1 DEF SerialInv, Foreseen, Executor, handleCreateStream, handlePublish,
         handleDeleteStream, Take
    <3>2. /\ inbox[a] \in Seq(Message) /\ inbox[a] # <<>> /\ Head(inbox[a]) \in Message
      BY <2>1, <3>1, TakeTypes DEF Executor, handleCreateStream, handlePublish, handleDeleteStream, SerialInv
    <3>3. Handled(Head(inbox[a]), Now(a), Now(a)')
      BY <2>1, <3>1, CreateHandled, PublishHandled, DeleteHandled DEF Executor, SerialInv
    <3>4. PICK e \in View : Leads(inbox[a], Now(a), e) /\ Ahead(e)
      BY <1>3 DEF SerialInv, Foreseen
    <3>5. Now(a) \in View /\ NowShows(a)'
      BY NowIsView, NowHasThen DEF SerialInv
    <3>6. PICK t \in View : Handled(Head(inbox[a]), Now(a), t) /\ Leads(Tail(inbox[a]), t, e)
      BY <3>2, <3>4, <3>5, LeadsFrom
    <3>7. t = Now(a)'
      BY <3>2, <3>3, <3>5, <3>6, HandledOneWay DEF NowShows
    <3>8. ~BeingMade(n)
      <4>1. ASSUME NEW b \in Conns, pc[b] \in {"create", "publish"}, n = Head(todo[b]) PROVE FALSE
        <5>1. pc[b] \in Making /\ todo[b] \in Seq(StreamNames) /\ todo[b] # <<>> /\ b # c
          BY <4>1 DEF Making, SerialInv, TypeInv, TypeOK, ControlOK
        <5>2. \/ publisherStreamName[b] # None /\ todo[b] = <<publisherStreamName[b]>>
              \/ publisherStreamName[b] = None /\ OfTheServer(todo[b])
          BY <5>1 DEF SerialInv, NamesKept
        <5>3. CASE publisherStreamName[b] # None /\ todo[b] = <<publisherStreamName[b]>>
          <6>1. publisherStreamName[b] = publisherStreamName[c] /\ publisherStreamName[b] # None
            BY <1>2, <4>1, <5>3
          <6>2. QED BY <5>1, <6>1 DEF SerialInv, NamesKept
        <5>4. CASE OfTheServer(todo[b])
          BY <1>4, <4>1, <5>1, <5>4 DEF OfTheServer
        <5>5. QED BY <5>2, <5>3, <5>4
      <4>2. QED BY <4>1 DEF BeingMade
    <3>9. <<id, n>> \in e.on
      BY <1>4, <1>5, <3>4, <3>8 DEF Ahead
    <3>10. \A i \in 1 .. Len(Tail(inbox[a])) :
             ~(Tail(inbox[a])[i].do = "publish" /\ Tail(inbox[a])[i].name = n)
      <4>1. \A i \in DOMAIN inbox[a] : ~(inbox[a][i].do = "publish" /\ inbox[a][i].name = n)
        BY <1>2 DEF PublishPending
      <4>2. \A i \in 1 .. Len(Tail(inbox[a])) : i + 1 \in DOMAIN inbox[a] /\ Tail(inbox[a])[i] = inbox[a][i + 1]
        BY <3>2
      <4>3. QED BY <4>1, <4>2
    <3>11. Tail(inbox[a]) \in Seq(Message)
      BY <3>2
    <3>12. <<id, n>> \in t.on
      BY <1>4, <3>6, <3>9, <3>10, <3>11, OnAllTheWay
    <3>13. QED BY <1>4, <3>5, <3>7, <3>12 DEF NowShows
  <2>2. CASE UNCHANGED aioVars
    BY <1>6, <2>2 DEF aioVars
  <2>3. QED
    BY <1>1, <2>1, <2>2 DEF Client, Thread, sessionCreated, closeStream, publish, tryToCreateAllInOneConn,
       registerBroadcastStream, createMixedStream, postCreateStream, postPublish, deleteMixedStream,
       postDeleteStream, closed
<1>11. QED BY <1>3, <1>7, <1>8, <1>9, <1>10 DEF OnAir, Ids!lookupStreamId

(* Once a live participant's publish message has been handled nobody's coming or *)
(* going, and no message left over from an earlier holder of the name or of the  *)
(* id, takes the mixed stream away (StreamService.java:584-640,                *)
(* RTMPConnection.java:870-890).                                            *)
THEOREM MineIsMine == ASSUME ClientsTakeTurns PROVE Spec => NobodyElseTakesMyStream
<1> DEFINE Mine ==
      \A c \in Conns :
        /\ pc[c] = "live" /\ pc'[c] = "live" /\ closing[c] = "no" /\ closing'[c] = "no"
        /\ OnAir(publisherStreamName[c]) /\ ~PublishPending(publisherStreamName[c])
        => OnAir(publisherStreamName[c])'
<1>1. SerialInv /\ [Next]_vars => [Mine]_vars
  <2> SUFFICES ASSUME SerialInv, Next PROVE Mine
    OBVIOUS
  <2>1. TypeInv'
    BY TypesKept DEF SerialInv
  <2>2. QED BY <2>1, StreamKept
<1>2. QED BY <1>1, SerialHolds, PTL DEF Spec, NobodyElseTakesMyStream
=============================================================================
