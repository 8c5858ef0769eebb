----------------------------- MODULE GroupMixer -----------------------------
(***************************************************************************)
(* How a participant gets a mixed stream of their own, and loses it.       *)
(*                                                                         *)
(* Threads.  Every RTMP connection handles its messages one at a time, on  *)
(* an executor of one thread (red5-core.xml, messageExecutor); connections *)
(* run concurrently.  GroupMixer keeps one more connection, "all in one",  *)
(* which has no client: whoever needs a mixed stream posts createStream,   *)
(* publish and deleteStream messages to its executor and does not wait for *)
(* them.  A lost client is closed by an I/O thread while its executor may  *)
(* still be publishing.                                                    *)
(*                                                                         *)
(* IdLookup names the stream id of the publish message; the all-in-one     *)
(* connection reserves an id of its own for each createStream, and the two *)
(* are meant to agree.                                                     *)
(***************************************************************************)
EXTENDS Integers, Sequences, FiniteSets

CONSTANTS
  Conns,             \* client connections
  ClientNames,       \* stream names the clients publish
  SystemNames,       \* <<"allinone", "karaoke", "karaoke_delayed">> or its head
  AllInOneNames, KaraokeNames, MAX_STREAM_COUNT,
  None,
  Serial,            \* clients come and go one at a time
  MaxBacklog         \* bound: no client starts while an inbox is longer

ASSUME SerialAssumption == Serial \in BOOLEAN
ASSUME NoneAssumption   == None \notin Conns \cup ClientNames
ASSUME SlotsAssumption  == MAX_STREAM_COUNT \in Nat \ {0}

VARIABLES
  groupMappingTable, totalInputStreams, reservedStreams, mixerStreams,
  allInOneSessionId,   \* the session whose sessionCreated made the current one
  providers,           \* client name -> connections publishing it
  pc, todo,            \* what a connection's thread does; mixed streams to create
  publisherStreamName, \* connection -> the name it publishes
  newStreamId,         \* local of createMixedStream
  oldStreamId,         \* local of deleteMixedStream
  closing,             \* deleteStream of a connection's stream, step by step
  inbox,               \* all-in-one connection -> messages its executor has to do
  connReserved,        \* all-in-one connection -> its reserved stream ids
  mixedStreams,        \* all-in-one connection -> (stream id -> name published)
  mixedProviders       \* names of mixed streams that have a provider

idVars   == <<groupMappingTable, totalInputStreams, reservedStreams, mixerStreams>>
connVars == <<providers, pc, todo, publisherStreamName, newStreamId, oldStreamId, closing>>
aioVars  == <<connReserved, mixedStreams, mixedProviders>>
vars     == <<idVars, connVars, aioVars, allInOneSessionId, inbox>>

SystemNameSet == {SystemNames[i] : i \in DOMAIN SystemNames}
StreamNames   == ClientNames \cup SystemNameSet

ASSUME SystemNamesAssumption ==
  /\ SystemNames \in Seq(SystemNameSet) /\ SystemNames # <<>> /\ None \notin SystemNameSet
  /\ \A i, j \in DOMAIN SystemNames : SystemNames[i] = SystemNames[j] => i = j

Ids == INSTANCE IdLookup WITH Names <- StreamNames, contractKept <- TRUE

ThreadsAtRest == \A c \in Conns : closing[c] = "no" /\ pc[c] \in {"absent", "idle", "live"}
Quiescent     == ThreadsAtRest /\ \A c \in Conns : inbox[c] = <<>>

(* Serial: one client at a time goes through its steps; what they posted to   *)
(* the all-in-one connection need not have been handled yet.               *)
MayStart ==
  /\ Serial => ThreadsAtRest
  /\ \A c \in Conns : Len(inbox[c]) <= MaxBacklog

Init ==
  /\ Ids!Init
  /\ allInOneSessionId = None
  /\ providers = [n \in ClientNames |-> {}]
  /\ pc = [c \in Conns |-> "absent"]
  /\ todo = [c \in Conns |-> <<>>]
  /\ publisherStreamName = [c \in Conns |-> None]
  /\ newStreamId = [c \in Conns |-> 0]
  /\ oldStreamId = [c \in Conns |-> 0]
  /\ closing = [c \in Conns |-> "no"]
  /\ inbox = [c \in Conns |-> <<>>]
  /\ connReserved = [c \in Conns |-> {}]
  /\ mixedStreams = [c \in Conns |-> [i \in {} |-> None]]
  /\ mixedProviders = {}

-----------------------------------------------------------------------------
(* sessionCreated, on an I/O thread: tryToCreateAllInOneConn tests the        *)
(* session id and sets it later, without a lock.                           *)
sessionCreated(c) ==
  /\ pc[c] = "absent" /\ MayStart
  /\ pc' = [pc EXCEPT ![c] = IF allInOneSessionId = None THEN "boot" ELSE "idle"]
  /\ UNCHANGED <<idVars, aioVars, allInOneSessionId, inbox, providers, todo,
                 publisherStreamName, newStreamId, oldStreamId, closing>>

tryToCreateAllInOneConn(c) ==
  /\ pc[c] = "boot"
  /\ allInOneSessionId' = c
  /\ pc' = [pc EXCEPT ![c] = "reserve"]
  /\ todo' = [todo EXCEPT ![c] = SystemNames]
  /\ UNCHANGED <<idVars, aioVars, inbox, providers, publisherStreamName, newStreamId, oldStreamId, closing>>

-----------------------------------------------------------------------------
(* StreamService.publish, on the connection's executor: the name is tested  *)
(* and registered in two steps.                                            *)
publish(c, n) ==
  /\ pc[c] = "idle" /\ MayStart
  /\ providers[n] = {}
  /\ pc' = [pc EXCEPT ![c] = "checked"]
  /\ publisherStreamName' = [publisherStreamName EXCEPT ![c] = n]
  /\ UNCHANGED <<idVars, aioVars, allInOneSessionId, inbox, providers, todo, newStreamId, oldStreamId, closing>>

registerBroadcastStream(c) ==
  /\ pc[c] = "checked"
  /\ providers' = [providers EXCEPT ![publisherStreamName[c]] = @ \cup {c}]
  /\ pc' = [pc EXCEPT ![c] = "reserve"]
  /\ todo' = [todo EXCEPT ![c] = <<publisherStreamName[c]>>]
  /\ UNCHANGED <<idVars, aioVars, allInOneSessionId, inbox, publisherStreamName, newStreamId, oldStreamId, closing>>

(* createMixedStream: an entry, then the messages to the all-in-one           *)
(* connection of that moment, each its own step.                           *)
createMixedStream(c) ==
  /\ pc[c] = "reserve"
  /\ Ids!createNewEntry(Head(todo[c]))
  /\ newStreamId' = [newStreamId EXCEPT ![c] = Ids!reserveStreamId]
  /\ pc' = [pc EXCEPT ![c] = "create"]
  /\ UNCHANGED <<aioVars, allInOneSessionId, inbox, providers, todo, publisherStreamName, oldStreamId, closing>>

(* The code gets the connection once for a sequence of messages, here each time: *)
(* they differ only when a second all-in-one connection was made in between.    *)
Post(message) == inbox' = [inbox EXCEPT ![allInOneSessionId] = Append(@, message)]

postCreateStream(c) ==
  /\ pc[c] = "create"
  /\ Post([do |-> "createStream", id |-> 0, name |-> None])
  /\ pc' = [pc EXCEPT ![c] = "publish"]
  /\ UNCHANGED <<idVars, aioVars, allInOneSessionId, providers, todo, publisherStreamName,
                 newStreamId, oldStreamId, closing>>

postPublish(c) ==
  /\ pc[c] = "publish"
  /\ Post([do |-> "publish", id |-> newStreamId[c], name |-> Head(todo[c])])
  /\ todo' = [todo EXCEPT ![c] = Tail(@)]
  /\ pc' = [pc EXCEPT ![c] =
              IF Len(todo[c]) > 1 THEN "reserve"
              ELSE IF publisherStreamName[c] = None THEN "idle" ELSE "live"]
  /\ UNCHANGED <<idVars, aioVars, allInOneSessionId, providers, publisherStreamName,
                 newStreamId, oldStreamId, closing>>

-----------------------------------------------------------------------------
(* StreamService.deleteStream: by the executor once the client is live, or by *)
(* an I/O thread as soon as the stream is registered.  stream.close() frees *)
(* the name; the entry and the mixed stream go afterwards.                 *)
closeStream(c) ==
  /\ pc[c] \in {"reserve", "create", "publish", "live"}
  /\ publisherStreamName[c] # None /\ closing[c] = "no" /\ MayStart
  /\ providers' = [providers EXCEPT ![publisherStreamName[c]] = @ \ {c}]
  /\ closing' = [closing EXCEPT ![c] = "entry"]
  /\ UNCHANGED <<idVars, aioVars, allInOneSessionId, inbox, pc, todo, publisherStreamName, newStreamId, oldStreamId>>

(* Mutated form: the message goes out and the entry stays.                     *)
deleteMixedStream_EntryKept(c) ==
  /\ closing[c] = "entry"
  /\ UNCHANGED idVars
  /\ closing' = [closing EXCEPT ![c] = "message"]
  /\ oldStreamId' = [oldStreamId EXCEPT ![c] = Ids!lookupStreamId(publisherStreamName[c])]
  /\ UNCHANGED <<aioVars, allInOneSessionId, inbox, providers, pc, todo, publisherStreamName,
                 newStreamId>>

(* deleteMixedStream: by name, whoever's entry that is by now.                *)
deleteMixedStream(c) ==
  /\ closing[c] = "entry"
  /\ Ids!deleteEntry(publisherStreamName[c])
  /\ LET id == Ids!lookupStreamId(publisherStreamName[c])
     IN  closing' = [closing EXCEPT ![c] = IF id = -1 THEN "done" ELSE "message"]
         /\ oldStreamId' = [oldStreamId EXCEPT ![c] = IF id = -1 THEN @ ELSE id]
  /\ UNCHANGED <<aioVars, allInOneSessionId, inbox, providers, pc, todo, publisherStreamName,
                 newStreamId>>

postDeleteStream(c) ==
  /\ closing[c] = "message"
  /\ Post([do |-> "deleteStream", id |-> oldStreamId[c], name |-> None])
  /\ closing' = [closing EXCEPT ![c] = "done"]
  /\ UNCHANGED <<idVars, aioVars, allInOneSessionId, providers, pc, todo, publisherStreamName, newStreamId, oldStreamId>>

closed(c) ==
  /\ closing[c] = "done" /\ pc[c] = "live"
  /\ closing' = [closing EXCEPT ![c] = "no"]
  /\ pc' = [pc EXCEPT ![c] = "idle"]
  /\ publisherStreamName' = [publisherStreamName EXCEPT ![c] = None]
  /\ UNCHANGED <<idVars, aioVars, allInOneSessionId, inbox, providers, todo, newStreamId, oldStreamId>>

-----------------------------------------------------------------------------
(* The all-in-one connection's executor.                                   *)
Take(a, kind) ==
  /\ inbox[a] # <<>> /\ Head(inbox[a]).do = kind
  /\ inbox' = [inbox EXCEPT ![a] = Tail(@)]
  /\ UNCHANGED <<idVars, connVars, allInOneSessionId>>

(* Mutated form: the bit before the one found is set.                          *)
handleCreateStream_OffByOne(a) ==
  /\ Take(a, "createStream")
  /\ connReserved' = [connReserved EXCEPT ![a] = @ \cup {Ids!LowestClear(@) - 1}]
  /\ UNCHANGED <<mixedStreams, mixedProviders>>

(* RTMPConnection.reserveStreamId; nobody reads the id it returns.            *)
handleCreateStream(a) ==
  /\ Take(a, "createStream")
  /\ connReserved' = [connReserved EXCEPT ![a] = @ \cup {Ids!LowestClear(@)}]
  /\ UNCHANGED <<mixedStreams, mixedProviders>>

(* StreamService.publish of a mixed name: refused while the name has a        *)
(* provider; a stream that exists under the id is published again under the *)
(* new name; otherwise the id must have been reserved.                     *)
CanPublish(a, msg) ==
  /\ msg.name \notin mixedProviders
  /\ msg.id \in DOMAIN mixedStreams[a] \/ msg.id - 1 \in connReserved[a]

handlePublish(a) ==
  /\ Take(a, "publish")
  /\ LET msg == Head(inbox[a])
     IN  IF CanPublish(a, msg)
           THEN /\ mixedStreams' = [mixedStreams EXCEPT ![a] =
                     [i \in DOMAIN @ \cup {msg.id} |-> IF i = msg.id THEN msg.name ELSE @[i]]]
                /\ mixedProviders' = mixedProviders \cup {msg.name}
           ELSE UNCHANGED <<mixedStreams, mixedProviders>>
  /\ UNCHANGED connReserved

(* Mutated forms of handleDeleteStream: deleteStreamById without the           *)
(* unreserve; every stream of the connection closed; the provider kept.    *)
handleDeleteStream_IdKept(a) ==
  /\ Take(a, "deleteStream")
  /\ LET id == Head(inbox[a]).id
     IN  /\ mixedStreams' = [mixedStreams EXCEPT ![a] = [i \in DOMAIN @ \ {id} |-> @[i]]]
         /\ mixedProviders' = mixedProviders \ {mixedStreams[a][i] : i \in DOMAIN mixedStreams[a] \cap {id}}
  /\ UNCHANGED connReserved
handleDeleteStream_ClosesAll(a) ==
  /\ Take(a, "deleteStream")
  /\ mixedStreams' = [mixedStreams EXCEPT ![a] = [i \in {} |-> None]]
  /\ mixedProviders' = {}
  /\ connReserved' = [connReserved EXCEPT ![a] = @ \ {Head(inbox[a]).id - 1}]
handleDeleteStream_ProviderKept(a) ==
  /\ Take(a, "deleteStream")
  /\ LET id == Head(inbox[a]).id
     IN  /\ mixedStreams' = [mixedStreams EXCEPT ![a] = [i \in DOMAIN @ \ {id} |-> @[i]]]
         /\ connReserved' = [connReserved EXCEPT ![a] = @ \ {id - 1}]
  /\ UNCHANGED mixedProviders

(* StreamService.deleteStream: the stream leaves the last name it was          *)
(* published under, and the id is free again.                              *)
handleDeleteStream(a) ==
  /\ Take(a, "deleteStream")
  /\ LET id == Head(inbox[a]).id
     IN  /\ mixedStreams' = [mixedStreams EXCEPT ![a] = [i \in DOMAIN @ \ {id} |-> @[i]]]
         /\ mixedProviders' = mixedProviders \ {mixedStreams[a][i] : i \in DOMAIN mixedStreams[a] \cap {id}}
         /\ connReserved' = [connReserved EXCEPT ![a] = @ \ {id - 1}]

-----------------------------------------------------------------------------
Thread(c) ==
  \/ tryToCreateAllInOneConn(c) \/ registerBroadcastStream(c) \/ createMixedStream(c)
  \/ postCreateStream(c) \/ postPublish(c)
  \/ deleteMixedStream(c) \/ postDeleteStream(c) \/ closed(c)
Executor(a) == handleCreateStream(a) \/ handlePublish(a) \/ handleDeleteStream(a)
Client(c)   == sessionCreated(c) \/ closeStream(c) \/ \E n \in ClientNames : publish(c, n)

Next == \E c \in Conns : Client(c) \/ Thread(c) \/ Executor(c)

(* Threads that have work do it; clients come and go as they like.           *)
Fairness == \A c \in Conns : WF_vars(Thread(c)) /\ WF_vars(Executor(c))
Spec == Init /\ [][Next]_vars /\ Fairness

-----------------------------------------------------------------------------
Message == [do : {"createStream", "publish", "deleteStream"}, id : Nat,
            name : StreamNames \cup {None}]
TypeOK ==
  /\ Ids!TypeOK
  /\ allInOneSessionId \in Conns \cup {None}
  /\ providers \in [ClientNames -> SUBSET Conns]
  /\ pc \in [Conns -> {"absent", "boot", "idle", "checked", "reserve", "create", "publish", "live"}]
  /\ closing \in [Conns -> {"no", "entry", "message", "done"}]
  /\ publisherStreamName \in [Conns -> ClientNames \cup {None}]
  /\ todo \in [Conns -> Seq(StreamNames)] /\ inbox \in [Conns -> Seq(Message)]
  /\ newStreamId \in [Conns -> Nat] /\ oldStreamId \in [Conns -> Nat]
  /\ connReserved \in [Conns -> SUBSET Nat]
  /\ mixedStreams = [c \in Conns |-> mixedStreams[c]] /\ mixedProviders \subseteq StreamNames
  /\ \A c \in Conns : /\ DOMAIN mixedStreams[c] \subseteq Nat
                      /\ mixedStreams[c] \in [DOMAIN mixedStreams[c] -> StreamNames]

(* The name has its mixed stream: published on the all-in-one connection     *)
(* under the id the mixer sends the name's frames to.                      *)
OnAir(n) ==
  /\ allInOneSessionId # None
  /\ LET id == Ids!lookupStreamId(n)
     IN  /\ id \in DOMAIN mixedStreams[allInOneSessionId]
         /\ mixedStreams[allInOneSessionId][id] = n

(* The stream ids of IdLookup and those of the all-in-one connection agree    *)
(* whenever nothing is under way: "map streamId to the actual streamId in    *)
(* StreamService class" (IdLookup.java:37).                                *)
IdsInStep ==
  Quiescent /\ allInOneSessionId # None =>
    /\ \A n \in Ids!Mapped : OnAir(n)
    /\ connReserved[allInOneSessionId] = reservedStreams

(* Whenever nothing is under way the table holds the system's streams and the *)
(* live clients' names, no more and no less: nobody is left out of the mix,  *)
(* and no slot stays taken by a client that is gone.                       *)
TableIsTheParticipants ==
  Quiescent /\ allInOneSessionId # None =>
    Ids!Mapped = SystemNameSet \cup {publisherStreamName[c] : c \in {d \in Conns : pc[d] = "live"}}

(* Once the publish message of a live participant is handled, no one's coming *)
(* or going, and no message left over from an earlier holder of the name or  *)
(* of the id, takes the participant's mixed stream away.                   *)
PublishPending(n) ==
  \E c \in Conns : \E i \in DOMAIN inbox[c] : inbox[c][i].do = "publish" /\ inbox[c][i].name = n

NobodyElseTakesMyStream ==
  [][\A c \in Conns :
       /\ pc[c] = "live" /\ pc'[c] = "live" /\ closing[c] = "no" /\ closing'[c] = "no"
       /\ OnAir(publisherStreamName[c]) /\ ~PublishPending(publisherStreamName[c])
       => OnAir(publisherStreamName[c])']_vars

(* A client whose name was accepted gets its mixed stream, unless it leaves.  *)
PublisherGetsMixedStream ==
  \A c \in Conns, n \in ClientNames :
    (pc[c] = "checked" /\ publisherStreamName[c] = n) ~> (OnAir(n) \/ closing[c] # "no")
=============================================================================
