-------------------------- MODULE ZkWatches_proof --------------------------
(***************************************************************************)
(* The node watches of the ZooKeeper client, for any number of nodes,      *)
(* watchers, reads, changes and lost connections: no change is missed, the *)
(* event comes before the new data, and no event is stale.                 *)
(*                                                                         *)
(* The argument follows a watch from the reply that brings it (position i  *)
(* of to_client) into a table of the handle (position 0).  From there on   *)
(* either the node is as the read showed it, or an event that takes the    *)
(* watch out is in to_client behind it and in front of every message that  *)
(* could show the change; and when the connection is lost with all of      *)
(* that, last_zxid is still in front of the change.                        *)
(***************************************************************************)
EXTENDS ZkWatches, FiniteSetTheorems, TLAPS

-----------------------------------------------------------------------------
(* Types.                                                                  *)

ReadRequests ==
  [xid : Nat, kind : Kinds, path : Paths, watcher : Watchers \union {NoWatcher}]

SetWatchesPackets ==
  [xid : {SET_WATCHES_XID}, relativeZxid : Nat, watches : [Tables -> SUBSET Paths]]

Watches == [w : Watchers, aspect : Aspects, zxid : Nat, val : Nat]

EventMessages ==
  [xid : {WATCHER_EVENT_XID}, zxid : {-1}, type : EventTypes, path : Paths, at : Nat]

ReplyMessages == [xid : Nat, rc : {"ZOK", "ZNONODE"}, zxid : Nat, val : Nat]

AnswerMessages == [xid : {SET_WATCHES_XID}, zxid : Nat]

Messages == EventMessages \union ReplyMessages \union AnswerMessages

ReadCompletions ==
  [xid : Nat, rc : {"ZOK", "ZNONODE", "ZCONNECTIONLOSS"}, req : ReadRequests,
   zxid : Nat, val : Nat]

NodeEvents ==
  [xid : {WATCHER_EVENT_XID}, type : EventTypes, path : Paths, at : Nat,
   watchers : SUBSET Watches]

SessionEvents ==
  [xid : {WATCHER_EVENT_XID}, type : {"SESSION"}, at : Nat,
   watchers : SUBSET [w : Watchers \union {DefaultWatcher}, aspect : Aspects, zxid : Nat, val : Nat]]

Completions == ReadCompletions \union NodeEvents \union SessionEvents

WatchType ==
  /\ connected \in BOOLEAN
  /\ last_zxid \in Nat /\ zxid \in Nat \ {0} /\ last_zxid <= zxid
  /\ active \in [Tables -> [Paths -> SUBSET Watches]]
  /\ to_send \in Seq(ReadRequests \union SetWatchesPackets)
  /\ sent_requests \in Seq(ReadRequests)
  /\ completions_to_process \in Seq(Completions)
  /\ to_server \in Seq(ReadRequests \union SetWatchesPackets)
  /\ to_client \in Seq(Messages)
  /\ node \in [Paths -> [exists : BOOLEAN, mzxid : Nat, pzxid : Nat]]
  /\ server_watches \in [Aspects -> SUBSET Paths]
  /\ seen \in [Aspects -> [Paths -> [zxid : Nat, val : Nat]]]
  /\ reads \in Nat

\* A transaction leaves its zxid in a node, in both places when it deletes the node.
NodeInv ==
  \A p \in Paths : /\ node[p].mzxid \in 1 .. zxid /\ node[p].pzxid \in 1 .. zxid
                   /\ ~node[p].exists => node[p].mzxid = node[p].pzxid

-----------------------------------------------------------------------------
(* The connection.                                                         *)

IsRead(packet) == packet.xid # SET_WATCHES_XID

\* SetWatches is under way: it is the first packet of the connection, it says what
\* the handle knows, and the server has said nothing yet.
Telling ==
  /\ connected /\ to_client = <<>>
  /\ server_watches = [a \in Aspects |-> {}]
  /\ \/ /\ to_server = <<>> /\ to_send # <<>>
        /\ to_send[1] = SetWatches
        /\ \A i \in 2 .. Len(to_send) : IsRead(to_send[i])
     \/ /\ to_server # <<>>
        /\ to_server[1] = SetWatches
        /\ \A i \in 2 .. Len(to_server) : IsRead(to_server[i])
        /\ \A i \in 1 .. Len(to_send) : IsRead(to_send[i])

\* The server has been told of the watches.
Told ==
  /\ connected
  /\ \A i \in 1 .. Len(to_server) : IsRead(to_server[i])
  /\ \A i \in 1 .. Len(to_send) : IsRead(to_send[i])

Offline ==
  /\ ~connected /\ to_client = <<>> /\ to_server = <<>>
  /\ server_watches = [a \in Aspects |-> {}]
  /\ \A i \in 1 .. Len(to_send) : IsRead(to_send[i])

PhaseInv == Offline \/ Telling \/ Told

\* An xid names one request, on its way to the server, at the server and back.
OwnXid(packet) ==
  IsRead(packet) =>
    /\ packet.xid <= reads
    /\ \A k \in 1 .. Len(sent_requests) :
         sent_requests[k].xid = packet.xid => sent_requests[k] = packet

XidInv ==
  /\ \A k \in 1 .. Len(sent_requests) : sent_requests[k].xid <= reads
  /\ \A i \in 1 .. Len(to_client) : to_client[i].xid \in Nat => to_client[i].xid <= reads
  /\ \A i \in 1 .. Len(to_send) : OwnXid(to_send[i])
  /\ \A i \in 1 .. Len(to_server) : OwnXid(to_server[i])

\* Messages of the server come in the order of their zxid.
MessageInv ==
  /\ \A i \in 1 .. Len(to_client) : to_client[i].xid # WATCHER_EVENT_XID =>
       /\ to_client[i].zxid \in 1 .. zxid /\ last_zxid <= to_client[i].zxid
       /\ \A j \in 1 .. i : to_client[j].zxid <= to_client[i].zxid
  /\ \A i \in 1 .. Len(to_client) : to_client[i].xid \in Nat =>
       /\ to_client[i].rc = "ZNONODE" <=> to_client[i].val = 0
       /\ to_client[i].val <= to_client[i].zxid

-----------------------------------------------------------------------------
(* A watch from its reply to its event.                                    *)

AspectOf(table) == IF table = "child" THEN "children" ELSE "data"

LastChange(aspect, p) == IF aspect = "children" THEN node[p].pzxid ELSE node[p].mzxid

\* The request that the i-th message answers.
Asked(i) ==
  {r \in {sent_requests[k] : k \in 1 .. Len(sent_requests)} : r.xid = to_client[i].xid}

\* The watches in the table, and those that the i-th message will bring into it.
Held(t, p, i) ==
  IF i = 0 THEN active[t][p]
  ELSE {Watch(r.watcher, Aspect(r.kind), to_client[i].zxid, to_client[i].val) :
          r \in {q \in Asked(i) : /\ q.watcher # NoWatcher /\ q.path = p
                                  /\ t \in CheckerTable(q.kind, to_client[i].rc)}}

\* An event between the messages i and j takes the watches of t and p out.
Takes(m, t, p) == m.xid = WATCHER_EVENT_XID /\ m.path = p /\ t \in EventTables(m.type)
Taken(t, p, i, j) == \E k \in i + 1 .. j - 1 : Takes(to_client[k], t, p)

\* A table holds watches of its own kind, that replies before last_zxid brought.
ActiveInv ==
  \A t \in Tables, p \in Paths : \A e \in active[t][p] :
    /\ e.aspect = AspectOf(t) /\ (t = "exist" <=> e.val = 0)
    /\ e.zxid \in 1 .. last_zxid /\ e.val <= e.zxid

\* What is known at a zxid: nothing has changed since the read, or only after it.
KnownAt(z, e, p) == Value(e.aspect, p) = e.val \/ LastChange(e.aspect, p) > z

KnownInv ==
  \A t \in Tables, p \in Paths :
    /\ \A e \in Held(t, p, 0) : KnownAt(last_zxid, e, p)
    /\ \A i \in 0 .. Len(to_client) : \A e \in Held(t, p, i) :
         \A j \in i .. Len(to_client) :
           (j # 0 /\ to_client[j].xid # WATCHER_EVENT_XID)
             => KnownAt(to_client[j].zxid, e, p) \/ Taken(t, p, i, j)

\* The server watches for the client what has not changed.
ToldInv ==
  Told => \A t \in Tables, p \in Paths : \A i \in 0 .. Len(to_client) : \A e \in Held(t, p, i) :
            \/ p \in server_watches[e.aspect] /\ Value(e.aspect, p) = e.val
            \/ Taken(t, p, i, Len(to_client) + 1)

\* A node is not watched for its creation and for its end by what is held at once.
ExistInv ==
  \A p \in Paths : \A t, u \in Tables :
    \A i \in 0 .. Len(to_client) : \A j \in i .. Len(to_client) :
      (Held(t, p, i) # {} /\ Held(u, p, j) # {} /\ (t = "exist" <=> u # "exist"))
        => Taken(t, p, i, j)

\* An event is of a later transaction than the reads of the watches it takes.
StaleInv ==
  \A t \in Tables, p \in Paths : \A i \in 0 .. Len(to_client) : \A e \in Held(t, p, i) :
    \A j \in i + 1 .. Len(to_client) : Takes(to_client[j], t, p) => to_client[j].at > e.zxid

-----------------------------------------------------------------------------
(* What reads have shown.                                                  *)

\* A read of the aspect of p, by its completion.
Shows(c, aspect, p) ==
  /\ c.xid # WATCHER_EVENT_XID /\ c.rc # "ZCONNECTIONLOSS"
  /\ Aspect(c.req.kind) = aspect /\ c.req.path = p

\* The i-th message answers a read of the aspect of p.
Answers(i, aspect, p) == \E r \in Asked(i) : Aspect(r.kind) = aspect /\ r.path = p

\* A read showed what the node was at its zxid.
TrueRead(c, aspect, p) ==
  c.zxid <= zxid /\ (c.val = Value(aspect, p) \/ LastChange(aspect, p) > c.zxid)

ReadInv ==
  \A a \in Aspects, p \in Paths :
    /\ TrueRead(seen[a][p], a, p)
    /\ \A k \in 1 .. Len(completions_to_process) :
         Shows(completions_to_process[k], a, p) => TrueRead(completions_to_process[k], a, p)
    /\ \A i \in 1 .. Len(to_client) : Answers(i, a, p) => TrueRead(to_client[i], a, p)

\* A read that is not older than that of the watch showed the same.
Agrees(c, e) == c.zxid >= e.zxid => c.val = e.val

OrderInv ==
  /\ \A t \in Tables, p \in Paths : \A i \in 0 .. Len(to_client) : \A e \in Held(t, p, i) :
       /\ Agrees(seen[e.aspect][p], e)
       /\ \A k \in 1 .. Len(completions_to_process) :
            Shows(completions_to_process[k], e.aspect, p) => Agrees(completions_to_process[k], e)
       /\ \A j \in 1 .. Len(to_client) :
            Answers(j, e.aspect, p) => Agrees(to_client[j], e) \/ (j > i /\ Taken(t, p, i, j))
  /\ \A n \in 1 .. Len(completions_to_process) :
       LET evt == completions_to_process[n]
       IN (evt.xid = WATCHER_EVENT_XID /\ evt.type # "SESSION") =>
            \A e \in evt.watchers :
              /\ Agrees(seen[e.aspect][evt.path], e)
              /\ \A k \in 1 .. n - 1 :
                   Shows(completions_to_process[k], e.aspect, evt.path)
                     => Agrees(completions_to_process[k], e)

WatchInv ==
  /\ WatchType /\ NodeInv /\ PhaseInv /\ XidInv /\ MessageInv /\ ActiveInv
  /\ KnownInv /\ ToldInv /\ ExistInv /\ StaleInv /\ ReadInv /\ OrderInv /\ NoStaleEvent

-----------------------------------------------------------------------------
(* Tables, packets and messages.                                           *)

LEMMA EventTablesOf ==
  /\ EventTables("CREATED") = {"node", "exist"} /\ EventTables("CHANGED") = {"node", "exist"}
  /\ EventTables("CHILD") = {"child"} /\ EventTables("DELETED") = {"node", "exist", "child"}
  BY DEF EventTables, Tables

LEMMA CheckerTableOf ==
  ASSUME NEW kind \in Kinds, NEW rc \in {"ZOK", "ZNONODE"}, NEW t \in CheckerTable(kind, rc)
  PROVE  /\ t \in Tables /\ AspectOf(t) = Aspect(kind)
         /\ t = "exist" <=> rc = "ZNONODE"
         /\ rc = "ZOK" \/ kind = "exists"
  BY DEF CheckerTable, Kinds, Tables, AspectOf, Aspect

\* A message is an event, a reply or the answer to SetWatches.
LEMMA MessageKinds ==
  ASSUME NEW m \in Messages
  PROVE  /\ m.xid = WATCHER_EVENT_XID => m \in EventMessages
         /\ m.xid \in Nat => m \in ReplyMessages
         /\ m.xid = SET_WATCHES_XID => m \in AnswerMessages
         /\ m.xid \in Nat \union {WATCHER_EVENT_XID, SET_WATCHES_XID}
         /\ m.zxid \in Int /\ (m.xid # WATCHER_EVENT_XID => m.zxid \in Nat)
<1>1. CASE m \in EventMessages
  BY <1>1, WatchAssumption DEF EventMessages
<1>2. CASE m \in ReplyMessages
  BY <1>2, WatchAssumption DEF ReplyMessages
<1>3. CASE m \in AnswerMessages
  BY <1>3, WatchAssumption DEF AnswerMessages
<1> QED
  BY <1>1, <1>2, <1>3 DEF Messages

LEMMA PacketKinds ==
  ASSUME NEW m \in ReadRequests \union SetWatchesPackets
  PROVE  /\ m.xid = SET_WATCHES_XID <=> m \in SetWatchesPackets
         /\ m.xid # SET_WATCHES_XID <=> m \in ReadRequests
  BY WatchAssumption DEF ReadRequests, SetWatchesPackets

\* A read shows a zxid of the past, 0 for no node.
LEMMA ValueOf ==
  ASSUME WatchType, NodeInv, NEW a \in Aspects, NEW p \in Paths
  PROVE  /\ Value(a, p) \in 0 .. zxid /\ (Value(a, p) = 0 <=> ~node[p].exists)
         /\ LastChange(a, p) \in 1 .. zxid
         /\ node[p].exists => Value(a, p) = LastChange(a, p)
         /\ ~node[p].exists => LastChange(a, p) = node[p].mzxid
<1>1. /\ node[p].mzxid \in 1 .. zxid /\ node[p].pzxid \in 1 .. zxid
      /\ ~node[p].exists => node[p].mzxid = node[p].pzxid
  BY DEF NodeInv
<1>2. zxid \in Nat
  BY DEF WatchType
<1> QED
  BY <1>1, <1>2 DEF Value, LastChange

\* collectWatchers finds nothing that is not in the tables of the event.
LEMMA Collected ==
  ASSUME NEW type, NEW p, NEW e \in collectWatchers(type, p)
  PROVE  \E t \in EventTables(type) : t \in Tables /\ e \in active[t][p]
  BY DEF collectWatchers, copy_watchers, Tables

\* The packet that send_set_watches queues.
LEMMA SetWatchesPacket ==
  ASSUME WatchType
  PROVE  SetWatches \in SetWatchesPackets /\ ~IsRead(SetWatches)
  BY DEF SetWatches, SetWatchesPackets, WatchType, IsRead

\* An order of a finite set has all of its members.
LEMMA Orders ==
  ASSUME NEW S, IsFiniteSet(S), NEW order \in SetToSeqs(S)
  PROVE  /\ order \in Seq(S)
         /\ \A v \in S : \E k \in 1 .. Len(order) : order[k] = v
<1> DEFINE n == Cardinality(S)
<1>1. n \in Nat
  BY FS_CardinalityType
<1>2. /\ order \in [1 .. n -> S]
      /\ \A i, j \in 1 .. n : i # j => order[i] # order[j]
  BY DEF SetToSeqs
<1>3. order \in Seq(S) /\ Len(order) = n
  BY <1>1, <1>2
<1>4. ASSUME NEW v \in S, \A k \in 1 .. n : order[k] # v
      PROVE  FALSE
  <2>1. IsFiniteSet(S \ {v}) /\ Cardinality(S \ {v}) = n - 1
    BY FS_RemoveElement
  <2>2. IsFiniteSet(1 .. n) /\ Cardinality(1 .. n) = n
    <3>1. IsFiniteSet(1 .. n) /\ Cardinality(1 .. n) = IF 1 > n THEN 0 ELSE n - 1 + 1
      BY <1>1, FS_Interval
    <3> QED
      BY <1>1, <3>1
  <2>3. order \in [1 .. n -> S \ {v}]
    BY <1>2, <1>4
  <2>4. Cardinality(S \ {v}) < Cardinality(1 .. n)
    BY <1>1, <2>1, <2>2
  <2>5. \E x, y \in 1 .. n : x # y /\ order[x] = order[y]
    <3> HIDE DEF n
    <3>1. PICK D, T : D = 1 .. n /\ T = S \ {v}
      OBVIOUS
    <3>2. /\ IsFiniteSet(D) /\ IsFiniteSet(T) /\ Cardinality(T) < Cardinality(D)
          /\ order \in [D -> T]
      BY <2>1, <2>2, <2>3, <2>4, <3>1
    <3>3. \E x, y \in D : x # y /\ order[x] = order[y]
      BY <3>2, FS_PigeonHole
    <3> QED
      BY <3>1, <3>3
  <2> QED
    BY <1>2, <2>5
<1> QED
  BY <1>3, <1>4

\* The events that answer SetWatches are finitely many.
LEMMA FiniteEvents ==
  ASSUME WatchType, NEW req \in SetWatchesPackets
  PROVE  IsFiniteSet(MissedEvents(req))
<1> DEFINE E(t) == {MissedEvent(t, p) : p \in MissedPaths(req, t)}
<1>1. ASSUME NEW t \in Tables PROVE IsFiniteSet(E(t))
  <2> DEFINE f == [p \in MissedPaths(req, t) |-> MissedEvent(t, p)]
  <2>1. MissedPaths(req, t) \in SUBSET Paths
    BY DEF MissedPaths, SetWatchesPackets
  <2>2. IsFiniteSet(MissedPaths(req, t))
    BY <2>1, FS_Subset, WatchAssumption
  <2>3. f \in Surjection(MissedPaths(req, t), E(t))
    BY DEF Surjection
  <2> QED
    BY <2>2, <2>3, FS_Surjection
<1>2. MissedEvents(req) = E("node") \cup (E("exist") \cup E("child"))
  BY DEF MissedEvents, Tables
<1>3. IsFiniteSet(E("node")) /\ IsFiniteSet(E("exist")) /\ IsFiniteSet(E("child"))
  BY <1>1 DEF Tables
<1> HIDE DEF E
<1>4. IsFiniteSet(E("exist") \cup E("child"))
  BY <1>3, FS_Union
<1> QED
  BY <1>2, <1>3, <1>4, FS_Union

\* An event of MissedEvents is for a watched path, and tells of its last change.
LEMMA MissedEventOf ==
  ASSUME WatchType, NEW req \in SetWatchesPackets, NEW m \in MissedEvents(req)
  PROVE  /\ m \in EventMessages
         /\ \E t \in Tables : \E p \in MissedPaths(req, t) : m = MissedEvent(t, p) /\ p \in Paths
<1>0. PICK t \in Tables : \E p \in MissedPaths(req, t) : m = MissedEvent(t, p)
  BY DEF MissedEvents
<1>1. PICK p \in MissedPaths(req, t) : m = MissedEvent(t, p)
  BY <1>0
<1>2. p \in Paths
  BY <1>1 DEF MissedPaths, SetWatchesPackets
<1>3. node[p].mzxid \in Nat /\ node[p].pzxid \in Nat
  BY <1>2 DEF WatchType
<1>4. \A type \in EventTypes, at \in Nat : Event(type, p, at) \in EventMessages
  BY <1>2 DEF Event, EventMessages
<1>5. m \in EventMessages
  BY <1>1, <1>3, <1>4 DEF MissedEvent, Tables, EventTypes
<1> QED
  BY <1>1, <1>2, <1>5

\* What the next-state relation is made of.
LEMMA Steps ==
  ASSUME [Next]_vars
  PROVE  \/ UNCHANGED vars
         \/ \E kind \in Kinds, p \in Paths, w \in Watchers \union {NoWatcher} : Read(kind, p, w)
         \/ SessionEstablished \/ SendPacket \/ ReceiveEvent \/ ReceiveSetWatches \/ ReceiveReply
         \/ ConnectionLost \/ Deliver \/ ServerRead \/ ServerSetWatches
         \/ \E type \in EventTypes, p \in Paths : Change(type, p)
  BY DEF Next, IoStep, ServerStep

LEMMA SessionEventType ==
  ASSUME WatchType
  PROVE  SessionEvent \in Completions
<1>1. ASSUME NEW w \in collect_session_watchers PROVE w \in Watchers \union {DefaultWatcher}
  BY DEF collect_session_watchers, Objects, WatchesOf, WatchType, Watches
<1>2. SessionEvent.watchers \in
        SUBSET [w : Watchers \union {DefaultWatcher}, aspect : Aspects, zxid : Nat, val : Nat]
  BY <1>1 DEF SessionEvent, Watch, Aspects
<1> QED
  BY <1>2 DEF SessionEvent, SessionEvents, Completions, WatchType

LEMMA WatchTypeStep ==
  ASSUME WatchInv, [Next]_vars
  PROVE  WatchType'
<1>0. WatchType /\ NodeInv /\ MessageInv
  BY DEF WatchInv
<1>1. CASE UNCHANGED vars
  BY <1>0, <1>1 DEF vars, WatchType
<1>2. ASSUME NEW kind \in Kinds, NEW p \in Paths, NEW w \in Watchers \union {NoWatcher},
             Read(kind, p, w)
      PROVE  WatchType'
  <2> DEFINE req == [xid |-> reads + 1, kind |-> kind, path |-> p, watcher |-> w]
  <2>1. req \in ReadRequests /\ reads + 1 \in Nat
    BY <1>0 DEF ReadRequests, WatchType
  <2>2. sent_requests' = Append(sent_requests, req) /\ to_send' = Append(to_send, req)
    BY <1>2 DEF Read
  <2>3. sent_requests' \in Seq(ReadRequests) /\ to_send' \in Seq(ReadRequests \union SetWatchesPackets)
    BY <1>0, <2>1, <2>2 DEF WatchType
  <2> QED
    BY <1>0, <1>2, <2>1, <2>3 DEF Read, WatchType
<1>3. CASE SessionEstablished
  <2>1. to_send' \in Seq(ReadRequests \union SetWatchesPackets)
    <3>1. <<SetWatches>> \o to_send \in Seq(ReadRequests \union SetWatchesPackets)
      BY <1>0, SetWatchesPacket DEF WatchType
    <3> QED
      BY <1>0, <1>3, <3>1 DEF SessionEstablished, send_set_watches, WatchType
  <2>2. completions_to_process' \in Seq(Completions)
    BY <1>0, <1>3, SessionEventType DEF SessionEstablished, WatchType
  <2>3. connected' \in BOOLEAN
    BY <1>3 DEF SessionEstablished
  <2> QED
    BY <1>0, <1>3, <2>1, <2>2, <2>3 DEF SessionEstablished, WatchType
<1>4. CASE SendPacket
  <2>1. Head(to_send) \in ReadRequests \union SetWatchesPackets
    BY <1>0, <1>4 DEF SendPacket, WatchType
  <2>2. /\ to_server' \in Seq(ReadRequests \union SetWatchesPackets)
        /\ to_send' \in Seq(ReadRequests \union SetWatchesPackets)
    BY <1>0, <1>4, <2>1 DEF SendPacket, WatchType
  <2> QED
    BY <1>0, <1>4, <2>2 DEF SendPacket, WatchType
<1>5. CASE ReceiveEvent
  <2> DEFINE evt == Head(to_client)
  <2>1. evt \in EventMessages /\ to_client' \in Seq(Messages)
    <3>1. evt \in Messages /\ to_client' \in Seq(Messages)
      BY <1>0, <1>5 DEF ReceiveEvent, WatchType
    <3> QED
      BY <1>5, <3>1, MessageKinds DEF ReceiveEvent
  <2>2. evt.type \in EventTypes /\ evt.path \in Paths /\ evt.at \in Nat /\ evt.zxid = -1
    BY <2>1 DEF EventMessages
  <2>3. last_zxid' = last_zxid
    BY <1>5, <2>2 DEF ReceiveEvent, NewLastZxid
  <2>4. active' \in [Tables -> [Paths -> SUBSET Watches]]
    BY <1>0, <1>5, <2>2 DEF ReceiveEvent, WithoutWatchers, WatchType
  <2>5. collectWatchers(evt.type, evt.path) \in SUBSET Watches
    <3> SUFFICES ASSUME NEW e \in collectWatchers(evt.type, evt.path) PROVE e \in Watches
      OBVIOUS
    <3>1. \E t \in Tables : e \in active[t][evt.path]
      BY Collected
    <3> QED
      BY <1>0, <2>2, <3>1 DEF WatchType
  <2>6. [xid |-> WATCHER_EVENT_XID, type |-> evt.type, path |-> evt.path, at |-> evt.at,
         watchers |-> collectWatchers(evt.type, evt.path)] \in Completions
    BY <2>2, <2>5 DEF NodeEvents, Completions
  <2>7. completions_to_process' \in Seq(Completions)
    BY <1>0, <1>5, <2>6 DEF ReceiveEvent, WatchType
  <2> QED
    BY <1>0, <1>5, <2>1, <2>3, <2>4, <2>7 DEF ReceiveEvent, WatchType
<1>6. CASE ReceiveSetWatches
  <2>1. to_client' \in Seq(Messages) /\ Head(to_client) = to_client[1] /\ 1 \in 1 .. Len(to_client)
    BY <1>0, <1>6 DEF ReceiveSetWatches, WatchType
  <2>2. to_client[1].zxid \in 1 .. zxid
    BY <1>0, <1>6, <2>1, WatchAssumption DEF ReceiveSetWatches, MessageInv
  <2>3. last_zxid' \in Nat /\ last_zxid' <= zxid
    BY <1>0, <1>6, <2>1, <2>2 DEF ReceiveSetWatches, NewLastZxid, WatchType
  <2> QED
    BY <1>0, <1>6, <2>1, <2>3 DEF ReceiveSetWatches, WatchType
<1>7. CASE ReceiveReply
  <2> DEFINE hdr == Head(to_client)
             cptr == Head(sent_requests)
  <2>1. /\ to_client' \in Seq(Messages) /\ sent_requests' \in Seq(ReadRequests)
        /\ hdr = to_client[1] /\ 1 \in 1 .. Len(to_client) /\ hdr \in Messages
        /\ cptr \in ReadRequests /\ hdr.xid = cptr.xid
    BY <1>0, <1>7 DEF ReceiveReply, WatchType
  <2>2. /\ cptr.xid \in Nat /\ cptr.path \in Paths /\ cptr.kind \in Kinds
        /\ cptr.watcher \in Watchers \union {NoWatcher}
    BY <2>1 DEF ReadRequests
  <2>3. hdr \in ReplyMessages
    BY <2>1, <2>2, MessageKinds
  <2>4. hdr.zxid \in Nat /\ hdr.val \in Nat /\ hdr.rc \in {"ZOK", "ZNONODE"}
    BY <2>3 DEF ReplyMessages
  <2>5. hdr.zxid \in 1 .. zxid
    BY <1>0, <2>1, <2>2, WatchAssumption DEF MessageInv
  <2>6. last_zxid' \in Nat /\ last_zxid' <= zxid
    BY <1>0, <1>7, <2>5 DEF ReceiveReply, NewLastZxid, WatchType
  <2>7. active' \in [Tables -> [Paths -> SUBSET Watches]]
    <3> DEFINE e == Watch(cptr.watcher, Aspect(cptr.kind), hdr.zxid, hdr.val)
    <3>1. cptr.watcher # NoWatcher => e \in Watches
      BY <2>2, <2>4 DEF Watch, Watches, Aspect, Aspects
    <3> HIDE DEF e
    <3>2. ASSUME NEW t \in Tables, cptr.watcher # NoWatcher
          PROVE  do_insert_watcher_object(active[t], cptr.path, e) \in [Paths -> SUBSET Watches]
      <4>1. active[t] \in [Paths -> SUBSET Watches]
        BY <1>0 DEF WatchType
      <4>2. add_to_list(active[t][cptr.path], e) \in SUBSET Watches
        BY <2>2, <3>1, <3>2, <4>1 DEF add_to_list
      <4> QED
        BY <4>1, <4>2 DEF do_insert_watcher_object
    <3>3. active' = [t \in Tables |->
             IF cptr.watcher # NoWatcher /\ t \in CheckerTable(cptr.kind, hdr.rc)
               THEN do_insert_watcher_object(active[t], cptr.path, e) ELSE active[t]]
      BY <1>7 DEF ReceiveReply, activateWatcher, e
    <3>4. \A t \in Tables : active[t] \in [Paths -> SUBSET Watches]
      BY <1>0 DEF WatchType
    <3> QED
      BY <3>2, <3>3, <3>4
  <2>8. [xid |-> hdr.xid, rc |-> hdr.rc, req |-> cptr, zxid |-> hdr.zxid, val |-> hdr.val]
          \in Completions
    BY <2>1, <2>2, <2>4 DEF ReadCompletions, Completions
  <2>9. completions_to_process' \in Seq(Completions)
    BY <1>0, <1>7, <2>8 DEF ReceiveReply, WatchType
  <2> QED
    BY <1>0, <1>7, <2>1, <2>6, <2>7, <2>9 DEF ReceiveReply, WatchType
<1>8. CASE ConnectionLost
  <2>1. FakedReplies \in Seq(Completions)
    <3>1. Len(sent_requests) \in Nat /\ DOMAIN sent_requests = 1 .. Len(sent_requests)
      BY <1>0 DEF WatchType
    <3>2. ASSUME NEW i \in 1 .. Len(sent_requests)
          PROVE  [xid |-> sent_requests[i].xid, rc |-> "ZCONNECTIONLOSS", req |-> sent_requests[i],
                  zxid |-> 0, val |-> 0] \in Completions
      <4>1. sent_requests[i] \in ReadRequests
        BY <1>0 DEF WatchType
      <4>2. sent_requests[i].xid \in Nat
        BY <4>1 DEF ReadRequests
      <4> QED
        BY <4>1, <4>2 DEF ReadCompletions, Completions
    <3> QED
      BY <3>1, <3>2 DEF FakedReplies
  <2>2. (IF connected THEN <<SessionEvent>> ELSE <<>>) \in Seq(Completions)
    BY <1>0, SessionEventType
  <2>3. completions_to_process' \in Seq(Completions)
    <3>1. completions_to_process \o (IF connected THEN <<SessionEvent>> ELSE <<>>) \in Seq(Completions)
      BY <1>0, <2>2 DEF WatchType
    <3> QED
      BY <1>8, <2>1, <3>1 DEF ConnectionLost
  <2>4. /\ to_send' = <<>> /\ sent_requests' = <<>> /\ to_server' = <<>> /\ to_client' = <<>>
        /\ server_watches' \in [Aspects -> SUBSET Paths] /\ connected' \in BOOLEAN
        /\ UNCHANGED <<last_zxid, active, zxid, node, seen, reads>>
    BY <1>8 DEF ConnectionLost
  <2>5. \A S : <<>> \in Seq(S)
    OBVIOUS
  <2>6. /\ to_send' \in Seq(ReadRequests \union SetWatchesPackets) /\ sent_requests' \in Seq(ReadRequests)
        /\ to_server' \in Seq(ReadRequests \union SetWatchesPackets) /\ to_client' \in Seq(Messages)
    BY <2>4, <2>5, Zenon
  <2> QED
    BY <1>0, <2>3, <2>4, <2>6 DEF WatchType
<1>9. CASE Deliver
  <2> DEFINE cptr == Head(completions_to_process)
  <2>1. cptr \in Completions /\ completions_to_process' \in Seq(Completions)
    BY <1>0, <1>9 DEF Deliver, WatchType
  <2>2. seen' \in [Aspects -> [Paths -> [zxid : Nat, val : Nat]]]
    <3>1. CASE cptr.xid # WATCHER_EVENT_XID /\ cptr.rc # "ZCONNECTIONLOSS"
      <4>1. cptr \in ReadCompletions
        BY <2>1, <3>1 DEF Completions, NodeEvents, SessionEvents
      <4>2. cptr.req \in ReadRequests /\ cptr.zxid \in Nat /\ cptr.val \in Nat
        BY <4>1 DEF ReadCompletions
      <4>3. Aspect(cptr.req.kind) \in Aspects /\ cptr.req.path \in Paths
        BY <4>2 DEF ReadRequests, Aspect, Aspects
      <4>4. [zxid |-> cptr.zxid, val |-> cptr.val] \in [zxid : Nat, val : Nat]
        BY <4>2
      <4>5. seen' = [seen EXCEPT ![Aspect(cptr.req.kind)][cptr.req.path] =
                                    [zxid |-> cptr.zxid, val |-> cptr.val]]
        BY <1>9, <3>1 DEF Deliver
      <4> HIDE DEF cptr
      <4>6. seen \in [Aspects -> [Paths -> [zxid : Nat, val : Nat]]]
        BY <1>0 DEF WatchType
      <4> QED
        BY <4>3, <4>4, <4>5, <4>6
    <3>2. CASE ~(cptr.xid # WATCHER_EVENT_XID /\ cptr.rc # "ZCONNECTIONLOSS")
      BY <1>0, <1>9, <3>2 DEF Deliver, WatchType
    <3> QED
      BY <3>1, <3>2
  <2> QED
    BY <1>0, <1>9, <2>1, <2>2 DEF Deliver, WatchType
<1>10. CASE ServerRead
  <2> DEFINE req == Head(to_server)
             msg == [xid |-> req.xid, rc |-> IF node[req.path].exists THEN "ZOK" ELSE "ZNONODE",
                     zxid |-> zxid, val |-> Value(Aspect(req.kind), req.path)]
  <2>1. req \in ReadRequests /\ to_server' \in Seq(ReadRequests \union SetWatchesPackets)
    <3>1. req \in ReadRequests \union SetWatchesPackets
      BY <1>0, <1>10 DEF ServerRead, WatchType
    <3> QED
      BY <1>0, <1>10, <3>1, PacketKinds DEF ServerRead, WatchType
  <2>2. /\ req.xid \in Nat /\ req.path \in Paths /\ req.kind \in Kinds
        /\ Aspect(req.kind) \in Aspects
    BY <2>1 DEF ReadRequests, Aspect, Aspects
  <2>3. msg \in Messages
    <3>1. Value(Aspect(req.kind), req.path) \in Nat /\ zxid \in Nat
      BY <1>0, <2>2, ValueOf DEF WatchType
    <3> QED
      BY <2>2, <3>1 DEF ReplyMessages, Messages
  <2>4. to_client' \in Seq(Messages)
    BY <1>0, <1>10, <2>3 DEF ServerRead, WatchType
  <2>5. server_watches' \in [Aspects -> SUBSET Paths]
    BY <1>0, <1>10, <2>2 DEF ServerRead, WatchType
  <2> QED
    BY <1>0, <1>10, <2>1, <2>4, <2>5 DEF ServerRead, WatchType
<1>11. CASE ServerSetWatches
  <2> DEFINE req == Head(to_server)
             answer == [xid |-> SET_WATCHES_XID, zxid |-> zxid]
  <2>1. req \in SetWatchesPackets /\ to_server' \in Seq(ReadRequests \union SetWatchesPackets)
    <3>1. req \in ReadRequests \union SetWatchesPackets
      BY <1>0, <1>11 DEF ServerSetWatches, WatchType
    <3> QED
      BY <1>0, <1>11, <3>1, PacketKinds DEF ServerSetWatches, WatchType
  <2>2. PICK order \in SetToSeqs(MissedEvents(req)) : to_client' = to_client \o order \o <<answer>>
    BY <1>11 DEF ServerSetWatches
  <2>3. order \in Seq(Messages)
    <3>1. order \in Seq(MissedEvents(req))
      BY <1>0, <2>1, <2>2, Orders, FiniteEvents
    <3>2. \A m \in MissedEvents(req) : m \in Messages
      BY <1>0, <2>1, MissedEventOf DEF Messages
    <3> QED
      BY <3>1, <3>2
  <2>4. answer \in Messages
    BY <1>0 DEF Messages, AnswerMessages, WatchType
  <2>5. to_client' \in Seq(Messages)
    BY <1>0, <2>2, <2>3, <2>4 DEF WatchType
  <2>6. server_watches' \in [Aspects -> SUBSET Paths]
    <3>1. \A t \in Tables : req.watches[t] \ MissedPaths(req, t) \in SUBSET Paths
      BY <2>1 DEF SetWatchesPackets
    <3> QED
      BY <1>0, <1>11, <3>1 DEF ServerSetWatches, WatchType, Aspects, Tables
  <2> QED
    BY <1>0, <1>11, <2>1, <2>5, <2>6 DEF ServerSetWatches, WatchType
<1>12. ASSUME NEW type \in EventTypes, NEW p \in Paths, Change(type, p)
       PROVE  WatchType'
  <2>1. /\ zxid' = zxid + 1
        /\ node' = [node EXCEPT ![p] =
             [exists |-> type # "DELETED",
              mzxid |-> IF type = "CHILD" THEN node[p].mzxid ELSE zxid + 1,
              pzxid |-> IF type = "CHANGED" THEN node[p].pzxid ELSE zxid + 1]]
        /\ to_client' = to_client \/ to_client' = Append(to_client, Event(type, p, zxid + 1))
        /\ UNCHANGED <<connected, last_zxid, active, to_send, sent_requests,
                       completions_to_process, to_server, seen, reads>>
    BY <1>12 DEF Change
  <2>2. server_watches' \in [Aspects -> SUBSET Paths]
    BY <1>0, <1>12 DEF Change, WatchType
  <2>3. Event(type, p, zxid + 1) \in Messages
    BY <1>0 DEF Event, EventMessages, Messages, WatchType
  <2>4. to_client' \in Seq(Messages)
    <3>1. to_client \in Seq(Messages)
      BY <1>0 DEF WatchType
    <3>2. Append(to_client, Event(type, p, zxid + 1)) \in Seq(Messages)
      BY <2>3, <3>1
    <3> QED
      BY <2>1, <3>1, <3>2, Zenon
  <2>5. [exists |-> type # "DELETED",
         mzxid |-> IF type = "CHILD" THEN node[p].mzxid ELSE zxid + 1,
         pzxid |-> IF type = "CHANGED" THEN node[p].pzxid ELSE zxid + 1]
          \in [exists : BOOLEAN, mzxid : Nat, pzxid : Nat]
    <3>1. (type # "DELETED") \in BOOLEAN
      OBVIOUS
    <3>2. node[p].mzxid \in Nat /\ node[p].pzxid \in Nat /\ zxid + 1 \in Nat
      BY <1>0 DEF WatchType
    <3> QED
      BY <3>1, <3>2
  <2>6. node' \in [Paths -> [exists : BOOLEAN, mzxid : Nat, pzxid : Nat]]
    BY <1>0, <2>1, <2>5 DEF WatchType
  <2>7. zxid' \in Nat \ {0} /\ last_zxid <= zxid'
    BY <1>0, <2>1 DEF WatchType
  <2> QED
    BY <1>0, <2>1, <2>2, <2>4, <2>6, <2>7 DEF WatchType
<1> QED
  BY <1>1, <1>2, <1>3, <1>4, <1>5, <1>6, <1>7, <1>8, <1>9, <1>10, <1>11, <1>12, Steps

LEMMA NodeStep ==
  ASSUME WatchInv, [Next]_vars
  PROVE  NodeInv'
<1>0. WatchType /\ NodeInv
  BY DEF WatchInv
<1>1. ASSUME NEW type \in EventTypes, NEW p \in Paths, Change(type, p)
      PROVE  NodeInv'
  <2> SUFFICES ASSUME NEW q \in Paths
               PROVE  /\ node'[q].mzxid \in 1 .. zxid' /\ node'[q].pzxid \in 1 .. zxid'
                      /\ ~node'[q].exists => node'[q].mzxid = node'[q].pzxid
    BY DEF NodeInv
  <2>0. zxid \in Nat /\ zxid' = zxid + 1
    BY <1>0, <1>1 DEF WatchType, Change
  <2>1. /\ node[q].mzxid \in 1 .. zxid /\ node[q].pzxid \in 1 .. zxid
        /\ ~node[q].exists => node[q].mzxid = node[q].pzxid
    BY <1>0 DEF NodeInv
  <2>2. node' = [node EXCEPT ![p] =
             [exists |-> type # "DELETED",
              mzxid |-> IF type = "CHILD" THEN node[p].mzxid ELSE zxid + 1,
              pzxid |-> IF type = "CHANGED" THEN node[p].pzxid ELSE zxid + 1]]
    BY <1>1 DEF Change
  <2>3. CASE q # p
    <3>1. node'[q] = node[q]
      BY <1>0, <2>2, <2>3 DEF WatchType
    <3> QED
      BY <2>0, <2>1, <3>1
  <2>4. CASE q = p
    <3>1. node'[q] = [exists |-> type # "DELETED",
              mzxid |-> IF type = "CHILD" THEN node[p].mzxid ELSE zxid + 1,
              pzxid |-> IF type = "CHANGED" THEN node[p].pzxid ELSE zxid + 1]
      BY <1>0, <2>2, <2>4 DEF WatchType
    <3>2. /\ node'[q].exists <=> type # "DELETED"
          /\ node'[q].mzxid = IF type = "CHILD" THEN node[q].mzxid ELSE zxid + 1
          /\ node'[q].pzxid = IF type = "CHANGED" THEN node[q].pzxid ELSE zxid + 1
      <4>1. node'[q].exists = (type # "DELETED")
        BY <3>1
      <4>2. node'[q].mzxid = IF type = "CHILD" THEN node[q].mzxid ELSE zxid + 1
        BY <2>4, <3>1
      <4>3. node'[q].pzxid = IF type = "CHANGED" THEN node[q].pzxid ELSE zxid + 1
        BY <2>4, <3>1
      <4> QED
        BY <4>1, <4>2, <4>3, Zenon
    <3> QED
      BY <2>0, <2>1, <3>2 DEF EventTypes
  <2> QED
    BY <2>3, <2>4
<1>2. CASE ~(\E type \in EventTypes, p \in Paths : Change(type, p))
  <2>1. node' = node /\ zxid' = zxid
    BY <1>2, Steps DEF vars, Read, SessionEstablished, SendPacket, ReceiveEvent, ReceiveSetWatches,
       ReceiveReply, ConnectionLost, Deliver, ServerRead, ServerSetWatches
  <2> QED
    BY <1>0, <2>1 DEF NodeInv
<1> QED
  BY <1>1, <1>2

-----------------------------------------------------------------------------
(* The phases of a connection.                                             *)

LEMMA PhaseStep ==
  ASSUME WatchInv, [Next]_vars
  PROVE  PhaseInv'
<1>0. WatchType /\ PhaseInv
  BY DEF WatchInv
<1>1. CASE UNCHANGED vars \/ Deliver
  <2>1. /\ UNCHANGED <<connected, to_client, to_server, to_send, server_watches>>
        /\ UNCHANGED <<last_zxid, active>>
    BY <1>1 DEF vars, Deliver
  <2>2. SetWatches' = SetWatches
    BY <2>1 DEF SetWatches
  <2> QED
    BY <1>0, <2>1, <2>2 DEF PhaseInv, Offline, Telling, Told, IsRead
<1>2. ASSUME NEW kind \in Kinds, NEW p \in Paths, NEW w \in Watchers \union {NoWatcher},
             Read(kind, p, w)
      PROVE  PhaseInv'
  <2> DEFINE req == [xid |-> reads + 1, kind |-> kind, path |-> p, watcher |-> w]
  <2>1. /\ to_send' = Append(to_send, req)
        /\ UNCHANGED <<connected, to_client, to_server, server_watches, last_zxid, active>>
    BY <1>2 DEF Read
  <2>2. IsRead(req) /\ req \in ReadRequests
    BY <1>0, WatchAssumption DEF IsRead, WatchType, ReadRequests
  <2> HIDE DEF req
  <2>3. /\ Len(to_send') = Len(to_send) + 1 /\ to_send'[Len(to_send) + 1] = req
        /\ \A i \in 1 .. Len(to_send) : to_send'[i] = to_send[i]
        /\ Len(to_send) \in Nat /\ to_send' # <<>>
    <3>1. to_send \in Seq(ReadRequests \union SetWatchesPackets)
      BY <1>0 DEF WatchType
    <3> QED
      BY <2>1, <2>2, <3>1
  <2>4. \A i \in 1 .. Len(to_send') : IsRead(to_send'[i]) \/ (i \in 1 .. Len(to_send) /\ to_send'[i] = to_send[i])
    BY <2>2, <2>3
  <2>5. SetWatches' = SetWatches
    BY <2>1 DEF SetWatches
  <2>6. CASE Offline
    BY <2>1, <2>4, <2>6 DEF Offline, PhaseInv, IsRead
  <2>7. CASE Told
    BY <2>1, <2>4, <2>7 DEF Told, PhaseInv, IsRead
  <2>8. CASE Telling
    <3>1. CASE to_server = <<>> /\ to_send # <<>>
      <4>1. /\ to_send[1] = SetWatches /\ \A i \in 2 .. Len(to_send) : IsRead(to_send[i])
        BY <2>8, <3>1 DEF Telling
      <4>2. to_send'[1] = SetWatches'
        <5>1. 1 \in 1 .. Len(to_send)
          BY <1>0, <3>1 DEF WatchType
        <5> QED
          BY <2>3, <2>5, <4>1, <5>1
      <4>3. \A i \in 2 .. Len(to_send') : IsRead(to_send'[i])
        BY <2>4, <2>3, <4>1
      <4> QED
        BY <2>1, <2>3, <2>8, <3>1, <4>2, <4>3 DEF Telling, PhaseInv, IsRead
    <3>2. CASE ~(to_server = <<>> /\ to_send # <<>>)
      <4>1. /\ to_server # <<>> /\ to_server[1] = SetWatches
            /\ \A i \in 2 .. Len(to_server) : IsRead(to_server[i])
            /\ \A i \in 1 .. Len(to_send) : IsRead(to_send[i])
        BY <2>8, <3>2 DEF Telling
      <4>2. \A i \in 1 .. Len(to_send') : IsRead(to_send'[i])
        BY <2>4, <4>1
      <4> QED
        BY <2>1, <2>5, <2>8, <4>1, <4>2 DEF Telling, PhaseInv, IsRead
    <3> QED
      BY <3>1, <3>2
  <2> QED
    BY <1>0, <2>6, <2>7, <2>8 DEF PhaseInv
<1>3. CASE SessionEstablished
  <2>1. /\ connected' = TRUE /\ to_send' = send_set_watches /\ Offline
        /\ UNCHANGED <<to_client, to_server, server_watches, last_zxid, active>>
    BY <1>0, <1>3 DEF SessionEstablished, PhaseInv, Telling, Told
  <2>2. SetWatches' = SetWatches
    BY <2>1 DEF SetWatches
  <2>3. CASE \E t \in Tables : WatchesOf(t) # {}
    <3>1. to_send' = <<SetWatches>> \o to_send
      BY <2>1, <2>3 DEF send_set_watches
    <3>2. /\ Len(to_send') = Len(to_send) + 1 /\ to_send'[1] = SetWatches /\ to_send' # <<>>
          /\ \A i \in 2 .. Len(to_send') : i - 1 \in 1 .. Len(to_send) /\ to_send'[i] = to_send[i - 1]
      BY <1>0, <3>1 DEF WatchType
    <3>3. \A i \in 2 .. Len(to_send') : IsRead(to_send'[i])
      BY <2>1, <3>2 DEF Offline
    <3> QED
      BY <2>1, <2>2, <3>2, <3>3 DEF Offline, Telling, PhaseInv, IsRead
  <2>4. CASE ~(\E t \in Tables : WatchesOf(t) # {})
    <3>1. to_send' = to_send
      BY <2>1, <2>4 DEF send_set_watches
    <3> QED
      BY <2>1, <3>1 DEF Offline, Told, PhaseInv, IsRead
  <2> QED
    BY <2>3, <2>4
<1>4. CASE SendPacket
  <2>1. /\ connected /\ to_send # <<>> /\ to_server' = Append(to_server, to_send[1])
        /\ to_send' = Tail(to_send)
        /\ UNCHANGED <<connected, to_client, server_watches, last_zxid, active>>
    BY <1>0, <1>4 DEF SendPacket, WatchType
  <2>2. /\ Len(to_send') = Len(to_send) - 1 /\ Len(to_send) \in Nat \ {0}
        /\ \A i \in 1 .. Len(to_send) - 1 : to_send'[i] = to_send[i + 1]
    BY <1>0, <2>1 DEF WatchType
  <2>3. /\ Len(to_server') = Len(to_server) + 1 /\ to_server'[Len(to_server) + 1] = to_send[1]
        /\ \A i \in 1 .. Len(to_server) : to_server'[i] = to_server[i]
        /\ Len(to_server) \in Nat /\ to_server' # <<>>
    BY <1>0, <2>1 DEF WatchType
  <2>4. SetWatches' = SetWatches
    BY <2>1 DEF SetWatches
  <2>5. CASE Told
    <3>1. \A i \in 1 .. Len(to_send') : IsRead(to_send'[i])
      BY <2>2, <2>5 DEF Told
    <3>2. \A i \in 1 .. Len(to_server') : IsRead(to_server'[i])
      BY <2>2, <2>3, <2>5 DEF Told
    <3> QED
      BY <2>1, <2>5, <3>1, <3>2 DEF Told, PhaseInv, IsRead
  <2>6. CASE Telling
    <3>1. CASE to_server = <<>>
      <4>1. to_send[1] = SetWatches /\ \A i \in 2 .. Len(to_send) : IsRead(to_send[i])
        BY <2>6, <3>1 DEF Telling
      <4>2. \A i \in 1 .. Len(to_send') : IsRead(to_send'[i])
        BY <2>2, <4>1
      <4>3. Len(to_server') = 1 /\ to_server'[1] = SetWatches'
        BY <2>3, <2>4, <3>1, <4>1
      <4>4. \A i \in 2 .. Len(to_server') : IsRead(to_server'[i])
        BY <4>3
      <4> QED
        BY <2>1, <2>3, <2>6, <4>2, <4>3, <4>4 DEF Telling, PhaseInv, IsRead
    <3>2. CASE to_server # <<>>
      <4>1. /\ to_server[1] = SetWatches
            /\ \A i \in 2 .. Len(to_server) : IsRead(to_server[i])
            /\ \A i \in 1 .. Len(to_send) : IsRead(to_send[i])
        BY <2>6, <3>2 DEF Telling
      <4>2. \A i \in 1 .. Len(to_send') : IsRead(to_send'[i])
        BY <2>2, <4>1
      <4>3. to_server'[1] = SetWatches'
        BY <1>0, <2>3, <2>4, <3>2, <4>1 DEF WatchType
      <4>4. \A i \in 2 .. Len(to_server') : IsRead(to_server'[i])
        BY <2>2, <2>3, <4>1
      <4> QED
        BY <2>1, <2>3, <2>6, <4>2, <4>3, <4>4 DEF Telling, PhaseInv, IsRead
    <3> QED
      BY <3>1, <3>2
  <2> QED
    BY <1>0, <2>1, <2>5, <2>6 DEF PhaseInv, Offline
<1>5. CASE ReceiveEvent \/ ReceiveSetWatches \/ ReceiveReply
  <2>1. to_client # <<>> /\ UNCHANGED <<connected, to_server, to_send>>
    BY <1>5 DEF ReceiveEvent, ReceiveSetWatches, ReceiveReply
  <2>2. Told
    BY <1>0, <2>1 DEF PhaseInv, Offline, Telling
  <2> QED
    BY <2>1, <2>2 DEF Told, PhaseInv, IsRead
<1>6. CASE ConnectionLost
  <2>1. Offline'
    BY <1>6 DEF ConnectionLost, Offline
  <2> QED
    BY <2>1 DEF PhaseInv
<1>7. CASE ServerRead \/ ServerSetWatches
  <2>1. to_server # <<>> /\ to_server' = Tail(to_server) /\ UNCHANGED <<connected, to_send>>
    BY <1>7 DEF ServerRead, ServerSetWatches
  <2>2. /\ Len(to_server') = Len(to_server) - 1 /\ Len(to_server) \in Nat \ {0}
        /\ \A i \in 1 .. Len(to_server) - 1 : to_server'[i] = to_server[i + 1]
    BY <1>0, <2>1 DEF WatchType
  <2>3. /\ connected /\ \A i \in 2 .. Len(to_server) : IsRead(to_server[i])
        /\ \A i \in 1 .. Len(to_send) : IsRead(to_send[i])
    BY <1>0, <2>1, <2>2 DEF PhaseInv, Offline, Telling, Told
  <2>4. \A i \in 1 .. Len(to_server') : IsRead(to_server'[i])
    BY <2>2, <2>3
  <2> QED
    BY <2>1, <2>3, <2>4 DEF Told, PhaseInv, IsRead
<1>8. ASSUME NEW type \in EventTypes, NEW p \in Paths, Change(type, p)
      PROVE  PhaseInv'
  <2>1. UNCHANGED <<connected, last_zxid, active, to_send, to_server>>
    BY <1>8 DEF Change
  <2>2. SetWatches' = SetWatches
    BY <2>1 DEF SetWatches
  <2>3. CASE server_watches = [a \in Aspects |-> {}]
    <3>1. to_client' = to_client
      BY <1>8, <2>3 DEF Change
    <3>2. server_watches' = [a \in Aspects |-> {}]
      BY <1>8, <2>3 DEF Change
    <3> QED
      BY <1>0, <2>1, <2>2, <2>3, <3>1, <3>2 DEF PhaseInv, Offline, Telling, Told, IsRead
  <2>4. CASE server_watches # [a \in Aspects |-> {}]
    <3>1. Told
      BY <1>0, <2>4 DEF PhaseInv, Offline, Telling
    <3> QED
      BY <2>1, <3>1 DEF PhaseInv, Told, IsRead
  <2> QED
    BY <2>3, <2>4
<1> QED
  BY <1>1, <1>2, <1>3, <1>4, <1>5, <1>6, <1>7, <1>8, Steps

-----------------------------------------------------------------------------
(* How steps move messages and requests.                                   *)

LEMMA Appending ==
  ASSUME NEW S, NEW s \in Seq(S), NEW x \in S
  PROVE  /\ Append(s, x) \in Seq(S) /\ Len(Append(s, x)) = Len(s) + 1 /\ Len(s) \in Nat
         /\ \A i \in 1 .. Len(s) : Append(s, x)[i] = s[i]
         /\ Append(s, x)[Len(s) + 1] = x
  OBVIOUS

LEMMA Tailing ==
  ASSUME NEW S, NEW s \in Seq(S), s # <<>>
  PROVE  /\ Tail(s) \in Seq(S) /\ Len(Tail(s)) = Len(s) - 1 /\ Len(s) \in Nat \ {0}
         /\ \A i \in 1 .. Len(s) - 1 : Tail(s)[i] = s[i + 1]
         /\ Head(s) = s[1] /\ s[1] \in S
  OBVIOUS

\* The packet and the message of ServerRead.
LEMMA ServerReads ==
  ASSUME WatchType, NodeInv, ServerRead
  PROVE  \E req \in ReadRequests, msg \in ReplyMessages :
           /\ to_server # <<>> /\ req = to_server[1] /\ IsRead(req)
           /\ to_server' = Tail(to_server)
           /\ to_client' = Append(to_client, msg)
           /\ msg = [xid |-> req.xid, rc |-> IF node[req.path].exists THEN "ZOK" ELSE "ZNONODE",
                     zxid |-> zxid, val |-> Value(Aspect(req.kind), req.path)]
           /\ server_watches' =
                IF req.watcher # NoWatcher /\ (node[req.path].exists \/ req.kind = "exists")
                  THEN [server_watches EXCEPT ![Aspect(req.kind)] = @ \union {req.path}]
                  ELSE server_watches
           /\ UNCHANGED <<connected, last_zxid, active, to_send, sent_requests,
                          completions_to_process, zxid, node, seen, reads>>
<1> DEFINE req == Head(to_server)
           msg == [xid |-> req.xid, rc |-> IF node[req.path].exists THEN "ZOK" ELSE "ZNONODE",
                   zxid |-> zxid, val |-> Value(Aspect(req.kind), req.path)]
<1>1. to_server # <<>> /\ req = to_server[1] /\ req \in ReadRequests \union SetWatchesPackets
  BY DEF ServerRead, WatchType
<1>2. IsRead(req) /\ req \in ReadRequests
  BY <1>1, PacketKinds DEF ServerRead, IsRead
<1>3. req.xid \in Nat /\ req.path \in Paths /\ Aspect(req.kind) \in Aspects
  BY <1>2 DEF ReadRequests, Aspect, Aspects
<1>4. Value(Aspect(req.kind), req.path) \in Nat /\ zxid \in Nat
  BY <1>3, ValueOf, SMTT(20) DEF WatchType
<1>5. msg \in ReplyMessages
  BY <1>3, <1>4 DEF ReplyMessages
<1> QED
  BY <1>1, <1>2, <1>5 DEF ServerRead

\* The messages of ServerSetWatches: the events that were missed, and the answer.
LEMMA ServerTold ==
  ASSUME WatchType, PhaseInv, ServerSetWatches
  PROVE  /\ Telling /\ to_server # <<>> /\ to_server' = Tail(to_server)
         /\ Len(to_client') \in Nat \ {0}
         /\ to_client'[Len(to_client')] = [xid |-> SET_WATCHES_XID, zxid |-> zxid]
         /\ \A i \in 1 .. Len(to_client') - 1 : to_client'[i] \in MissedEvents(SetWatches)
         /\ \A m \in MissedEvents(SetWatches) : \E i \in 1 .. Len(to_client') - 1 : to_client'[i] = m
         /\ SetWatches \in SetWatchesPackets
         /\ server_watches' = [server_watches EXCEPT
              !["data"] = @ \union (SetWatches.watches["node"] \ MissedPaths(SetWatches, "node"))
                            \union (SetWatches.watches["exist"] \ MissedPaths(SetWatches, "exist")),
              !["children"] = @ \union (SetWatches.watches["child"] \ MissedPaths(SetWatches, "child"))]
         /\ UNCHANGED <<connected, last_zxid, active, to_send, sent_requests,
                        completions_to_process, zxid, node, seen, reads>>
<1>1. /\ to_server # <<>> /\ Head(to_server) = to_server[1] /\ ~IsRead(to_server[1])
      /\ 1 \in 1 .. Len(to_server)
  BY DEF ServerSetWatches, IsRead, WatchType
<1>2. Telling /\ to_server[1] = SetWatches /\ to_client = <<>>
  BY <1>1 DEF PhaseInv, Offline, Told, Telling
<1>3. SetWatches \in SetWatchesPackets
  BY SetWatchesPacket
<1>4. PICK order \in SetToSeqs(MissedEvents(SetWatches)) :
        to_client' = to_client \o order \o <<[xid |-> SET_WATCHES_XID, zxid |-> zxid]>>
  BY <1>1, <1>2 DEF ServerSetWatches
<1>5. /\ order \in Seq(MissedEvents(SetWatches))
      /\ \A m \in MissedEvents(SetWatches) : \E k \in 1 .. Len(order) : order[k] = m
  BY <1>3, <1>4, Orders, FiniteEvents
<1>6. PICK answer : answer = [xid |-> SET_WATCHES_XID, zxid |-> zxid]
  OBVIOUS
<1>7. to_client' = order \o <<answer>>
  BY <1>2, <1>4, <1>5, <1>6
<1>8. /\ Len(to_client') = Len(order) + 1 /\ Len(order) \in Nat
      /\ to_client'[Len(order) + 1] = answer
      /\ \A i \in 1 .. Len(order) : to_client'[i] = order[i] /\ order[i] \in MissedEvents(SetWatches)
  BY <1>5, <1>7
<1>9. Len(to_client') \in Nat \ {0} /\ Len(to_client') - 1 = Len(order)
  BY <1>8
<1>10. /\ \A i \in 1 .. Len(to_client') - 1 : to_client'[i] \in MissedEvents(SetWatches)
       /\ \A m \in MissedEvents(SetWatches) : \E i \in 1 .. Len(to_client') - 1 : to_client'[i] = m
  BY <1>5, <1>8, <1>9
<1> QED
  BY <1>1, <1>2, <1>3, <1>6, <1>8, <1>9, <1>10 DEF ServerSetWatches

\* The message that a change may send.
LEMMA Changes ==
  ASSUME WatchType, NEW type \in EventTypes, NEW p \in Paths, Change(type, p)
  PROVE  /\ zxid' = zxid + 1 /\ (node[p].exists <=> type # "CREATED")
         /\ Event(type, p, zxid + 1) \in EventMessages
         /\ \/ to_client' = to_client
            \/ to_client' = Append(to_client, Event(type, p, zxid + 1))
         /\ UNCHANGED <<connected, last_zxid, active, to_send, sent_requests,
                        completions_to_process, to_server, seen, reads>>
  BY DEF Change, Event, EventMessages, WatchType

LEMMA XidStep ==
  ASSUME WatchInv, [Next]_vars
  PROVE  XidInv'
<1>0. WatchType /\ NodeInv /\ PhaseInv /\ XidInv
  BY DEF WatchInv
<1>1. CASE UNCHANGED vars \/ Deliver
  <2>1. UNCHANGED <<sent_requests, to_client, to_server, to_send, reads>>
    BY <1>1 DEF vars, Deliver
  <2> QED
    BY <1>0, <2>1 DEF XidInv, OwnXid, IsRead
<1>2. ASSUME NEW kind \in Kinds, NEW p \in Paths, NEW w \in Watchers \union {NoWatcher},
             Read(kind, p, w)
      PROVE  XidInv'
  <2>1. PICK req : req = [xid |-> reads + 1, kind |-> kind, path |-> p, watcher |-> w]
    OBVIOUS
  <2>2. req \in ReadRequests /\ req.xid = reads + 1 /\ reads \in Nat
    BY <1>0, <2>1 DEF WatchType, ReadRequests
  <2>3. /\ to_send' = Append(to_send, req) /\ sent_requests' = Append(sent_requests, req)
        /\ reads' = reads + 1 /\ UNCHANGED <<to_client, to_server>>
    BY <1>2, <2>1 DEF Read
  <2>4. /\ Len(to_send') = Len(to_send) + 1 /\ to_send'[Len(to_send) + 1] = req
        /\ \A i \in 1 .. Len(to_send) : to_send'[i] = to_send[i]
        /\ Len(to_send) \in Nat
    BY <1>0, <2>2, <2>3, Appending DEF WatchType
  <2>5. /\ Len(sent_requests') = Len(sent_requests) + 1
        /\ sent_requests'[Len(sent_requests) + 1] = req
        /\ \A i \in 1 .. Len(sent_requests) : /\ sent_requests'[i] = sent_requests[i]
                                              /\ sent_requests[i].xid \in Nat
        /\ Len(sent_requests) \in Nat
    <3>1. sent_requests \in Seq(ReadRequests)
      BY <1>0 DEF WatchType
    <3>2. \A i \in 1 .. Len(sent_requests) : sent_requests[i].xid \in Nat
      <4>1. \A i \in 1 .. Len(sent_requests) : sent_requests[i] \in ReadRequests
        BY <3>1
      <4> QED
        BY <4>1 DEF ReadRequests
    <3> QED
      BY <2>2, <2>3, <3>1, <3>2, Appending
  <2>6. \A k \in 1 .. Len(sent_requests') : sent_requests'[k] = req \/
          \E l \in 1 .. Len(sent_requests) : /\ sent_requests'[k] = sent_requests[l]
                                             /\ sent_requests[l].xid <= reads
    BY <1>0, <2>5 DEF XidInv
  <2>7. ASSUME NEW m \in ReadRequests \union SetWatchesPackets, OwnXid(m) PROVE OwnXid(m)'
    <3> SUFFICES ASSUME IsRead(m)
                 PROVE  /\ m.xid <= reads'
                        /\ \A k \in 1 .. Len(sent_requests') :
                             sent_requests'[k].xid = m.xid => sent_requests'[k] = m
      BY DEF OwnXid, IsRead
    <3>1. m.xid \in Nat /\ m.xid <= reads
      BY <2>7, PacketKinds DEF OwnXid, IsRead, ReadRequests
    <3>2. \A l \in 1 .. Len(sent_requests) : sent_requests[l].xid = m.xid => sent_requests[l] = m
      BY <2>7 DEF OwnXid
    <3> QED
      BY <2>2, <2>3, <2>6, <3>1, <3>2
  <2>8. OwnXid(req)'
    <3>1. \A k \in 1 .. Len(sent_requests') : sent_requests'[k].xid = req.xid => sent_requests'[k] = req
      BY <2>2, <2>5, <2>6
    <3> QED
      BY <2>2, <2>3, <3>1 DEF OwnXid
  <2>9. /\ \A i \in 1 .. Len(to_send) : to_send[i] \in ReadRequests \union SetWatchesPackets
        /\ \A i \in 1 .. Len(to_server) : to_server[i] \in ReadRequests \union SetWatchesPackets
    BY <1>0 DEF WatchType
  <2>10. \A i \in 1 .. Len(to_send') : OwnXid(to_send[i])'
    <3> SUFFICES ASSUME NEW i \in 1 .. Len(to_send') PROVE OwnXid(to_send[i])'
      OBVIOUS
    <3>1. PICK m : m = to_send'[i]
      OBVIOUS
    <3>2. OwnXid(m)'
      BY <1>0, <2>4, <2>7, <2>8, <2>9, <3>1 DEF XidInv
    <3> QED
      BY <3>1, <3>2
  <2>11. \A i \in 1 .. Len(to_server) : OwnXid(to_server[i])'
    <3> SUFFICES ASSUME NEW i \in 1 .. Len(to_server) PROVE OwnXid(to_server[i])'
      OBVIOUS
    <3>1. PICK m : m = to_server[i]
      OBVIOUS
    <3>2. OwnXid(m)'
      BY <1>0, <2>7, <2>9, <3>1 DEF XidInv
    <3> QED
      BY <2>3, <3>1, <3>2
  <2>12. \A k \in 1 .. Len(sent_requests') : sent_requests'[k].xid <= reads'
    <3>1. \A l \in 1 .. Len(sent_requests) : sent_requests[l].xid \in Nat
      BY <2>5
    <3> QED
      BY <2>2, <2>3, <2>6, <3>1, SMTT(20)
  <2>13. \A i \in 1 .. Len(to_client') : to_client'[i].xid \in Nat => to_client'[i].xid <= reads'
    BY <1>0, <2>2, <2>3 DEF XidInv
  <2> QED
    BY <2>3, <2>10, <2>11, <2>12, <2>13 DEF XidInv
<1>3. CASE SessionEstablished \/ SendPacket
  <2>1. UNCHANGED <<sent_requests, to_client, reads>>
    BY <1>3 DEF SessionEstablished, SendPacket
  <2>2. \A i \in 1 .. Len(to_send') : \/ ~IsRead(to_send'[i])
                                      \/ \E j \in 1 .. Len(to_send) : to_send'[i] = to_send[j]
    <3>1. CASE SendPacket
      BY <1>0, <3>1 DEF SendPacket, WatchType
    <3>2. CASE SessionEstablished
      <4>1. to_send' = to_send \/ to_send' = <<SetWatches>> \o to_send
        BY <3>2 DEF SessionEstablished, send_set_watches
      <4>2. CASE to_send' = <<SetWatches>> \o to_send
        <5>1. /\ Len(to_send') = Len(to_send) + 1 /\ to_send'[1] = SetWatches /\ Len(to_send) \in Nat
              /\ \A i \in 2 .. Len(to_send') : to_send'[i] = to_send[i - 1]
          BY <1>0, <4>2 DEF WatchType
        <5> QED
          BY <1>0, <5>1, SetWatchesPacket
      <4> QED
        BY <4>1, <4>2
    <3> QED
      BY <1>3, <3>1, <3>2
  <2>3. \A i \in 1 .. Len(to_server') : \/ \E j \in 1 .. Len(to_server) : to_server'[i] = to_server[j]
                                        \/ \E j \in 1 .. Len(to_send) : to_server'[i] = to_send[j]
    <3>1. CASE SendPacket
      <4>1. /\ to_send # <<>> /\ Head(to_send) = to_send[1] /\ 1 \in 1 .. Len(to_send)
            /\ to_send[1] \in ReadRequests \union SetWatchesPackets
            /\ to_server' = Append(to_server, to_send[1])
        BY <1>0, <3>1 DEF SendPacket, WatchType
      <4>2. /\ Len(to_server') = Len(to_server) + 1 /\ Len(to_server) \in Nat
            /\ \A i \in 1 .. Len(to_server) : to_server'[i] = to_server[i]
            /\ to_server'[Len(to_server) + 1] = to_send[1]
        BY <1>0, <4>1, Appending DEF WatchType
      <4> QED
        BY <4>1, <4>2
    <3>2. CASE SessionEstablished
      BY <3>2 DEF SessionEstablished
    <3> QED
      BY <1>3, <3>1, <3>2
  <2>4. ASSUME NEW m, OwnXid(m) \/ ~IsRead(m) PROVE OwnXid(m)'
    BY <2>1, <2>4 DEF OwnXid, IsRead
  <2>5. \A i \in 1 .. Len(to_send') : OwnXid(to_send[i])'
    <3> SUFFICES ASSUME NEW i \in 1 .. Len(to_send') PROVE OwnXid(to_send[i])'
      OBVIOUS
    <3>1. PICK m : m = to_send'[i]
      OBVIOUS
    <3>2. OwnXid(m) \/ ~IsRead(m)
      BY <1>0, <2>2, <3>1 DEF XidInv
    <3> QED
      BY <2>4, <3>1, <3>2
  <2>6. \A i \in 1 .. Len(to_server') : OwnXid(to_server[i])'
    <3> SUFFICES ASSUME NEW i \in 1 .. Len(to_server') PROVE OwnXid(to_server[i])'
      OBVIOUS
    <3>1. PICK m : m = to_server'[i]
      OBVIOUS
    <3>2. OwnXid(m)
      BY <1>0, <2>3, <3>1 DEF XidInv
    <3> QED
      BY <2>4, <3>1, <3>2
  <2> QED
    BY <1>0, <2>1, <2>5, <2>6 DEF XidInv
<1>4. CASE \/ ReceiveEvent \/ ReceiveSetWatches \/ ReceiveReply \/ ServerRead \/ ServerSetWatches
           \/ \E type \in EventTypes, p \in Paths : Change(type, p)
  <2>1. /\ reads' = reads /\ to_send' = to_send
        /\ sent_requests' = sent_requests \/ (sent_requests # <<>> /\ sent_requests' = Tail(sent_requests))
        /\ to_server' = to_server \/ (to_server # <<>> /\ to_server' = Tail(to_server))
    BY <1>4 DEF ReceiveEvent, ReceiveSetWatches, ReceiveReply, ServerRead, ServerSetWatches, Change
  <2>2. \A k \in 1 .. Len(sent_requests') : \E l \in 1 .. Len(sent_requests) : sent_requests'[k] = sent_requests[l]
    <3>1. CASE sent_requests # <<>> /\ sent_requests' = Tail(sent_requests)
      BY <1>0, <3>1 DEF WatchType
    <3> QED
      BY <2>1, <3>1
  <2>3. \A k \in 1 .. Len(to_server') : \E l \in 1 .. Len(to_server) : to_server'[k] = to_server[l]
    <3>1. CASE to_server # <<>> /\ to_server' = Tail(to_server)
      BY <1>0, <3>1 DEF WatchType
    <3> QED
      BY <2>1, <3>1
  <2>4. ASSUME NEW m, OwnXid(m) PROVE OwnXid(m)'
    BY <2>1, <2>2, <2>4 DEF OwnXid, IsRead
  <2>5. \A i \in 1 .. Len(to_server') : OwnXid(to_server[i])'
    <3> SUFFICES ASSUME NEW i \in 1 .. Len(to_server') PROVE OwnXid(to_server[i])'
      OBVIOUS
    <3>1. PICK m : m = to_server'[i]
      OBVIOUS
    <3>2. OwnXid(m)
      BY <1>0, <2>3, <3>1 DEF XidInv
    <3> QED
      BY <2>4, <3>1, <3>2
  <2>6. \A i \in 1 .. Len(to_send') : OwnXid(to_send[i])'
    <3> SUFFICES ASSUME NEW i \in 1 .. Len(to_send') PROVE OwnXid(to_send[i])'
      OBVIOUS
    <3>1. PICK m : m = to_send[i]
      OBVIOUS
    <3>2. OwnXid(m)
      BY <1>0, <2>1, <3>1 DEF XidInv
    <3> QED
      BY <2>1, <2>4, <3>1, <3>2
  <2>7. \A k \in 1 .. Len(sent_requests') : sent_requests'[k].xid <= reads'
    BY <1>0, <2>1, <2>2 DEF XidInv
  <2>8. \A i \in 1 .. Len(to_client') : to_client'[i].xid \in Nat =>
          \/ \E j \in 1 .. Len(to_client) : to_client'[i] = to_client[j]
          \/ to_client'[i].xid <= reads
    <3>1. CASE ReceiveEvent \/ ReceiveSetWatches \/ ReceiveReply
      <4>1. to_client # <<>> /\ to_client' = Tail(to_client)
        BY <3>1 DEF ReceiveEvent, ReceiveSetWatches, ReceiveReply
      <4>2. /\ Len(to_client') = Len(to_client) - 1 /\ Len(to_client) \in Nat \ {0}
            /\ \A i \in 1 .. Len(to_client) - 1 : to_client'[i] = to_client[i + 1]
        BY <1>0, <4>1, Tailing DEF WatchType
      <4>3. \A i \in 1 .. Len(to_client') : i + 1 \in 1 .. Len(to_client)
        BY <4>2
      <4> QED
        BY <4>2, <4>3
    <3>2. CASE ServerRead
      <4>1. PICK req \in ReadRequests, msg \in ReplyMessages :
              /\ to_server # <<>> /\ req = to_server[1] /\ IsRead(req)
              /\ to_client' = Append(to_client, msg) /\ msg.xid = req.xid
        BY <1>0, <3>2, ServerReads
      <4>2. OwnXid(req)
        BY <1>0, <4>1 DEF XidInv, WatchType
      <4>3. msg.xid <= reads
        BY <4>1, <4>2 DEF OwnXid
      <4>4. msg \in Messages /\ to_client \in Seq(Messages)
        BY <1>0 DEF Messages, WatchType
      <4>5. /\ Len(to_client') = Len(to_client) + 1 /\ Len(to_client) \in Nat
            /\ \A i \in 1 .. Len(to_client) : to_client'[i] = to_client[i]
            /\ to_client'[Len(to_client) + 1] = msg
        BY <4>1, <4>4, Appending
      <4> QED
        BY <4>3, <4>5
    <3>3. CASE ServerSetWatches
      <4>1. /\ Len(to_client') \in Nat \ {0} /\ SetWatches \in SetWatchesPackets
            /\ to_client'[Len(to_client')] = [xid |-> SET_WATCHES_XID, zxid |-> zxid]
            /\ \A i \in 1 .. Len(to_client') - 1 : to_client'[i] \in MissedEvents(SetWatches)
        BY <1>0, <3>3, ServerTold
      <4>2. \A m \in MissedEvents(SetWatches) : m.xid \notin Nat
        BY <1>0, <4>1, MissedEventOf, WatchAssumption DEF EventMessages
      <4>3. to_client'[Len(to_client')].xid \notin Nat
        BY <4>1, WatchAssumption
      <4>4. \A i \in 1 .. Len(to_client') : i = Len(to_client') \/ i \in 1 .. Len(to_client') - 1
        BY <4>1
      <4> QED
        BY <4>1, <4>2, <4>3, <4>4
    <3>4. ASSUME NEW type \in EventTypes, NEW p \in Paths, Change(type, p)
          PROVE  \A i \in 1 .. Len(to_client') : to_client'[i].xid \in Nat =>
                   \E j \in 1 .. Len(to_client) : to_client'[i] = to_client[j]
      <4>1. PICK msg : msg = Event(type, p, zxid + 1)
        OBVIOUS
      <4>2. msg \in Messages /\ msg.xid \notin Nat /\ to_client \in Seq(Messages)
        BY <1>0, <3>4, <4>1, Changes, WatchAssumption DEF EventMessages, Messages, WatchType
      <4>3. CASE to_client' = to_client
        BY <4>3
      <4>4. CASE to_client' = Append(to_client, msg)
        <5>1. /\ Len(to_client') = Len(to_client) + 1 /\ Len(to_client) \in Nat
              /\ \A i \in 1 .. Len(to_client) : to_client'[i] = to_client[i]
              /\ to_client'[Len(to_client) + 1] = msg
          BY <4>2, <4>4, Appending
        <5> QED
          BY <4>2, <5>1
      <4> QED
        BY <1>0, <3>4, <4>1, <4>3, <4>4, Changes
    <3> QED
      BY <1>4, <3>1, <3>2, <3>3, <3>4
  <2>9. \A i \in 1 .. Len(to_client') : to_client'[i].xid \in Nat => to_client'[i].xid <= reads'
    BY <1>0, <2>1, <2>8 DEF XidInv
  <2> QED
    BY <2>5, <2>6, <2>7, <2>9 DEF XidInv
<1>5. CASE ConnectionLost
  <2>1. to_send' = <<>> /\ sent_requests' = <<>> /\ to_server' = <<>> /\ to_client' = <<>>
    BY <1>5 DEF ConnectionLost
  <2> QED
    BY <2>1 DEF XidInv
<1> QED
  BY <1>1, <1>2, <1>3, <1>4, <1>5, Steps

-----------------------------------------------------------------------------
(* How steps move watches.                                                 *)

\* A watch that a message brings is that of the request it answers.
LEMMA HeldByReply ==
  ASSUME WatchType, MessageInv, NEW t \in Tables, NEW p \in Paths, NEW i \in 1 .. Len(to_client),
         NEW e \in Held(t, p, i)
  PROVE  \E r \in Asked(i) :
           /\ r \in ReadRequests /\ r.xid = to_client[i].xid
           /\ r.watcher \in Watchers /\ r.path = p
           /\ to_client[i] \in ReplyMessages /\ t \in CheckerTable(r.kind, to_client[i].rc)
           /\ e = Watch(r.watcher, Aspect(r.kind), to_client[i].zxid, to_client[i].val)
<1>1. i # 0
  OBVIOUS
<1>2. PICK r \in Asked(i) : /\ r.watcher # NoWatcher /\ r.path = p
                            /\ t \in CheckerTable(r.kind, to_client[i].rc)
                            /\ e = Watch(r.watcher, Aspect(r.kind), to_client[i].zxid, to_client[i].val)
  BY <1>1 DEF Held
<1>3. PICK k \in 1 .. Len(sent_requests) : r = sent_requests[k]
  BY <1>2 DEF Asked
<1>4. r \in ReadRequests /\ to_client[i] \in Messages
  BY <1>3 DEF WatchType
<1>5. r.xid \in Nat /\ r.watcher \in Watchers \union {NoWatcher}
  BY <1>4 DEF ReadRequests
<1>6. r.xid = to_client[i].xid
  BY <1>2 DEF Asked
<1>7. to_client[i] \in ReplyMessages
  BY <1>4, <1>5, <1>6, MessageKinds
<1> QED
  BY <1>2, <1>4, <1>5, <1>6, <1>7

\* What holds of every watch, in a table or on its way.
LEMMA HeldFacts ==
  ASSUME WatchType, MessageInv, ActiveInv,
         NEW t \in Tables, NEW p \in Paths, NEW i \in 0 .. Len(to_client), NEW e \in Held(t, p, i)
  PROVE  /\ e \in Watches /\ e.aspect = AspectOf(t) /\ (t = "exist" <=> e.val = 0)
         /\ e.zxid \in 1 .. zxid /\ e.val <= e.zxid
         /\ i = 0 => e.zxid <= last_zxid
         /\ i # 0 => /\ e.zxid = to_client[i].zxid /\ e.val = to_client[i].val
                     /\ to_client[i].xid \in Nat /\ to_client[i].xid # WATCHER_EVENT_XID
                     /\ Answers(i, e.aspect, p)
<1>1. CASE i = 0
  <2>1. e \in active[t][p]
    BY <1>1 DEF Held
  <2>2. e \in Watches
    BY <2>1 DEF WatchType
  <2>3. last_zxid \in Nat /\ zxid \in Nat /\ last_zxid <= zxid
    BY DEF WatchType
  <2>4. /\ e.aspect = AspectOf(t) /\ (t = "exist" <=> e.val = 0)
        /\ e.zxid \in 1 .. last_zxid /\ e.val <= e.zxid
    BY <2>1 DEF ActiveInv
  <2> QED
    BY <1>1, <2>2, <2>3, <2>4
<1>2. CASE i # 0
  <2>0. i \in 1 .. Len(to_client)
    BY <1>2
  <2>1. PICK r \in Asked(i) :
           /\ r \in ReadRequests /\ r.xid = to_client[i].xid
           /\ r.watcher \in Watchers /\ r.path = p
           /\ to_client[i] \in ReplyMessages /\ t \in CheckerTable(r.kind, to_client[i].rc)
           /\ e = Watch(r.watcher, Aspect(r.kind), to_client[i].zxid, to_client[i].val)
    BY <2>0, HeldByReply
  <2>2. /\ to_client[i].xid \in Nat /\ to_client[i].xid # WATCHER_EVENT_XID
        /\ to_client[i].rc \in {"ZOK", "ZNONODE"} /\ to_client[i].zxid \in Nat /\ to_client[i].val \in Nat
        /\ r.kind \in Kinds
    BY <2>1, WatchAssumption DEF ReplyMessages, ReadRequests
  <2>3. /\ to_client[i].zxid \in 1 .. zxid /\ to_client[i].val <= to_client[i].zxid
        /\ to_client[i].rc = "ZNONODE" <=> to_client[i].val = 0
    BY <2>0, <2>2 DEF MessageInv
  <2>4. Aspect(r.kind) = AspectOf(t) /\ (t = "exist" <=> to_client[i].rc = "ZNONODE")
    BY <2>1, <2>2, CheckerTableOf
  <2>5. Aspect(r.kind) \in Aspects
    BY DEF Aspect, Aspects
  <2>6. /\ e.w = r.watcher /\ e.aspect = Aspect(r.kind) /\ e.zxid = to_client[i].zxid
        /\ e.val = to_client[i].val /\ e \in Watches
    BY <2>1, <2>2, <2>5 DEF Watch, Watches
  <2>7. Answers(i, e.aspect, p)
    BY <2>1, <2>6 DEF Answers
  <2> QED
    BY <1>2, <2>2, <2>3, <2>4, <2>6, <2>7
<1> QED
  BY <1>1, <1>2

\* A message that answers a read is a reply.
LEMMA AnswerFacts ==
  ASSUME WatchType, NEW i \in 1 .. Len(to_client), NEW a, NEW p, Answers(i, a, p)
  PROVE  /\ to_client[i] \in ReplyMessages /\ to_client[i].xid \in Nat
         /\ to_client[i].xid # WATCHER_EVENT_XID
<1>1. PICK k \in 1 .. Len(sent_requests) : sent_requests[k].xid = to_client[i].xid
  BY DEF Answers, Asked
<1>2. sent_requests[k].xid \in Nat /\ to_client[i] \in Messages
  <2>1. sent_requests[k] \in ReadRequests /\ to_client[i] \in Messages
    BY <1>1 DEF WatchType
  <2> QED
    BY <2>1 DEF ReadRequests
<1> QED
  BY <1>1, <1>2, MessageKinds, WatchAssumption

\* Steps that leave the messages where they are, and may add some behind them.
Keeps ==
  /\ active' = active
  /\ Len(to_client') \in Nat /\ Len(to_client) <= Len(to_client')
  /\ \A i \in 1 .. Len(to_client) : to_client'[i] = to_client[i] /\ Asked(i)' = Asked(i)

LEMMA Kept ==
  ASSUME WatchType, Keeps
  PROVE  /\ \A t, p : \A i \in 0 .. Len(to_client) : Held(t, p, i)' = Held(t, p, i)
         /\ \A a, p : \A i \in 1 .. Len(to_client) : Answers(i, a, p)' = Answers(i, a, p)
         /\ \A t, p : \A i \in Nat : \A j \in 0 .. Len(to_client) + 1 :
              Taken(t, p, i, j)' <=> Taken(t, p, i, j)
<1>0. Len(to_client) \in Nat
  BY DEF WatchType
<1>1. ASSUME NEW t, NEW p, NEW i \in 0 .. Len(to_client) PROVE Held(t, p, i)' = Held(t, p, i)
  <2>1. CASE i = 0
    BY <2>1 DEF Held, Keeps
  <2>2. CASE i # 0
    <3>1. to_client'[i] = to_client[i] /\ Asked(i)' = Asked(i)
      BY <1>0, <2>2 DEF Keeps
    <3> QED
      BY <2>2, <3>1 DEF Held
  <2> QED
    BY <2>1, <2>2
<1>2. \A a, p : \A i \in 1 .. Len(to_client) : Answers(i, a, p)' = Answers(i, a, p)
  BY DEF Answers, Keeps
<1>3. ASSUME NEW t, NEW p, NEW i \in Nat, NEW j \in 0 .. Len(to_client) + 1
      PROVE  Taken(t, p, i, j)' <=> Taken(t, p, i, j)
  <2>1. \A k \in i + 1 .. j - 1 : k \in 1 .. Len(to_client)
    BY <1>0
  <2>2. \A k \in i + 1 .. j - 1 : to_client'[k] = to_client[k]
    BY <2>1 DEF Keeps
  <2> QED
    BY <2>2 DEF Taken, Takes
<1> QED
  BY <1>1, <1>2, <1>3

\* Steps that do not touch messages and tables.
LEMMA QuietKeeps ==
  ASSUME WatchInv,
         \/ UNCHANGED vars \/ SessionEstablished \/ SendPacket \/ Deliver
         \/ \E kind \in Kinds, p \in Paths, w \in Watchers \union {NoWatcher} : Read(kind, p, w)
  PROVE  /\ Keeps /\ to_client' = to_client
         /\ UNCHANGED <<last_zxid, active, zxid, node, server_watches>>
<1>0. WatchType /\ XidInv
  BY DEF WatchInv
<1>1. UNCHANGED <<to_client, last_zxid, active, zxid, node, server_watches>>
  BY DEF vars, SessionEstablished, SendPacket, Deliver, Read
<1>2. Len(to_client) \in Nat
  BY <1>0 DEF WatchType
<1>3. ASSUME NEW i \in 1 .. Len(to_client) PROVE Asked(i)' = Asked(i)
  <2>1. CASE UNCHANGED vars \/ SessionEstablished \/ SendPacket \/ Deliver
    <3>1. sent_requests' = sent_requests
      BY <2>1 DEF vars, SessionEstablished, SendPacket, Deliver
    <3> QED
      BY <1>1, <3>1 DEF Asked
  <2>2. ASSUME NEW kind \in Kinds, NEW p \in Paths, NEW w \in Watchers \union {NoWatcher},
               Read(kind, p, w)
        PROVE  Asked(i)' = Asked(i)
    <3>1. PICK req : req = [xid |-> reads + 1, kind |-> kind, path |-> p, watcher |-> w]
      OBVIOUS
    <3>2. req \in ReadRequests /\ req.xid = reads + 1 /\ reads \in Nat
      BY <1>0, <3>1 DEF WatchType, ReadRequests
    <3>3. sent_requests' = Append(sent_requests, req)
      BY <2>2, <3>1 DEF Read
    <3>4. /\ Len(sent_requests') = Len(sent_requests) + 1
          /\ sent_requests'[Len(sent_requests) + 1] = req
          /\ \A k \in 1 .. Len(sent_requests) : sent_requests'[k] = sent_requests[k]
          /\ Len(sent_requests) \in Nat
      BY <1>0, <3>2, <3>3, Appending DEF WatchType
    <3>5. req.xid # to_client[i].xid
      <4>1. to_client[i].xid \in Nat => to_client[i].xid <= reads
        BY <1>0 DEF XidInv
      <4> QED
        BY <3>2, <4>1
    <3>6. {sent_requests'[k] : k \in 1 .. Len(sent_requests')}
            = {sent_requests[k] : k \in 1 .. Len(sent_requests)} \union {req}
      <4>1. ASSUME NEW k \in 1 .. Len(sent_requests')
            PROVE  sent_requests'[k] = req \/ k \in 1 .. Len(sent_requests)
        BY <3>4
      <4>2. 1 .. Len(sent_requests) \subseteq 1 .. Len(sent_requests')
        BY <3>4
      <4>3. Len(sent_requests) + 1 \in 1 .. Len(sent_requests')
        BY <3>4
      <4> QED
        BY <3>4, <4>1, <4>2, <4>3
    <3> QED
      BY <1>1, <3>5, <3>6 DEF Asked
  <2> QED
    BY <2>1, <2>2
<1> QED
  BY <1>1, <1>2, <1>3 DEF Keeps

\* Steps of the server only add messages.
LEMMA ServerKeeps ==
  ASSUME WatchInv,
         \/ ServerRead \/ ServerSetWatches
         \/ \E type \in EventTypes, p \in Paths : Change(type, p)
  PROVE  /\ Keeps
         /\ UNCHANGED <<last_zxid, active, sent_requests, completions_to_process, seen>>
<1>0. WatchType /\ NodeInv /\ PhaseInv
  BY DEF WatchInv
<1>1. UNCHANGED <<last_zxid, active, sent_requests, completions_to_process, seen>>
  BY DEF ServerRead, ServerSetWatches, Change
<1>2. to_client \in Seq(Messages) /\ Len(to_client) \in Nat
  BY <1>0 DEF WatchType
<1>3. /\ Len(to_client') \in Nat /\ Len(to_client) <= Len(to_client')
      /\ \A i \in 1 .. Len(to_client) : to_client'[i] = to_client[i]
  <2>1. ASSUME NEW msg \in Messages, to_client' = Append(to_client, msg)
        PROVE  /\ Len(to_client') = Len(to_client) + 1
               /\ \A i \in 1 .. Len(to_client) : to_client'[i] = to_client[i]
    BY <1>2, <2>1, Appending
  <2>2. CASE ServerRead
    <3>1. PICK msg \in Messages : to_client' = Append(to_client, msg)
      BY <1>0, <2>2, ServerReads DEF Messages
    <3> QED
      BY <1>2, <2>1, <3>1
  <2>3. CASE ServerSetWatches
    <3>1. Len(to_client') \in Nat /\ Telling
      BY <1>0, <2>3, ServerTold
    <3>2. Len(to_client) = 0
      BY <3>1 DEF Telling
    <3> QED
      BY <3>1, <3>2
  <2>4. ASSUME NEW type \in EventTypes, NEW p \in Paths, Change(type, p)
        PROVE  /\ Len(to_client') \in Nat /\ Len(to_client) <= Len(to_client')
               /\ \A i \in 1 .. Len(to_client) : to_client'[i] = to_client[i]
    <3>1. \/ to_client' = to_client
          \/ \E msg \in Messages : to_client' = Append(to_client, msg)
      BY <1>0, <2>4, Changes DEF Messages
    <3> QED
      BY <1>2, <2>1, <3>1
  <2> QED
    BY <2>2, <2>3, <2>4
<1>4. \A i \in 1 .. Len(to_client) : Asked(i)' = Asked(i)
  BY <1>1, <1>3 DEF Asked
<1> QED
  BY <1>1, <1>3, <1>4 DEF Keeps

\* A message is taken off the front.
LEMMA Received ==
  ASSUME WatchInv, ReceiveEvent \/ ReceiveSetWatches \/ ReceiveReply
  PROVE  /\ Told /\ Told' /\ Len(to_client') = Len(to_client) - 1 /\ Len(to_client) \in Nat \ {0}
         /\ to_client[1] \in Messages
         /\ \A i \in 1 .. Len(to_client') : /\ i + 1 \in 1 .. Len(to_client)
                                            /\ to_client'[i] = to_client[i + 1]
                                            /\ Asked(i)' \subseteq Asked(i + 1)
         /\ last_zxid' = IF to_client[1].xid = WATCHER_EVENT_XID THEN last_zxid ELSE to_client[1].zxid
         /\ UNCHANGED <<connected, to_send, to_server, zxid, node, server_watches, seen, reads>>
<1>0. WatchType /\ PhaseInv /\ MessageInv
  BY DEF WatchInv
<1>1. /\ to_client # <<>> /\ to_client' = Tail(to_client)
      /\ UNCHANGED <<connected, to_send, to_server, zxid, node, server_watches, seen, reads>>
  BY DEF ReceiveEvent, ReceiveSetWatches, ReceiveReply
<1>2. /\ Len(to_client') = Len(to_client) - 1 /\ Len(to_client) \in Nat \ {0}
      /\ \A i \in 1 .. Len(to_client) - 1 : to_client'[i] = to_client[i + 1]
      /\ Head(to_client) = to_client[1] /\ to_client[1] \in Messages
  BY <1>0, <1>1, Tailing DEF WatchType
<1>3. \A i \in 1 .. Len(to_client') : i + 1 \in 1 .. Len(to_client) /\ to_client'[i] = to_client[i + 1]
  BY <1>2
<1>4. Told
  BY <1>0, <1>1 DEF PhaseInv, Offline, Telling
<1>5. Told'
  BY <1>1, <1>4 DEF Told, IsRead
<1>6. {sent_requests'[k] : k \in 1 .. Len(sent_requests')}
        \subseteq {sent_requests[k] : k \in 1 .. Len(sent_requests)}
  <2>1. CASE ReceiveReply
    <3>1. sent_requests # <<>> /\ sent_requests' = Tail(sent_requests)
      BY <2>1 DEF ReceiveReply
    <3>2. /\ Len(sent_requests') = Len(sent_requests) - 1 /\ Len(sent_requests) \in Nat \ {0}
          /\ \A k \in 1 .. Len(sent_requests) - 1 : sent_requests'[k] = sent_requests[k + 1]
      BY <1>0, <3>1, Tailing DEF WatchType
    <3>3. \A k \in 1 .. Len(sent_requests') : /\ k + 1 \in 1 .. Len(sent_requests)
                                              /\ sent_requests'[k] = sent_requests[k + 1]
      BY <3>2
    <3> QED
      BY <3>3
  <2>2. CASE ReceiveEvent \/ ReceiveSetWatches
    BY <2>2 DEF ReceiveEvent, ReceiveSetWatches
  <2> QED
    BY <2>1, <2>2
<1>7. \A i \in 1 .. Len(to_client') : Asked(i)' \subseteq Asked(i + 1)
  BY <1>3, <1>6 DEF Asked
<1>8. last_zxid' = IF to_client[1].xid = WATCHER_EVENT_XID THEN last_zxid ELSE to_client[1].zxid
  <2>1. last_zxid' = NewLastZxid(to_client[1])
    BY <1>2 DEF ReceiveEvent, ReceiveSetWatches, ReceiveReply
  <2>2. to_client[1].xid = WATCHER_EVENT_XID => to_client[1].zxid = -1
    BY <1>2, MessageKinds DEF EventMessages
  <2>3. to_client[1].xid # WATCHER_EVENT_XID => to_client[1].zxid \in 1 .. zxid
    BY <1>0, <1>2 DEF MessageInv
  <2> QED
    BY <2>1, <2>2, <2>3 DEF NewLastZxid
<1> QED
  BY <1>1, <1>2, <1>3, <1>4, <1>5, <1>7, <1>8

\* The watch n of before is the watch i of after a message was received.
Moved(t, p, i, n) ==
  /\ n = i + 1 \/ (n = 0 /\ i = 0 /\ ~Takes(to_client[1], t, p))
  /\ n \in 0 .. Len(to_client)
  /\ \A j \in 0 .. Len(to_client) : Taken(t, p, n, j + 1) => Taken(t, p, i, j)'

LEMMA HeldReceived ==
  ASSUME WatchInv, ReceiveEvent \/ ReceiveSetWatches \/ ReceiveReply,
         NEW t \in Tables, NEW p \in Paths, NEW i \in 0 .. Len(to_client'), NEW e \in Held(t, p, i)'
  PROVE  \E n : Moved(t, p, i, n) /\ e \in Held(t, p, n)
<1>0. WatchType
  BY DEF WatchInv
<1>1. /\ Len(to_client') = Len(to_client) - 1 /\ Len(to_client) \in Nat \ {0}
      /\ \A k \in 1 .. Len(to_client') : /\ to_client'[k] = to_client[k + 1]
                                         /\ Asked(k)' \subseteq Asked(k + 1)
  BY Received
<1>2. ASSUME NEW n, n = i + 1 \/ (n = 0 /\ i = 0 /\ ~Takes(to_client[1], t, p))
      PROVE  Moved(t, p, i, n)
  <2>1. n \in 0 .. Len(to_client)
    BY <1>1, <1>2
  <2>2. ASSUME NEW j \in 0 .. Len(to_client), Taken(t, p, n, j + 1) PROVE Taken(t, p, i, j)'
    <3>1. PICK k \in n + 1 .. j : Takes(to_client[k], t, p)
      <4>1. (j + 1) - 1 = j
        OBVIOUS
      <4> QED
        BY <2>2, <4>1 DEF Taken
    <3>2. k # 1 \/ n # 0
      BY <1>2, <3>1
    <3>3. k - 1 \in i + 1 .. j - 1 /\ k - 1 \in 1 .. Len(to_client') /\ (k - 1) + 1 = k
      BY <1>1, <1>2, <2>1, <3>1, <3>2
    <3>4. Takes(to_client'[k - 1], t, p)
      BY <1>1, <3>1, <3>3
    <3> QED
      BY <3>3, <3>4 DEF Taken, Takes
  <2> QED
    BY <1>2, <2>1, <2>2 DEF Moved
<1>3. CASE i # 0
  <2>1. i \in 1 .. Len(to_client') /\ i + 1 # 0
    BY <1>1, <1>3
  <2>2. to_client'[i] = to_client[i + 1] /\ Asked(i)' \subseteq Asked(i + 1)
    BY <1>1, <2>1
  <2>3. e \in Held(t, p, i + 1)
    BY <1>3, <2>1, <2>2 DEF Held
  <2> QED
    BY <1>2, <2>3
<1>4. CASE i = 0
  <2>1. e \in active'[t][p]
    BY <1>4 DEF Held
  <2>2. SUFFICES \/ e \in active[t][p] /\ ~Takes(to_client[1], t, p)
                 \/ e \in Held(t, p, 1)
    <3>1. ASSUME e \in active[t][p], ~Takes(to_client[1], t, p)
          PROVE  \E n : Moved(t, p, i, n) /\ e \in Held(t, p, n)
      <4>1. Moved(t, p, i, 0)
        BY <1>2, <1>4, <3>1
      <4>2. e \in Held(t, p, 0)
        BY <3>1 DEF Held
      <4> QED
        BY <4>1, <4>2
    <3>2. ASSUME e \in Held(t, p, 1)
          PROVE  \E n : Moved(t, p, i, n) /\ e \in Held(t, p, n)
      <4>1. Moved(t, p, i, 1)
        BY <1>2, <1>4
      <4> QED
        BY <3>2, <4>1
    <3> QED
      BY <2>2, <3>1, <3>2
  <2>3. Head(to_client) = to_client[1]
    BY <1>0, <1>1, Tailing DEF WatchType
  <2>4. CASE ReceiveEvent
    <3>1. active' = WithoutWatchers(to_client[1].type, to_client[1].path)
      BY <2>3, <2>4 DEF ReceiveEvent
    <3>2. active \in [Tables -> [Paths -> SUBSET Watches]]
      BY <1>0 DEF WatchType
    <3>3. active'[t][p] = IF t \in EventTables(to_client[1].type) /\ p = to_client[1].path
                            THEN {} ELSE active[t][p]
      BY <3>1, <3>2 DEF WithoutWatchers
    <3> QED
      BY <2>1, <3>3 DEF Takes
  <2>5. CASE ReceiveSetWatches
    <3>1. active' = active /\ to_client[1].xid = SET_WATCHES_XID
      BY <2>3, <2>5 DEF ReceiveSetWatches
    <3> QED
      BY <2>1, <3>1, WatchAssumption DEF Takes
  <2>6. CASE ReceiveReply
    <3>1. PICK cptr : cptr = sent_requests[1]
      OBVIOUS
    <3>2. /\ sent_requests # <<>> /\ Head(sent_requests) = cptr /\ cptr \in ReadRequests
          /\ 1 \in 1 .. Len(sent_requests)
      BY <1>0, <2>6, <3>1 DEF ReceiveReply, WatchType
    <3>3. to_client[1].xid = cptr.xid /\ active' = activateWatcher(cptr, to_client[1])
      BY <2>3, <2>6, <3>2 DEF ReceiveReply
    <3>4. cptr.xid \in Nat
      BY <3>2 DEF ReadRequests
    <3>5. ~Takes(to_client[1], t, p)
      BY <3>3, <3>4, WatchAssumption DEF Takes
    <3>6. PICK new : new = Watch(cptr.watcher, Aspect(cptr.kind), to_client[1].zxid, to_client[1].val)
      OBVIOUS
    <3>7. \/ active'[t] = active[t]
          \/ /\ cptr.watcher # NoWatcher /\ t \in CheckerTable(cptr.kind, to_client[1].rc)
             /\ active'[t] = do_insert_watcher_object(active[t], cptr.path, new)
      BY <3>3, <3>6 DEF activateWatcher
    <3>8. CASE active'[t] = active[t]
      BY <2>1, <3>5, <3>8
    <3>9. CASE /\ cptr.watcher # NoWatcher /\ t \in CheckerTable(cptr.kind, to_client[1].rc)
               /\ active'[t] = do_insert_watcher_object(active[t], cptr.path, new)
      <4>1. active[t] \in [Paths -> SUBSET Watches]
        BY <1>0 DEF WatchType
      <4>2. active'[t][p] = IF p = cptr.path THEN add_to_list(active[t][p], new) ELSE active[t][p]
        BY <3>9, <4>1 DEF do_insert_watcher_object
      <4>3. e \in active[t][p] \/ (p = cptr.path /\ e = new)
        BY <2>1, <4>2 DEF add_to_list
      <4>4. cptr \in Asked(1)
        BY <3>1, <3>2, <3>3 DEF Asked
      <4>5. p = cptr.path => new \in Held(t, p, 1)
        BY <3>6, <3>9, <4>4 DEF Held
      <4> QED
        BY <3>5, <4>3, <4>5
    <3> QED
      BY <3>7, <3>8, <3>9
  <2> QED
    BY <2>4, <2>5, <2>6
<1> QED
  BY <1>3, <1>4

\* A lost connection leaves the watches of the tables.
LEMMA Lost ==
  ASSUME WatchType, ConnectionLost
  PROVE  /\ ~Told' /\ to_client' = <<>> /\ Len(to_client') = 0 /\ 0 \in 0 .. Len(to_client)
         /\ \A t, p : Held(t, p, 0)' = Held(t, p, 0)
         /\ UNCHANGED <<last_zxid, active, zxid, node, seen, reads>>
  BY DEF ConnectionLost, Told, Held, WatchType

-----------------------------------------------------------------------------
(* The order of messages, and the tables.                                  *)

LEMMA MessageStep ==
  ASSUME WatchInv, [Next]_vars
  PROVE  MessageInv'
<1>0. /\ WatchType /\ NodeInv /\ PhaseInv /\ MessageInv /\ to_client \in Seq(Messages)
      /\ zxid \in Nat \ {0} /\ last_zxid \in Nat /\ last_zxid <= zxid /\ Len(to_client) \in Nat
  BY DEF WatchInv, WatchType
<1>m. \A i \in 1 .. Len(to_client) : to_client[i] \in Messages /\ to_client[i].zxid <= zxid
  <2> SUFFICES ASSUME NEW i \in 1 .. Len(to_client)
               PROVE  to_client[i] \in Messages /\ to_client[i].zxid <= zxid
    OBVIOUS
  <2>1. to_client[i] \in Messages
    BY <1>0
  <2>2. CASE to_client[i].xid = WATCHER_EVENT_XID
    BY <1>0, <2>1, <2>2, MessageKinds DEF EventMessages
  <2>3. CASE to_client[i].xid # WATCHER_EVENT_XID
    BY <1>0, <2>1, <2>3 DEF MessageInv
  <2> QED
    BY <2>1, <2>2, <2>3
<1>1. CASE \/ UNCHANGED vars \/ SessionEstablished \/ SendPacket \/ Deliver
           \/ \E kind \in Kinds, p \in Paths, w \in Watchers \union {NoWatcher} : Read(kind, p, w)
  <2>1. UNCHANGED <<to_client, last_zxid, zxid>>
    BY <1>1, QuietKeeps
  <2> QED
    BY <1>0, <2>1 DEF MessageInv
<1>2. CASE ReceiveEvent \/ ReceiveSetWatches \/ ReceiveReply
  <2>1. /\ Len(to_client') = Len(to_client) - 1 /\ Len(to_client) \in Nat \ {0}
        /\ \A i \in 1 .. Len(to_client') : /\ i + 1 \in 1 .. Len(to_client)
                                           /\ to_client'[i] = to_client[i + 1]
        /\ last_zxid' = IF to_client[1].xid = WATCHER_EVENT_XID THEN last_zxid ELSE to_client[1].zxid
        /\ zxid' = zxid
    BY <1>2, Received
  <2>2. ASSUME NEW i \in 1 .. Len(to_client'), to_client'[i].xid # WATCHER_EVENT_XID
        PROVE  /\ to_client'[i].zxid \in 1 .. zxid' /\ last_zxid' <= to_client'[i].zxid
               /\ \A j \in 1 .. i : to_client'[j].zxid <= to_client'[i].zxid
    <3>1. /\ i + 1 \in 1 .. Len(to_client) /\ to_client[i + 1].xid # WATCHER_EVENT_XID
          /\ to_client'[i] = to_client[i + 1]
      BY <2>1, <2>2
    <3>2. /\ to_client[i + 1].zxid \in 1 .. zxid /\ last_zxid <= to_client[i + 1].zxid
          /\ \A j \in 1 .. i + 1 : to_client[j].zxid <= to_client[i + 1].zxid
      BY <1>0, <3>1 DEF MessageInv
    <3>3. \A j \in 1 .. i : j + 1 \in 1 .. i + 1 /\ to_client'[j] = to_client[j + 1]
      BY <2>1, <3>1
    <3>4. 1 \in 1 .. i + 1
      BY <3>1
    <3> QED
      BY <2>1, <3>1, <3>2, <3>3, <3>4
  <2>3. ASSUME NEW i \in 1 .. Len(to_client'), to_client'[i].xid \in Nat
        PROVE  /\ to_client'[i].rc = "ZNONODE" <=> to_client'[i].val = 0
               /\ to_client'[i].val <= to_client'[i].zxid
    BY <1>0, <2>1, <2>3 DEF MessageInv
  <2> QED
    BY <2>2, <2>3 DEF MessageInv
<1>3. CASE ConnectionLost
  BY <1>0, <1>3, Lost DEF MessageInv
<1>4. CASE ServerRead
  <2>1. PICK req \in ReadRequests, msg \in ReplyMessages :
           /\ to_client' = Append(to_client, msg)
           /\ msg = [xid |-> req.xid, rc |-> IF node[req.path].exists THEN "ZOK" ELSE "ZNONODE",
                     zxid |-> zxid, val |-> Value(Aspect(req.kind), req.path)]
           /\ UNCHANGED <<last_zxid, zxid>>
    BY <1>0, <1>4, ServerReads
  <2>2. req.path \in Paths /\ Aspect(req.kind) \in Aspects
    BY DEF ReadRequests, Aspect, Aspects
  <2>3. /\ msg.zxid = zxid /\ msg.val = Value(Aspect(req.kind), req.path)
        /\ msg.rc = "ZNONODE" <=> ~node[req.path].exists
    BY <2>1
  <2>4. (msg.rc = "ZNONODE" <=> msg.val = 0) /\ msg.val <= msg.zxid
    BY <1>0, <2>2, <2>3, ValueOf
  <2>5. /\ Len(to_client') = Len(to_client) + 1 /\ to_client'[Len(to_client) + 1] = msg
        /\ \A i \in 1 .. Len(to_client) : to_client'[i] = to_client[i]
    <3>1. msg \in Messages
      BY DEF Messages
    <3> QED
      BY <1>0, <2>1, <3>1, Appending
  <2>6. ASSUME NEW i \in 1 .. Len(to_client'), to_client'[i].xid # WATCHER_EVENT_XID
        PROVE  /\ to_client'[i].zxid \in 1 .. zxid' /\ last_zxid' <= to_client'[i].zxid
               /\ \A j \in 1 .. i : to_client'[j].zxid <= to_client'[i].zxid
    <3>1. CASE i \in 1 .. Len(to_client)
      <4>1. \A j \in 1 .. i : j \in 1 .. Len(to_client)
        BY <1>0, <3>1
      <4> QED
        BY <1>0, <2>1, <2>5, <2>6, <3>1, <4>1 DEF MessageInv
    <3>2. CASE i = Len(to_client) + 1
      <4>1. to_client'[i].zxid = zxid
        BY <2>3, <2>5, <3>2
      <4>2. ASSUME NEW j \in 1 .. i PROVE to_client'[j].zxid <= zxid
        <5>1. j = i \/ j \in 1 .. Len(to_client)
          BY <1>0, <3>2
        <5> QED
          BY <1>0, <1>m, <2>5, <4>1, <5>1
      <4> QED
        BY <1>0, <2>1, <4>1, <4>2
    <3> QED
      BY <1>0, <2>5, <3>1, <3>2
  <2>7. ASSUME NEW i \in 1 .. Len(to_client'), to_client'[i].xid \in Nat
        PROVE  /\ to_client'[i].rc = "ZNONODE" <=> to_client'[i].val = 0
               /\ to_client'[i].val <= to_client'[i].zxid
    <3>1. CASE i \in 1 .. Len(to_client)
      BY <1>0, <2>5, <2>7, <3>1 DEF MessageInv
    <3>2. CASE i = Len(to_client) + 1
      BY <2>4, <2>5, <3>2
    <3> QED
      BY <1>0, <2>5, <3>1, <3>2
  <2> QED
    BY <2>6, <2>7 DEF MessageInv
<1>5. CASE ServerSetWatches
  <2>1. /\ Len(to_client') \in Nat \ {0} /\ SetWatches \in SetWatchesPackets
        /\ to_client'[Len(to_client')] = [xid |-> SET_WATCHES_XID, zxid |-> zxid]
        /\ \A i \in 1 .. Len(to_client') - 1 : to_client'[i] \in MissedEvents(SetWatches)
        /\ UNCHANGED <<last_zxid, zxid>>
    BY <1>0, <1>5, ServerTold
  <2>2. \A m \in MissedEvents(SetWatches) : m.xid = WATCHER_EVENT_XID /\ m.zxid = -1
    BY <1>0, <2>1, MissedEventOf DEF EventMessages
  <2>3. /\ to_client'[Len(to_client')].zxid = zxid /\ to_client'[Len(to_client')].xid \notin Nat
        /\ \A i \in 1 .. Len(to_client') - 1 : /\ to_client'[i].xid = WATCHER_EVENT_XID
                                               /\ to_client'[i].zxid = -1
    BY <2>1, <2>2, WatchAssumption
  <2>4. \A i \in 1 .. Len(to_client') : i = Len(to_client') \/ i \in 1 .. Len(to_client') - 1
    BY <2>1
  <2>5. \A i \in 1 .. Len(to_client') : to_client'[i].xid # WATCHER_EVENT_XID => i = Len(to_client')
    BY <2>3, <2>4
  <2>6. \A i \in 1 .. Len(to_client') : to_client'[i].zxid <= zxid /\ to_client'[i].xid \notin Nat
    BY <1>0, <2>3, <2>4, WatchAssumption
  <2> QED
    BY <1>0, <2>1, <2>3, <2>5, <2>6 DEF MessageInv
<1>6. ASSUME NEW type \in EventTypes, NEW q \in Paths, Change(type, q)
      PROVE  MessageInv'
  <2>0. PICK msg : msg = Event(type, q, zxid + 1)
    OBVIOUS
  <2>1. /\ zxid' = zxid + 1 /\ last_zxid' = last_zxid /\ msg \in EventMessages
        /\ to_client' = to_client \/ to_client' = Append(to_client, msg)
    BY <1>0, <1>6, <2>0, Changes
  <2>2. msg.xid = WATCHER_EVENT_XID /\ msg.zxid = -1 /\ msg \in Messages /\ msg.xid \notin Nat
    BY <2>1, WatchAssumption DEF EventMessages, Messages
  <2>3. \A i \in 1 .. Len(to_client') :
          \/ to_client'[i].xid = WATCHER_EVENT_XID /\ to_client'[i].xid \notin Nat
          \/ i \in 1 .. Len(to_client)
    <3>1. CASE to_client' = Append(to_client, msg)
      <4>1. Len(to_client') = Len(to_client) + 1 /\ to_client'[Len(to_client) + 1] = msg
        BY <1>0, <2>2, <3>1, Appending
      <4> QED
        BY <1>0, <2>2, <4>1
    <3> QED
      BY <2>1, <3>1
  <2>4. \A i \in 1 .. Len(to_client) : to_client'[i] = to_client[i]
    <3>1. CASE to_client' = Append(to_client, msg)
      BY <1>0, <2>2, <3>1, Appending
    <3> QED
      BY <2>1, <3>1
  <2>5. ASSUME NEW i \in 1 .. Len(to_client'), to_client'[i].xid # WATCHER_EVENT_XID
        PROVE  /\ to_client'[i].zxid \in 1 .. zxid' /\ last_zxid' <= to_client'[i].zxid
               /\ \A j \in 1 .. i : to_client'[j].zxid <= to_client'[i].zxid
    <3>1. i \in 1 .. Len(to_client) /\ \A j \in 1 .. i : j \in 1 .. Len(to_client)
      BY <1>0, <2>3, <2>5
    <3>2. to_client[i].zxid \in 1 .. zxid /\ last_zxid <= to_client[i].zxid
      BY <1>0, <2>4, <2>5, <3>1 DEF MessageInv
    <3>3. \A j \in 1 .. i : to_client'[j].zxid <= to_client'[i].zxid
      BY <1>0, <2>4, <2>5, <3>1 DEF MessageInv
    <3> QED
      BY <1>0, <2>1, <2>4, <3>1, <3>2, <3>3
  <2>6. ASSUME NEW i \in 1 .. Len(to_client'), to_client'[i].xid \in Nat
        PROVE  /\ to_client'[i].rc = "ZNONODE" <=> to_client'[i].val = 0
               /\ to_client'[i].val <= to_client'[i].zxid
    BY <1>0, <2>3, <2>4, <2>6 DEF MessageInv
  <2> QED
    BY <2>5, <2>6 DEF MessageInv
<1> QED
  BY <1>1, <1>2, <1>3, <1>4, <1>5, <1>6, Steps

LEMMA ActiveStep ==
  ASSUME WatchInv, [Next]_vars
  PROVE  ActiveInv'
<1>0. /\ WatchType /\ NodeInv /\ PhaseInv /\ MessageInv /\ ActiveInv
      /\ zxid \in Nat /\ last_zxid \in Nat
  BY DEF WatchInv, WatchType
<1>1. CASE ReceiveEvent \/ ReceiveSetWatches \/ ReceiveReply
  <2> SUFFICES ASSUME NEW t \in Tables, NEW p \in Paths, NEW e \in active'[t][p]
               PROVE  /\ e.aspect = AspectOf(t) /\ (t = "exist" <=> e.val = 0)
                      /\ e.zxid \in 1 .. last_zxid' /\ e.val <= e.zxid
    BY DEF ActiveInv, AspectOf
  <2>1. /\ Len(to_client') = Len(to_client) - 1 /\ Len(to_client) \in Nat \ {0}
        /\ last_zxid' = IF to_client[1].xid = WATCHER_EVENT_XID THEN last_zxid ELSE to_client[1].zxid
        /\ to_client[1] \in Messages
    BY <1>1, Received
  <2>2. 0 \in 0 .. Len(to_client') /\ 1 \in 1 .. Len(to_client)
    BY <2>1
  <2>3. e \in Held(t, p, 0)'
    BY DEF Held
  <2>4. PICK n : Moved(t, p, 0, n) /\ e \in Held(t, p, n)
    BY <1>1, <2>2, <2>3, HeldReceived
  <2>5. n \in 0 .. Len(to_client) /\ n \in {0, 1}
    BY <2>4 DEF Moved
  <2>6. /\ e.aspect = AspectOf(t) /\ (t = "exist" <=> e.val = 0)
        /\ e.zxid \in 1 .. zxid /\ e.val <= e.zxid
        /\ n = 0 => e.zxid <= last_zxid
        /\ n # 0 => e.zxid = to_client[n].zxid /\ to_client[n].xid # WATCHER_EVENT_XID
    BY <1>0, <2>4, <2>5, HeldFacts
  <2>7. to_client[1].xid # WATCHER_EVENT_XID =>
          last_zxid <= to_client[1].zxid /\ to_client[1].zxid \in Nat
    BY <1>0, <2>1, <2>2, MessageKinds DEF MessageInv
  <2>8. e.zxid <= last_zxid' /\ last_zxid' \in Nat
    BY <1>0, <2>1, <2>5, <2>6, <2>7
  <2> QED
    BY <1>0, <2>6, <2>8
<1>2. CASE ~(ReceiveEvent \/ ReceiveSetWatches \/ ReceiveReply)
  <2>1. UNCHANGED <<active, last_zxid>>
    BY <1>0, <1>2, Steps DEF vars, Read, SessionEstablished, SendPacket, ConnectionLost, Deliver,
       ServerRead, ServerSetWatches, Change
  <2> QED
    BY <1>0, <2>1 DEF ActiveInv
<1> QED
  BY <1>1, <1>2

-----------------------------------------------------------------------------
(* What the server adds.                                                   *)

\* A message that is no reply brings no watch.
LEMMA NothingBrought ==
  ASSUME WatchType, sent_requests' = sent_requests, NEW i, to_client'[i].xid \notin Nat, i # 0
  PROVE  /\ \A t, p : Held(t, p, i)' = {}
         /\ \A a, p : ~Answers(i, a, p)'
<1>1. \A k \in 1 .. Len(sent_requests) : sent_requests[k].xid \in Nat
  <2>1. \A k \in 1 .. Len(sent_requests) : sent_requests[k] \in ReadRequests
    BY DEF WatchType
  <2> QED
    BY <2>1 DEF ReadRequests
<1>2. Asked(i)' = {}
  BY <1>1 DEF Asked
<1> QED
  BY <1>2 DEF Held, Answers

\* The reply of ServerRead, and the watch that it brings.
LEMMA ReplyAdded ==
  ASSUME WatchInv, ServerRead, NEW n, n = Len(to_client) + 1
  PROVE  /\ Told /\ Len(to_client') = n /\ Len(to_client) \in Nat
         /\ to_client'[n].zxid = zxid
         /\ to_client'[n].xid # WATCHER_EVENT_XID
         /\ UNCHANGED <<last_zxid, active, sent_requests, completions_to_process, zxid, node, seen>>
         /\ \A a \in Aspects : server_watches[a] \subseteq server_watches'[a]
         /\ \A a, p : Answers(n, a, p)' =>
              p \in Paths /\ to_client'[n].val = Value(a, p)
         /\ \A t \in Tables, p \in Paths : \A e \in Held(t, p, n)' :
              /\ e.zxid = zxid /\ e.val = Value(e.aspect, p) /\ e.aspect = AspectOf(t)
              /\ p \in server_watches'[e.aspect] /\ (t = "exist" <=> e.val = 0)
<1>0. WatchType /\ NodeInv /\ PhaseInv /\ XidInv
  BY DEF WatchInv
<1>1. PICK req \in ReadRequests, msg \in ReplyMessages :
           /\ to_server # <<>> /\ req = to_server[1] /\ IsRead(req)
           /\ to_client' = Append(to_client, msg)
           /\ msg = [xid |-> req.xid, rc |-> IF node[req.path].exists THEN "ZOK" ELSE "ZNONODE",
                     zxid |-> zxid, val |-> Value(Aspect(req.kind), req.path)]
           /\ server_watches' =
                IF req.watcher # NoWatcher /\ (node[req.path].exists \/ req.kind = "exists")
                  THEN [server_watches EXCEPT ![Aspect(req.kind)] = @ \union {req.path}]
                  ELSE server_watches
           /\ UNCHANGED <<last_zxid, active, sent_requests, completions_to_process, zxid, node, seen>>
  BY <1>0, <1>1, ServerReads
<1>2. Told
  BY <1>0, <1>1, SetWatchesPacket DEF PhaseInv, Offline, Telling
<1>4. Len(to_client') = n /\ to_client'[n] = msg /\ Len(to_client) \in Nat /\ n # 0
  <2>1. msg \in Messages /\ to_client \in Seq(Messages)
    BY <1>0 DEF Messages, WatchType
  <2> QED
    BY <1>1, <2>1, Appending
<1>5. /\ msg.zxid = zxid /\ msg.val = Value(Aspect(req.kind), req.path) /\ msg.xid = req.xid
      /\ msg.rc = IF node[req.path].exists THEN "ZOK" ELSE "ZNONODE"
  BY <1>1
<1>6. /\ req.xid \in Nat /\ req.path \in Paths /\ req.kind \in Kinds
      /\ Aspect(req.kind) \in Aspects
  BY DEF ReadRequests, Aspect, Aspects
<1>7. OwnXid(req)
  BY <1>0, <1>1 DEF XidInv, WatchType
<1>8. \A r \in Asked(n)' : r = req
  BY <1>1, <1>4, <1>5, <1>7 DEF Asked, OwnXid
<1>9. \A a \in Aspects : server_watches[a] \subseteq server_watches'[a]
  BY <1>0, <1>1, <1>6 DEF WatchType
<1>10. ASSUME NEW a, NEW p, Answers(n, a, p)' PROVE p \in Paths /\ msg.val = Value(a, p)
  BY <1>5, <1>6, <1>8, <1>10 DEF Answers
<1>11. ASSUME NEW t \in Tables, NEW p \in Paths, NEW e \in Held(t, p, n)'
       PROVE  /\ e.zxid = zxid /\ e.val = Value(e.aspect, p) /\ e.aspect = AspectOf(t)
              /\ p \in server_watches'[e.aspect] /\ (t = "exist" <=> e.val = 0)
  <2>1. /\ req.watcher # NoWatcher /\ req.path = p /\ t \in CheckerTable(req.kind, msg.rc)
        /\ e = Watch(req.watcher, Aspect(req.kind), msg.zxid, msg.val)
    BY <1>4, <1>8 DEF Held
  <2>2. e.zxid = zxid /\ e.val = msg.val /\ e.aspect = Aspect(req.kind)
    BY <1>5, <2>1 DEF Watch
  <2>3. /\ AspectOf(t) = Aspect(req.kind) /\ (t = "exist" <=> msg.rc = "ZNONODE")
        /\ msg.rc = "ZOK" \/ req.kind = "exists"
    BY <1>5, <1>6, <2>1, CheckerTableOf
  <2>4. msg.rc = "ZNONODE" <=> msg.val = 0
    BY <1>0, <1>5, <1>6, ValueOf
  <2>5. p \in server_watches'[Aspect(req.kind)]
    BY <1>0, <1>1, <1>5, <1>6, <2>1, <2>3 DEF WatchType
  <2> QED
    BY <1>5, <2>1, <2>2, <2>3, <2>4, <2>5
<1>12. to_client'[n].xid # WATCHER_EVENT_XID /\ to_client'[n].zxid = zxid
  BY <1>4, <1>5, <1>6, WatchAssumption
<1>13. \A a, p : Answers(n, a, p)' => p \in Paths /\ to_client'[n].val = Value(a, p)
  BY <1>4, <1>10
<1> QED
  BY <1>1, <1>2, <1>4, <1>9, <1>11, <1>12, <1>13

\* What a change does to what can be read.
LEMMA ChangeOf ==
  ASSUME WatchInv, NEW type \in EventTypes, NEW q \in Paths, Change(type, q),
         NEW a \in Aspects, NEW p \in Paths
  PROVE  \/ /\ p = q /\ LastChange(a, p)' = zxid + 1
            /\ a = "data" => type # "CHILD"
            /\ a = "children" => type # "CHANGED"
            /\ type = "DELETED" => Value(a, p)' = 0
            /\ type # "DELETED" => Value(a, p)' = zxid + 1
         \/ Value(a, p)' = Value(a, p) /\ LastChange(a, p)' = LastChange(a, p)
<1>1. node \in [Paths -> [exists : BOOLEAN, mzxid : Nat, pzxid : Nat]] /\ zxid \in Nat
  BY DEF WatchInv, WatchType
<1>2. /\ node[q].exists <=> type # "CREATED"
      /\ node' = [node EXCEPT ![q] =
          [exists |-> type # "DELETED",
           mzxid |-> IF type = "CHILD" THEN @.mzxid ELSE zxid + 1,
           pzxid |-> IF type = "CHANGED" THEN @.pzxid ELSE zxid + 1]]
  BY DEF Change
<1>3. CASE p # q
  <2>1. node'[p] = node[p]
    BY <1>1, <1>2, <1>3
  <2> QED
    BY <2>1 DEF Value, LastChange
<1>4. CASE p = q
  <2>1. node'[p] = [exists |-> type # "DELETED",
           mzxid |-> IF type = "CHILD" THEN node[p].mzxid ELSE zxid + 1,
           pzxid |-> IF type = "CHANGED" THEN node[p].pzxid ELSE zxid + 1]
    BY <1>1, <1>2, <1>4
  <2>2. /\ node'[p].exists <=> type # "DELETED"
        /\ node'[p].mzxid = IF type = "CHILD" THEN node[p].mzxid ELSE zxid + 1
        /\ node'[p].pzxid = IF type = "CHANGED" THEN node[p].pzxid ELSE zxid + 1
    <3>1. node'[p].exists = (type # "DELETED")
      BY <2>1
    <3>2. /\ node'[p].mzxid = IF type = "CHILD" THEN node[p].mzxid ELSE zxid + 1
          /\ node'[p].pzxid = IF type = "CHANGED" THEN node[p].pzxid ELSE zxid + 1
      BY <2>1
    <3> QED
      BY <3>1, <3>2, Zenon
  <2>3. node[p].exists <=> type # "CREATED"
    BY <1>2, <1>4
  <2> QED
    BY <1>4, <2>2, <2>3 DEF Value, LastChange, Aspects, EventTypes
<1> QED
  BY <1>3, <1>4

\* The watches that a change takes from the server.
Concerns(type, a) == IF a = "data" THEN type # "CHILD" ELSE type \in {"CHILD", "DELETED"}

\* The event of a change: sent if the server watches for it.
LEMMA EventAdded ==
  ASSUME WatchInv, NEW type \in EventTypes, NEW q \in Paths, Change(type, q),
         NEW n, n = Len(to_client) + 1
  PROVE  /\ Len(to_client) \in Nat /\ zxid' = zxid + 1
         /\ UNCHANGED <<last_zxid, active, sent_requests, completions_to_process, seen,
                        connected, to_send, to_server>>
         /\ \/ Len(to_client') = Len(to_client)
            \/ Len(to_client') = n /\ to_client'[n] = Event(type, q, zxid + 1)
         /\ Len(to_client') = n => /\ \A t, p : Held(t, p, n)' = {}
                                   /\ \A a, p : ~Answers(n, a, p)'
         /\ \A a \in Aspects : \A p \in server_watches[a] :
              \/ p \in server_watches'[a] /\ ~(p = q /\ Concerns(type, a))
              \/ p = q /\ Concerns(type, a) /\ Len(to_client') = n
<1>0. WatchType /\ to_client \in Seq(Messages) /\ Len(to_client) \in Nat
  BY DEF WatchInv, WatchType
<1>1. PICK msg : msg = Event(type, q, zxid + 1)
  OBVIOUS
<1>2. /\ zxid' = zxid + 1 /\ msg \in EventMessages
      /\ UNCHANGED <<last_zxid, active, sent_requests, completions_to_process, seen,
                     connected, to_send, to_server>>
  BY <1>0, <1>1, Changes DEF Change
<1>3. msg \in Messages /\ msg.xid \notin Nat
  BY <1>2, WatchAssumption DEF EventMessages, Messages
<1>4. ASSUME to_client' = Append(to_client, msg)
      PROVE  Len(to_client') = n /\ to_client'[n] = msg
  BY <1>0, <1>3, <1>4, Appending
<1>5. /\ to_client' = IF \E k \in Aspects : Concerns(type, k) /\ q \in server_watches[k]
                        THEN Append(to_client, msg) ELSE to_client
      /\ server_watches' = [k \in Aspects |->
                              IF Concerns(type, k) THEN server_watches[k] \ {q} ELSE server_watches[k]]
  BY <1>1 DEF Change, Concerns
<1>6. \/ Len(to_client') = Len(to_client)
      \/ Len(to_client') = n /\ to_client'[n] = msg
  BY <1>4, <1>5
<1>7. ASSUME Len(to_client') = n
      PROVE  (\A t, p : Held(t, p, n)' = {}) /\ (\A a, p : ~Answers(n, a, p)')
  <2>1. to_client'[n] = msg /\ n # 0
    BY <1>0, <1>6, <1>7
  <2> QED
    BY <1>0, <1>2, <1>3, <2>1, NothingBrought
<1>8. ASSUME NEW a \in Aspects, NEW p \in server_watches[a]
      PROVE  \/ p \in server_watches'[a] /\ ~(p = q /\ Concerns(type, a))
             \/ p = q /\ Concerns(type, a) /\ Len(to_client') = n
  <2>1. CASE p = q /\ Concerns(type, a)
    BY <1>4, <1>5, <1>8, <2>1
  <2>2. CASE ~(p = q /\ Concerns(type, a))
    BY <1>5, <1>8, <2>2
  <2> QED
    BY <2>1, <2>2
<1> QED
  BY <1>0, <1>1, <1>2, <1>6, <1>7, <1>8

\* SetWatches: a watch is left on what the node is, or an event takes it.
LEMMA WatchesReset ==
  ASSUME WatchInv, ServerSetWatches, NEW t \in Tables, NEW p \in Paths, NEW e \in active[t][p]
  PROVE  \/ Value(e.aspect, p) = e.val /\ p \in server_watches'[e.aspect]
         \/ \E k \in 1 .. Len(to_client') - 1 : Takes(to_client'[k], t, p)
<1>0. WatchType /\ NodeInv /\ PhaseInv /\ ActiveInv /\ KnownInv
  BY DEF WatchInv
<1>1. /\ \A m \in MissedEvents(SetWatches) : \E i \in 1 .. Len(to_client') - 1 : to_client'[i] = m
      /\ server_watches' = [server_watches EXCEPT
              !["data"] = @ \union (SetWatches.watches["node"] \ MissedPaths(SetWatches, "node"))
                            \union (SetWatches.watches["exist"] \ MissedPaths(SetWatches, "exist")),
              !["children"] = @ \union (SetWatches.watches["child"] \ MissedPaths(SetWatches, "child"))]
  BY <1>0, ServerTold
<1>2. p \in SetWatches.watches[t] /\ SetWatches.relativeZxid = last_zxid
  BY DEF SetWatches
<1>3. e.aspect = AspectOf(t) /\ (t = "exist" <=> e.val = 0)
  BY <1>0 DEF ActiveInv
<1>4. CASE p \in MissedPaths(SetWatches, t)
  <2>1. PICK m : m = MissedEvent(t, p)
    OBVIOUS
  <2>2. m \in MissedEvents(SetWatches)
    BY <1>4, <2>1 DEF MissedEvents
  <2>3. Takes(m, t, p)
    BY <2>1, EventTablesOf DEF MissedEvent, Takes, Event, Tables
  <2> QED
    BY <1>1, <2>2, <2>3
<1>5. CASE p \notin MissedPaths(SetWatches, t)
  <2>1. ~Missed(t, p, last_zxid)
    BY <1>2, <1>5 DEF MissedPaths
  <2>2. p \in server_watches'[e.aspect]
    <3>1. server_watches \in [Aspects -> SUBSET Paths]
      BY <1>0 DEF WatchType
    <3> QED
      BY <1>1, <1>2, <1>3, <1>5, <3>1 DEF AspectOf, Tables, Aspects
  <2>3. KnownAt(last_zxid, e, p)
    BY <1>0 DEF KnownInv, Held
  <2>4. /\ last_zxid \in Nat /\ LastChange(e.aspect, p) \in Nat
        /\ ~node[p].exists => Value(e.aspect, p) = 0
    <3>1. e.aspect \in Aspects
      BY <1>3 DEF AspectOf, Aspects
    <3> QED
      BY <1>0, <3>1, ValueOf DEF WatchType
  <2>5. CASE t = "exist"
    <3>1. ~node[p].exists
      BY <2>1, <2>5 DEF Missed
    <3> QED
      BY <1>3, <2>2, <2>4, <2>5, <3>1
  <2>6. CASE t # "exist"
    <3>1. ~(LastChange(e.aspect, p) > last_zxid)
      BY <1>3, <2>1, <2>6 DEF Missed, MissedData, MissedChild, AspectOf, LastChange, Tables
    <3> QED
      BY <2>2, <2>3, <3>1 DEF KnownAt
  <2> QED
    BY <2>5, <2>6
<1> QED
  BY <1>4, <1>5

\* The messages of SetWatches bring no watch, and tell of a later change than the
\* reads of the watches they take.
LEMMA ResetEvents ==
  ASSUME WatchInv, ServerSetWatches
  PROVE  /\ Len(to_client) = 0 /\ Len(to_client') \in Nat \ {0}
         /\ UNCHANGED <<last_zxid, active, sent_requests, completions_to_process, zxid, node, seen>>
         /\ to_client'[Len(to_client')].zxid = zxid
         /\ \A i \in 1 .. Len(to_client') - 1 : to_client'[i].xid = WATCHER_EVENT_XID
         /\ \A i \in 1 .. Len(to_client') : /\ \A t, p : Held(t, p, i)' = {}
                                            /\ \A a, p : ~Answers(i, a, p)'
<1>0. WatchType /\ NodeInv /\ PhaseInv
  BY DEF WatchInv
<1>1. /\ Telling /\ Len(to_client') \in Nat \ {0} /\ SetWatches \in SetWatchesPackets
      /\ to_client'[Len(to_client')] = [xid |-> SET_WATCHES_XID, zxid |-> zxid]
      /\ \A i \in 1 .. Len(to_client') - 1 : to_client'[i] \in MissedEvents(SetWatches)
      /\ UNCHANGED <<last_zxid, active, sent_requests, completions_to_process, zxid, node, seen>>
  BY <1>0, ServerTold
<1>2. \A m \in MissedEvents(SetWatches) : m.xid = WATCHER_EVENT_XID
  BY <1>0, <1>1, MissedEventOf DEF EventMessages
<1>3. Len(to_client) = 0
  BY <1>1 DEF Telling
<1>4. ASSUME NEW i \in 1 .. Len(to_client') PROVE to_client'[i].xid \notin Nat
  <2>1. i = Len(to_client') \/ i \in 1 .. Len(to_client') - 1
    BY <1>1
  <2> QED
    BY <1>1, <1>2, <2>1, WatchAssumption
<1>5. ASSUME NEW i \in 1 .. Len(to_client')
      PROVE  (\A t, p : Held(t, p, i)' = {}) /\ (\A a, p : ~Answers(i, a, p)')
  <2>1. i # 0
    BY <1>1
  <2> QED
    BY <1>0, <1>1, <1>4, <2>1, NothingBrought
<1> QED
  BY <1>1, <1>2, <1>3, <1>5

LEMMA ResetNotStale ==
  ASSUME WatchInv, ServerSetWatches, NEW t \in Tables, NEW p \in Paths, NEW e \in active[t][p],
         NEW k \in 1 .. Len(to_client') - 1, Takes(to_client'[k], t, p)
  PROVE  to_client'[k].at > e.zxid
<1>0. WatchType /\ NodeInv /\ PhaseInv /\ MessageInv /\ ActiveInv /\ KnownInv /\ ExistInv
  BY DEF WatchInv
<1>1. PICK m : m = to_client'[k]
  OBVIOUS
<1>2. m \in MissedEvents(SetWatches) /\ SetWatches \in SetWatchesPackets
  BY <1>0, <1>1, ServerTold
<1>3. PICK u \in Tables : \E q \in MissedPaths(SetWatches, u) : m = MissedEvent(u, q) /\ q \in Paths
  BY <1>0, <1>2, MissedEventOf
<1>4. PICK q \in MissedPaths(SetWatches, u) : m = MissedEvent(u, q) /\ q \in Paths
  BY <1>3
<1>5. q = p /\ t \in EventTables(m.type)
  BY <1>1, <1>4 DEF MissedEvent, Takes, Event, Tables
<1>6. active[u][p] # {} /\ Missed(u, p, last_zxid)
  BY <1>4, <1>5 DEF MissedPaths, SetWatches
<1>7. /\ e.aspect = AspectOf(t) /\ (t = "exist" <=> e.val = 0)
      /\ e.zxid \in 1 .. last_zxid /\ last_zxid \in Nat
  BY <1>0 DEF ActiveInv, WatchType
<1>8. KnownAt(last_zxid, e, p)
  BY <1>0 DEF KnownInv, Held
<1>9. t = "exist" <=> u = "exist"
  <2>1. 0 \in 0 .. Len(to_client)
    BY <1>0 DEF WatchType
  <2>2. \A v \in Tables : ~Taken(v, p, 0, 0)
    BY DEF Taken
  <2>3. 0 \in 0 .. Len(to_client) /\ Held(t, p, 0) # {} /\ Held(u, p, 0) # {}
    BY <1>6, <2>1 DEF Held
  <2> QED
    BY <1>0, <2>1, <2>2, <2>3 DEF ExistInv
<1>10. e.aspect \in Aspects
  BY <1>7 DEF AspectOf, Aspects
<1>11. /\ Value(e.aspect, p) = 0 <=> ~node[p].exists
       /\ LastChange(e.aspect, p) \in Nat
       /\ ~node[p].exists => LastChange(e.aspect, p) = node[p].mzxid
  BY <1>0, <1>10, ValueOf
<1>12. m.at = LastChange(e.aspect, p)
  BY <1>4, <1>5, <1>7, <1>9, <1>11, EventTablesOf
     DEF MissedEvent, Event, AspectOf, LastChange, Tables
<1>13. LastChange(e.aspect, p) > last_zxid
  <2>1. CASE t = "exist" \/ ~node[p].exists
    BY <1>6, <1>7, <1>8, <1>9, <1>11, <2>1 DEF KnownAt, Missed
  <2>2. CASE t # "exist" /\ node[p].exists
    <3>1. u = t
      BY <1>4, <1>5, <1>9, <2>2, EventTablesOf DEF MissedEvent, Event, Tables
    <3> QED
      BY <1>6, <1>7, <2>2, <3>1 DEF Missed, MissedData, MissedChild, AspectOf, LastChange, Tables
  <2> QED
    BY <2>1, <2>2
<1> QED
  BY <1>1, <1>7, <1>11, <1>12, <1>13

-----------------------------------------------------------------------------
(* What the client knows, and what the server has been told.               *)

LEMMA KnownStep ==
  ASSUME WatchInv, [Next]_vars
  PROVE  KnownInv'
<1>0. /\ WatchType /\ NodeInv /\ MessageInv /\ ActiveInv /\ KnownInv /\ ToldInv
      /\ zxid \in Nat /\ last_zxid \in Nat /\ last_zxid <= zxid /\ Len(to_client) \in Nat
  BY DEF WatchInv, WatchType
<1>1. CASE \/ UNCHANGED vars \/ SessionEstablished \/ SendPacket \/ Deliver
           \/ \E kind \in Kinds, p \in Paths, w \in Watchers \union {NoWatcher} : Read(kind, p, w)
  <2>1. Keeps /\ UNCHANGED <<to_client, last_zxid, node>>
    BY <1>1, QuietKeeps
  <2>2. /\ \A t, p : \A i \in 0 .. Len(to_client) : Held(t, p, i)' = Held(t, p, i)
        /\ \A t, p : \A i \in Nat : \A j \in 0 .. Len(to_client) + 1 :
              Taken(t, p, i, j)' <=> Taken(t, p, i, j)
    BY <1>0, <2>1, Kept
  <2>3. \A z, e, p : KnownAt(z, e, p)' <=> KnownAt(z, e, p)
    BY <2>1 DEF KnownAt, Value, LastChange
  <2>4. ASSUME NEW t \in Tables, NEW p \in Paths, NEW e \in Held(t, p, 0)'
        PROVE  KnownAt(last_zxid, e, p)'
    <3>1. e \in Held(t, p, 0)
      BY <1>0, <2>2
    <3>2. KnownAt(last_zxid, e, p)
      BY <1>0, <3>1 DEF KnownInv
    <3> QED
      BY <2>1, <3>2 DEF KnownAt, Value, LastChange
  <2>5. ASSUME NEW t \in Tables, NEW p \in Paths, NEW i \in 0 .. Len(to_client'),
               NEW e \in Held(t, p, i)', NEW j \in i .. Len(to_client'), j # 0,
               to_client'[j].xid # WATCHER_EVENT_XID
        PROVE  KnownAt(to_client[j].zxid, e, p)' \/ Taken(t, p, i, j)'
    <3>1. i \in 0 .. Len(to_client) /\ e \in Held(t, p, i) /\ j \in i .. Len(to_client)
      BY <2>1, <2>2
    <3>2. KnownAt(to_client[j].zxid, e, p) \/ Taken(t, p, i, j)
      BY <1>0, <2>1, <2>5, <3>1 DEF KnownInv
    <3>3. Taken(t, p, i, j)' <=> Taken(t, p, i, j)
      <4>1. i \in Nat /\ j \in 0 .. Len(to_client) + 1
        BY <1>0, <3>1
      <4> QED
        BY <2>2, <4>1
    <3> QED
      BY <2>1, <3>2, <3>3 DEF KnownAt, Value, LastChange
  <2> QED
    BY <2>4, <2>5 DEF KnownInv
<1>2. CASE ReceiveEvent \/ ReceiveSetWatches \/ ReceiveReply
  <2>1. /\ Len(to_client') = Len(to_client) - 1 /\ Len(to_client) \in Nat \ {0}
        /\ \A i \in 1 .. Len(to_client') : /\ i + 1 \in 1 .. Len(to_client)
                                           /\ to_client'[i] = to_client[i + 1]
        /\ last_zxid' = IF to_client[1].xid = WATCHER_EVENT_XID THEN last_zxid ELSE to_client[1].zxid
        /\ node' = node
    BY <1>2, Received
  <2>2. \A z, e, p : KnownAt(z, e, p)' <=> KnownAt(z, e, p)
    BY <2>1 DEF KnownAt, Value, LastChange
  <2>3. ASSUME NEW t \in Tables, NEW p \in Paths, NEW e \in Held(t, p, 0)'
        PROVE  KnownAt(last_zxid, e, p)'
    <3>1. 0 \in 0 .. Len(to_client') /\ 1 \in 1 .. Len(to_client)
      BY <2>1
    <3>2. PICK n : Moved(t, p, 0, n) /\ e \in Held(t, p, n)
      BY <1>2, <2>3, <3>1, HeldReceived
    <3>3. n \in 0 .. Len(to_client) /\ n \in {0, 1}
      BY <3>2 DEF Moved
    <3>4. n # 0 => to_client[n].xid # WATCHER_EVENT_XID
      BY <1>0, <3>2, <3>3, HeldFacts
    <3>5. CASE to_client[1].xid = WATCHER_EVENT_XID
      <4>1. n = 0 /\ last_zxid' = last_zxid
        BY <2>1, <3>3, <3>4, <3>5
      <4>2. KnownAt(last_zxid, e, p)
        BY <1>0, <3>2, <4>1 DEF KnownInv
      <4> QED
        BY <2>1, <4>1, <4>2 DEF KnownAt, Value, LastChange
    <3>6. CASE to_client[1].xid # WATCHER_EVENT_XID
      <4>1. last_zxid' = to_client[1].zxid
        BY <2>1, <3>6
      <4>2. 1 \in n .. Len(to_client)
        BY <3>1, <3>3
      <4>3. KnownAt(to_client[1].zxid, e, p) \/ Taken(t, p, n, 1)
        BY <1>0, <3>2, <3>3, <3>6, <4>2 DEF KnownInv
      <4>4. ~Taken(t, p, n, 1)
        BY <3>3 DEF Taken
      <4> QED
        BY <2>1, <4>1, <4>3, <4>4 DEF KnownAt, Value, LastChange
    <3> QED
      BY <3>5, <3>6
  <2>4. ASSUME NEW t \in Tables, NEW p \in Paths, NEW i \in 0 .. Len(to_client'),
               NEW e \in Held(t, p, i)', NEW j \in i .. Len(to_client'), j # 0,
               to_client'[j].xid # WATCHER_EVENT_XID
        PROVE  KnownAt(to_client[j].zxid, e, p)' \/ Taken(t, p, i, j)'
    <3>1. PICK n : Moved(t, p, i, n) /\ e \in Held(t, p, n)
      BY <1>2, HeldReceived
    <3>2. j \in 1 .. Len(to_client')
      BY <2>1, <2>4
    <3>3. n \in 0 .. Len(to_client) /\ j + 1 \in n .. Len(to_client) /\ j + 1 # 0
      BY <2>1, <3>1, <3>2 DEF Moved
    <3>4. to_client'[j] = to_client[j + 1]
      BY <2>1, <3>2
    <3>5. KnownAt(to_client[j + 1].zxid, e, p) \/ Taken(t, p, n, j + 1)
      BY <1>0, <2>4, <3>1, <3>3, <3>4 DEF KnownInv
    <3>6. Taken(t, p, n, j + 1) => Taken(t, p, i, j)'
      BY <2>1, <3>1, <3>2 DEF Moved
    <3>7. KnownAt(to_client[j + 1].zxid, e, p) => KnownAt(to_client[j].zxid, e, p)'
      BY <2>1, <3>4 DEF KnownAt, Value, LastChange
    <3> QED
      BY <3>5, <3>6, <3>7
  <2> QED
    BY <2>3, <2>4 DEF KnownInv
<1>3. CASE ConnectionLost
  <2>1. /\ Len(to_client') = 0 /\ \A t, p : Held(t, p, 0)' = Held(t, p, 0)
        /\ UNCHANGED <<last_zxid, node>>
    BY <1>0, <1>3, Lost
  <2>2. ASSUME NEW t \in Tables, NEW p \in Paths, NEW e \in Held(t, p, 0)'
        PROVE  KnownAt(last_zxid, e, p)'
    <3>1. KnownAt(last_zxid, e, p)
      BY <1>0, <2>1, <2>2 DEF KnownInv
    <3> QED
      BY <2>1, <3>1 DEF KnownAt, Value, LastChange
  <2>3. \A i \in 0 .. Len(to_client') : \A j \in i .. Len(to_client') : j = 0
    BY <2>1
  <2> QED
    BY <2>2, <2>3 DEF KnownInv
<1>4. CASE \/ ServerRead \/ ServerSetWatches
           \/ \E type \in EventTypes, p \in Paths : Change(type, p)
  <2>1. /\ Keeps /\ UNCHANGED <<last_zxid, active>>
        /\ Len(to_client') \in Nat /\ Len(to_client) <= Len(to_client')
        /\ \A i \in 1 .. Len(to_client) : to_client'[i] = to_client[i]
    BY <1>4, ServerKeeps DEF Keeps
  <2>2. /\ \A t, p : \A i \in 0 .. Len(to_client) : Held(t, p, i)' = Held(t, p, i)
        /\ \A t, p : \A i \in Nat : \A j \in 0 .. Len(to_client) + 1 :
              Taken(t, p, i, j)' <=> Taken(t, p, i, j)
    BY <1>0, <2>1, Kept
  <2>3. \A i \in 1 .. Len(to_client) :
          to_client[i].xid # WATCHER_EVENT_XID => to_client[i].zxid \in 1 .. zxid
    BY <1>0 DEF MessageInv
  \* What is known stays known: a change is later than all that has been said.
  <2>4. ASSUME NEW z \in 0 .. zxid, NEW e \in Watches, NEW p \in Paths, KnownAt(z, e, p)
        PROVE  Value(e.aspect, p)' = e.val \/ LastChange(e.aspect, p)' > z
    <3>1. CASE ServerRead \/ ServerSetWatches
      <4>1. node' = node
        BY <3>1 DEF ServerRead, ServerSetWatches
      <4> QED
        BY <2>4, <4>1 DEF KnownAt, Value, LastChange
    <3>2. ASSUME NEW type \in EventTypes, NEW q \in Paths, Change(type, q)
          PROVE  Value(e.aspect, p)' = e.val \/ LastChange(e.aspect, p)' > z
      <4>1. e.aspect \in Aspects
        BY DEF Watches
      <4>2. \/ LastChange(e.aspect, p)' = zxid + 1
            \/ Value(e.aspect, p)' = Value(e.aspect, p) /\ LastChange(e.aspect, p)' = LastChange(e.aspect, p)
        BY <3>2, <4>1, ChangeOf
      <4> QED
        BY <1>0, <2>4, <4>2 DEF KnownAt
    <3> QED
      BY <1>4, <3>1, <3>2
  <2>5. ASSUME NEW t \in Tables, NEW p \in Paths, NEW i \in 0 .. Len(to_client), NEW e \in Held(t, p, i)
        PROVE  e \in Watches
    BY <1>0, HeldFacts
  <2>6. ASSUME NEW t \in Tables, NEW p \in Paths, NEW e \in Held(t, p, 0)'
        PROVE  KnownAt(last_zxid, e, p)'
    <3>1. e \in Held(t, p, 0) /\ 0 \in 0 .. Len(to_client) /\ last_zxid \in 0 .. zxid
      BY <1>0, <2>2
    <3>2. KnownAt(last_zxid, e, p) /\ e \in Watches
      BY <1>0, <2>5, <3>1 DEF KnownInv
    <3>3. Value(e.aspect, p)' = e.val \/ LastChange(e.aspect, p)' > last_zxid
      BY <2>4, <3>1, <3>2
    <3> QED
      BY <2>1, <3>3 DEF KnownAt
  \* For messages that were there.
  <2>7. ASSUME NEW t \in Tables, NEW p \in Paths, NEW i \in 0 .. Len(to_client),
               NEW e \in Held(t, p, i), NEW j \in i .. Len(to_client), j # 0,
               to_client[j].xid # WATCHER_EVENT_XID
        PROVE  KnownAt(to_client[j].zxid, e, p)' \/ Taken(t, p, i, j)'
    <3>1. i \in Nat /\ j \in 1 .. Len(to_client) /\ j \in 0 .. Len(to_client) + 1
      BY <1>0, <2>7
    <3>2. KnownAt(to_client[j].zxid, e, p) \/ Taken(t, p, i, j)
      BY <1>0, <2>7 DEF KnownInv
    <3>3. Taken(t, p, i, j) => Taken(t, p, i, j)'
      BY <2>2, <3>1
    <3>4. to_client[j].zxid \in 0 .. zxid /\ to_client'[j] = to_client[j]
      BY <1>0, <2>1, <2>3, <2>7, <3>1
    <3>5. CASE KnownAt(to_client[j].zxid, e, p)
      <4>1. Value(e.aspect, p)' = e.val \/ LastChange(e.aspect, p)' > to_client[j].zxid
        BY <2>4, <2>5, <3>4, <3>5
      <4> QED
        BY <3>4, <4>1 DEF KnownAt
    <3> QED
      BY <3>2, <3>3, <3>5
  <2>8. ASSUME NEW t \in Tables, NEW p \in Paths, NEW i \in 0 .. Len(to_client'),
               NEW e \in Held(t, p, i)', NEW j \in i .. Len(to_client'), j # 0,
               to_client'[j].xid # WATCHER_EVENT_XID
        PROVE  KnownAt(to_client[j].zxid, e, p)' \/ Taken(t, p, i, j)'
    <3>0. ASSUME j <= Len(to_client)
          PROVE  KnownAt(to_client[j].zxid, e, p)' \/ Taken(t, p, i, j)'
      <4>1. i \in 0 .. Len(to_client) /\ j \in i .. Len(to_client) /\ j \in 1 .. Len(to_client)
        BY <1>0, <2>8, <3>0
      <4>2. e \in Held(t, p, i) /\ to_client'[j] = to_client[j]
        BY <2>1, <2>2, <4>1
      <4> QED
        BY <2>7, <2>8, <4>1, <4>2
    <3>1. CASE ServerRead
      <4>0. PICK n : n = Len(to_client) + 1
        OBVIOUS
      <4>1. /\ Told /\ Len(to_client') = n /\ node' = node
            /\ \A u \in Tables, q \in Paths : \A f \in Held(u, q, n)' : f.val = Value(f.aspect, q)
        BY <3>1, <4>0, ReplyAdded
      <4>2. CASE j = n /\ i = n
        <5>1. e.val = Value(e.aspect, p)
          BY <4>1, <4>2
        <5> QED
          BY <4>1, <5>1 DEF KnownAt, Value
      <4>3. CASE j = n /\ i # n
        <5>1. i \in 0 .. Len(to_client) /\ i \in Nat /\ n \in 0 .. Len(to_client) + 1
          BY <1>0, <4>0, <4>1, <4>3
        <5>2. e \in Held(t, p, i)
          BY <2>2, <5>1
        <5>3. Value(e.aspect, p) = e.val \/ Taken(t, p, i, n)
          BY <1>0, <4>0, <4>1, <5>1, <5>2 DEF ToldInv
        <5>4. Taken(t, p, i, n) => Taken(t, p, i, n)'
          BY <2>2, <5>1
        <5> QED
          BY <4>1, <4>3, <5>3, <5>4 DEF KnownAt, Value
      <4>4. j = n \/ j <= Len(to_client)
        BY <1>0, <4>0, <4>1
      <4> QED
        BY <3>0, <4>2, <4>3, <4>4
    <3>2. CASE ServerSetWatches
      <4>1. /\ Len(to_client) = 0 /\ Len(to_client') \in Nat \ {0} /\ node' = node
            /\ \A k \in 1 .. Len(to_client') - 1 : to_client'[k].xid = WATCHER_EVENT_XID
            /\ \A k \in 1 .. Len(to_client') : \A u, q : Held(u, q, k)' = {}
        BY <3>2, ResetEvents
      <4>2. i = 0
        <5>1. i \in 1 .. Len(to_client') => Held(t, p, i)' = {}
          BY <4>1
        <5> QED
          BY <4>1, <5>1
      <4>3. j = Len(to_client')
        BY <2>8, <4>1
      <4>4. e \in active[t][p]
        BY <2>1, <4>2 DEF Held
      <4>5. \/ Value(e.aspect, p) = e.val
            \/ \E k \in 1 .. Len(to_client') - 1 : Takes(to_client'[k], t, p)
        BY <3>2, <4>4, WatchesReset
      <4>6. CASE Value(e.aspect, p) = e.val
        BY <4>1, <4>6 DEF KnownAt, Value
      <4>7. CASE \E k \in 1 .. Len(to_client') - 1 : Takes(to_client'[k], t, p)
        BY <4>2, <4>3, <4>7 DEF Taken, Takes
      <4> QED
        BY <4>5, <4>6, <4>7
    <3>3. ASSUME NEW type \in EventTypes, NEW q \in Paths, Change(type, q)
          PROVE  KnownAt(to_client[j].zxid, e, p)' \/ Taken(t, p, i, j)'
      <4>0. PICK n : n = Len(to_client) + 1
        OBVIOUS
      <4>1. \/ Len(to_client') = Len(to_client)
            \/ Len(to_client') = n /\ to_client'[n] = Event(type, q, zxid + 1)
        BY <3>3, <4>0, EventAdded
      <4>2. Event(type, q, zxid + 1).xid = WATCHER_EVENT_XID
        BY DEF Event
      <4>3. j <= Len(to_client)
        BY <1>0, <2>8, <4>0, <4>1, <4>2
      <4> QED
        BY <3>0, <4>3
    <3> QED
      BY <1>4, <3>1, <3>2, <3>3
  <2> QED
    BY <2>6, <2>8 DEF KnownInv
<1> QED
  BY <1>1, <1>2, <1>3, <1>4, Steps

LEMMA ToldStep ==
  ASSUME WatchInv, [Next]_vars
  PROVE  ToldInv'
<1>0. /\ WatchType /\ NodeInv /\ PhaseInv /\ MessageInv /\ ActiveInv /\ ToldInv
      /\ Len(to_client) \in Nat
  BY DEF WatchInv, WatchType
<1> SUFFICES ASSUME Told', NEW t \in Tables, NEW p \in Paths, NEW i \in 0 .. Len(to_client'),
                    NEW e \in Held(t, p, i)', NEW N, N = Len(to_client') + 1
             PROVE  \/ p \in server_watches'[e.aspect] /\ Value(e.aspect, p)' = e.val
                    \/ Taken(t, p, i, N)'
  BY DEF ToldInv
<1>1. CASE \/ UNCHANGED vars \/ SessionEstablished \/ SendPacket \/ Deliver
           \/ \E kind \in Kinds, q \in Paths, w \in Watchers \union {NoWatcher} : Read(kind, q, w)
  <2>1. Keeps /\ UNCHANGED <<to_client, node, server_watches, active>>
    BY <1>1, QuietKeeps
  <2>2. /\ \A u, q : \A k \in 0 .. Len(to_client) : Held(u, q, k)' = Held(u, q, k)
        /\ \A u, q : \A k \in Nat : \A j \in 0 .. Len(to_client) + 1 :
              Taken(u, q, k, j)' <=> Taken(u, q, k, j)
    BY <1>0, <2>1, Kept
  <2>3. Told
    <3>1. CASE UNCHANGED vars \/ Deliver
      <4>1. UNCHANGED <<connected, to_send, to_server>>
        BY <3>1 DEF vars, Deliver
      <4> QED
        BY <4>1 DEF Told, IsRead
    <3>2. ASSUME NEW kind \in Kinds, NEW q \in Paths, NEW w \in Watchers \union {NoWatcher},
                 Read(kind, q, w)
          PROVE  Told
      <4>1. PICK req : req = [xid |-> reads + 1, kind |-> kind, path |-> q, watcher |-> w]
        OBVIOUS
      <4>2. to_send' = Append(to_send, req) /\ UNCHANGED <<connected, to_server>>
        BY <3>2, <4>1 DEF Read
      <4>3. /\ Len(to_send') = Len(to_send) + 1 /\ Len(to_send) \in Nat
            /\ \A k \in 1 .. Len(to_send) : to_send'[k] = to_send[k]
        BY <1>0, <4>2 DEF WatchType
      <4>4. \A k \in 1 .. Len(to_send) : k \in 1 .. Len(to_send')
        BY <4>3
      <4> QED
        BY <4>2, <4>3, <4>4 DEF Told, IsRead
    <3>3. CASE SendPacket
      <4>1. /\ to_send # <<>> /\ Head(to_send) = to_send[1] /\ to_send' = Tail(to_send)
            /\ to_server' = Append(to_server, to_send[1]) /\ connected' = connected
        BY <1>0, <3>3 DEF SendPacket, WatchType
      <4>2. /\ Len(to_send') = Len(to_send) - 1 /\ Len(to_send) \in Nat \ {0}
            /\ \A k \in 1 .. Len(to_send) - 1 : to_send'[k] = to_send[k + 1]
            /\ to_send[1] \in ReadRequests \union SetWatchesPackets
        BY <1>0, <4>1, Tailing DEF WatchType
      <4>3. /\ Len(to_server') = Len(to_server) + 1 /\ Len(to_server) \in Nat
            /\ \A k \in 1 .. Len(to_server) : to_server'[k] = to_server[k]
            /\ to_server'[Len(to_server) + 1] = to_send[1]
        BY <1>0, <4>1, <4>2, Appending DEF WatchType
      <4>4. /\ connected /\ \A k \in 1 .. Len(to_server') : IsRead(to_server'[k])
            /\ \A k \in 1 .. Len(to_send') : IsRead(to_send'[k])
        BY <4>1 DEF Told, IsRead
      <4>5. \A k \in 1 .. Len(to_server) : IsRead(to_server[k])
        <5>1. \A k \in 1 .. Len(to_server) : k \in 1 .. Len(to_server')
          BY <4>3
        <5> QED
          BY <4>3, <4>4, <5>1
      <4>6. IsRead(to_send[1])
        <5>1. Len(to_server) + 1 \in 1 .. Len(to_server')
          BY <4>3
        <5> QED
          BY <4>3, <4>4, <5>1
      <4>7. ASSUME NEW k \in 1 .. Len(to_send) PROVE IsRead(to_send[k])
        <5>1. k = 1 \/ (k - 1 \in 1 .. Len(to_send') /\ to_send'[k - 1] = to_send[k])
          BY <4>2
        <5> QED
          BY <4>4, <4>6, <5>1
      <4> QED
        BY <4>4, <4>5, <4>7 DEF Told
    <3>4. CASE SessionEstablished
      <4>1. Offline /\ to_send' = send_set_watches
        BY <1>0, <3>4 DEF SessionEstablished, PhaseInv, Telling, Told
      <4>2. i = 0 /\ e \in active[t][p]
        <5>1. Len(to_client') = 0
          BY <2>1, <4>1 DEF Offline
        <5>2. i = 0
          BY <5>1
        <5> QED
          BY <2>1, <5>2 DEF Held
      <4>3. WatchesOf(t) # {}
        BY <4>2 DEF WatchesOf
      <4>4. to_send' = <<SetWatches>> \o to_send
        BY <4>1, <4>3 DEF send_set_watches
      <4>5. to_send'[1] = SetWatches /\ 1 \in 1 .. Len(to_send')
        BY <1>0, <4>4 DEF WatchType
      <4>6. IsRead(to_send'[1])
        BY <4>5 DEF Told, IsRead
      <4> QED
        BY <1>0, <4>5, <4>6, SetWatchesPacket
    <3> QED
      BY <1>1, <3>1, <3>2, <3>3, <3>4
  <2>4. /\ i \in 0 .. Len(to_client) /\ e \in Held(t, p, i) /\ N = Len(to_client) + 1
        /\ N \in 0 .. Len(to_client) + 1 /\ i \in Nat
    BY <1>0, <2>1, <2>2
  <2>5. \/ p \in server_watches[e.aspect] /\ Value(e.aspect, p) = e.val
        \/ Taken(t, p, i, N)
    BY <1>0, <2>3, <2>4 DEF ToldInv
  <2>6. Taken(t, p, i, N)' <=> Taken(t, p, i, N)
    BY <2>2, <2>4
  <2> QED
    BY <2>1, <2>5, <2>6 DEF Value
<1>2. CASE ReceiveEvent \/ ReceiveSetWatches \/ ReceiveReply
  <2>1. /\ Told /\ Len(to_client') = Len(to_client) - 1 /\ Len(to_client) \in Nat \ {0}
        /\ UNCHANGED <<node, server_watches>>
    BY <1>2, Received
  <2>2. PICK n : Moved(t, p, i, n) /\ e \in Held(t, p, n)
    BY <1>2, HeldReceived
  <2>3. n \in 0 .. Len(to_client) /\ N \in 0 .. Len(to_client) /\ N + 1 = Len(to_client) + 1
    BY <2>1, <2>2 DEF Moved
  <2>4. \/ p \in server_watches[e.aspect] /\ Value(e.aspect, p) = e.val
        \/ Taken(t, p, n, N + 1)
    BY <1>0, <2>1, <2>2, <2>3 DEF ToldInv
  <2>5. Taken(t, p, n, N + 1) => Taken(t, p, i, N)'
    BY <2>2, <2>3 DEF Moved
  <2> QED
    BY <2>1, <2>4, <2>5 DEF Value
<1>3. CASE ConnectionLost
  BY <1>0, <1>3, Lost
<1>4. CASE \/ ServerRead \/ ServerSetWatches
           \/ \E type \in EventTypes, q \in Paths : Change(type, q)
  <2>1. /\ Keeps /\ UNCHANGED <<last_zxid, active>>
        /\ Len(to_client') \in Nat /\ Len(to_client) <= Len(to_client')
        /\ \A k \in 1 .. Len(to_client) : to_client'[k] = to_client[k]
    BY <1>4, ServerKeeps DEF Keeps
  <2>2. \A u, q : \A k \in 0 .. Len(to_client) : Held(u, q, k)' = Held(u, q, k)
    BY <1>0, <2>1, Kept
  \* An event that takes a watch keeps taking it.
  <2>3. ASSUME i \in 0 .. Len(to_client), Taken(t, p, i, Len(to_client) + 1) PROVE Taken(t, p, i, N)'
    <3>1. PICK k \in i + 1 .. Len(to_client) : Takes(to_client[k], t, p)
      <4>1. (Len(to_client) + 1) - 1 = Len(to_client)
        BY <1>0
      <4> QED
        BY <2>3, <4>1 DEF Taken
    <3>2. k \in i + 1 .. N - 1 /\ k \in 1 .. Len(to_client)
      BY <1>0, <2>1, <2>3, <3>1
    <3>3. Takes(to_client'[k], t, p)
      BY <2>1, <3>1, <3>2
    <3> QED
      BY <3>2, <3>3 DEF Taken, Takes
  <2>4. ASSUME i \in 0 .. Len(to_client), Told
        PROVE  /\ e \in Held(t, p, i)
               /\ \/ p \in server_watches[e.aspect] /\ Value(e.aspect, p) = e.val
                  \/ Taken(t, p, i, Len(to_client) + 1)
    <3>1. e \in Held(t, p, i)
      BY <2>2, <2>4
    <3> QED
      BY <1>0, <2>4, <3>1 DEF ToldInv
  <2>5. CASE ServerRead
    <3>0. PICK n : n = Len(to_client) + 1
      OBVIOUS
    <3>1. /\ Told /\ Len(to_client') = n /\ node' = node
          /\ \A a \in Aspects : server_watches[a] \subseteq server_watches'[a]
          /\ \A u \in Tables, q \in Paths : \A f \in Held(u, q, n)' :
               f.val = Value(f.aspect, q) /\ q \in server_watches'[f.aspect]
      BY <2>5, <3>0, ReplyAdded
    <3>2. CASE i = n
      BY <3>1, <3>2 DEF Value
    <3>3. CASE i # n
      <4>1. i \in 0 .. Len(to_client)
        BY <1>0, <3>0, <3>1, <3>3
      <4>2. e \in Held(t, p, i)
        BY <2>2, <4>1
      <4>3. e.aspect \in Aspects
        BY <1>0, <4>1, <4>2, HeldFacts DEF Watches
      <4> QED
        BY <2>3, <2>4, <3>1, <4>1, <4>3 DEF Value
    <3> QED
      BY <3>2, <3>3
  <2>6. CASE ServerSetWatches
    <3>1. /\ Len(to_client) = 0 /\ Len(to_client') \in Nat \ {0} /\ node' = node
          /\ \A k \in 1 .. Len(to_client') : \A u, q : Held(u, q, k)' = {}
      BY <2>6, ResetEvents
    <3>2. i = 0
      <4>1. i \in 1 .. Len(to_client') => Held(t, p, i)' = {}
        BY <3>1
      <4> QED
        BY <3>1, <4>1
    <3>3. e \in active[t][p]
      BY <2>1, <3>2 DEF Held
    <3>4. \/ Value(e.aspect, p) = e.val /\ p \in server_watches'[e.aspect]
          \/ \E k \in 1 .. Len(to_client') - 1 : Takes(to_client'[k], t, p)
      BY <2>6, <3>3, WatchesReset
    <3>5. CASE \E k \in 1 .. Len(to_client') - 1 : Takes(to_client'[k], t, p)
      <4>1. \A k \in 1 .. Len(to_client') - 1 : k \in i + 1 .. N - 1
        BY <3>1, <3>2
      <4> QED
        BY <3>5, <4>1 DEF Taken, Takes
    <3> QED
      BY <3>1, <3>4, <3>5 DEF Value
  <2>7. ASSUME NEW type \in EventTypes, NEW q \in Paths, Change(type, q)
        PROVE  \/ p \in server_watches'[e.aspect] /\ Value(e.aspect, p)' = e.val
               \/ Taken(t, p, i, N)'
    <3>0. PICK n : n = Len(to_client) + 1
      OBVIOUS
    <3>1. /\ \/ Len(to_client') = Len(to_client)
             \/ Len(to_client') = n /\ to_client'[n] = Event(type, q, zxid + 1)
          /\ Len(to_client') = n => \A u, r : Held(u, r, n)' = {}
          /\ \A a \in Aspects : \A r \in server_watches[a] :
               \/ r \in server_watches'[a] /\ ~(r = q /\ Concerns(type, a))
               \/ r = q /\ Concerns(type, a) /\ Len(to_client') = n
          /\ UNCHANGED <<connected, to_send, to_server>>
      BY <2>7, <3>0, EventAdded
    <3>2. Told
      BY <3>1 DEF Told, IsRead
    <3>3. i \in 0 .. Len(to_client)
      <4>1. i # n
        BY <1>0, <3>0, <3>1
      <4> QED
        BY <1>0, <3>0, <3>1, <4>1
    <3>4. e \in Held(t, p, i)
      BY <2>2, <3>3
    <3>5. e.aspect \in Aspects /\ e.aspect = AspectOf(t) /\ (t = "exist" <=> e.val = 0)
      BY <1>0, <3>3, <3>4, HeldFacts DEF Watches
    <3>6. CASE Taken(t, p, i, Len(to_client) + 1)
      BY <2>3, <3>3, <3>6
    <3>7. CASE p \in server_watches[e.aspect] /\ Value(e.aspect, p) = e.val
      <4>1. ASSUME p = q, Concerns(type, e.aspect), Len(to_client') = n
            PROVE  Taken(t, p, i, N)'
        <5>1. to_client'[n] = Event(type, q, zxid + 1) /\ n \in i + 1 .. N - 1
          BY <1>0, <3>0, <3>1, <3>3, <4>1
        <5>2. t \in EventTables(type)
          BY <3>5, <4>1, EventTablesOf DEF Concerns, AspectOf, Tables, EventTypes
        <5>3. Takes(to_client'[n], t, p)
          BY <4>1, <5>1, <5>2 DEF Takes, Event
        <5> QED
          BY <5>1, <5>3 DEF Taken, Takes
      <4>2. CASE Value(e.aspect, p)' = Value(e.aspect, p)
        BY <3>1, <3>5, <3>7, <4>1, <4>2
      <4>3. CASE /\ p = q
                 /\ e.aspect = "data" => type # "CHILD"
                 /\ e.aspect = "children" => type # "CHANGED"
        <5>1. type = "CREATED" => Value(e.aspect, p) = 0
          <6>1. node[q].exists <=> type # "CREATED"
            BY <1>0, <2>7, Changes
          <6> QED
            BY <4>3, <6>1 DEF Value
        <5>2. Concerns(type, e.aspect)
          BY <3>5, <3>7, <4>3, <5>1 DEF Concerns, AspectOf, EventTypes
        <5> QED
          BY <3>1, <3>5, <3>7, <4>1, <4>3, <5>2
      <4> QED
        BY <2>7, <3>5, <4>2, <4>3, ChangeOf
    <3> QED
      BY <2>4, <3>2, <3>3, <3>6, <3>7
  <2> QED
    BY <1>4, <2>5, <2>6, <2>7
<1> QED
  BY <1>1, <1>2, <1>3, <1>4, Steps

LEMMA ExistStep ==
  ASSUME WatchInv, [Next]_vars
  PROVE  ExistInv'
<1>0. /\ WatchType /\ NodeInv /\ MessageInv /\ ActiveInv /\ ToldInv /\ ExistInv
      /\ Len(to_client) \in Nat
  BY DEF WatchInv, WatchType
<1> SUFFICES ASSUME NEW p \in Paths, NEW t \in Tables, NEW u \in Tables,
                    NEW i \in 0 .. Len(to_client'), NEW j \in i .. Len(to_client'),
                    NEW e \in Held(t, p, i)', NEW f \in Held(u, p, j)', t = "exist" <=> u # "exist"
             PROVE  Taken(t, p, i, j)'
  BY DEF ExistInv
<1>1. \A v \in Tables : ~Taken(v, p, 0, 0) /\ ~Taken(v, p, 0, 1)
  BY DEF Taken
\* Steps that keep the messages: only new watches matter.
<1>2. ASSUME Keeps, j <= Len(to_client) PROVE Taken(t, p, i, j)'
  <2>1. /\ \A v, q : \A k \in 0 .. Len(to_client) : Held(v, q, k)' = Held(v, q, k)
        /\ \A v, q : \A k \in Nat : \A l \in 0 .. Len(to_client) + 1 :
              Taken(v, q, k, l)' <=> Taken(v, q, k, l)
    BY <1>0, <1>2, Kept
  <2>2. Len(to_client') \in Nat
    BY <1>2 DEF Keeps
  <2>3. /\ i \in 0 .. Len(to_client) /\ j \in i .. Len(to_client) /\ i \in Nat
        /\ j \in 0 .. Len(to_client) /\ j \in 0 .. Len(to_client) + 1
    BY <1>0, <1>2, <2>2
  <2>4. e \in Held(t, p, i) /\ f \in Held(u, p, j)
    BY <2>1, <2>3
  <2>5. Taken(t, p, i, j)
    BY <1>0, <2>3, <2>4 DEF ExistInv
  <2> QED
    BY <2>1, <2>3, <2>5
<1>3. CASE \/ UNCHANGED vars \/ SessionEstablished \/ SendPacket \/ Deliver
           \/ \E kind \in Kinds, q \in Paths, w \in Watchers \union {NoWatcher} : Read(kind, q, w)
  <2>1. Keeps /\ to_client' = to_client
    BY <1>3, QuietKeeps
  <2>2. j <= Len(to_client)
    BY <1>0, <2>1
  <2> QED
    BY <1>2, <2>1, <2>2
<1>4. CASE ReceiveEvent \/ ReceiveSetWatches \/ ReceiveReply
  <2>1. Len(to_client') = Len(to_client) - 1 /\ Len(to_client) \in Nat \ {0}
    BY <1>4, Received
  <2>2. PICK n : Moved(t, p, i, n) /\ e \in Held(t, p, n)
    BY <1>4, HeldReceived
  <2>3. j \in 0 .. Len(to_client')
    BY <2>1
  <2>4. PICK m : Moved(u, p, j, m) /\ f \in Held(u, p, m)
    BY <1>4, <2>3, HeldReceived
  <2>5. /\ n \in 0 .. Len(to_client) /\ m \in 0 .. Len(to_client)
        /\ n = i + 1 \/ (n = 0 /\ i = 0)
        /\ m = j + 1 \/ (m = 0 /\ j = 0)
    BY <2>2, <2>4 DEF Moved
  <2>6. n <= m => Taken(t, p, n, m)
    BY <1>0, <2>2, <2>4, <2>5 DEF ExistInv
  <2>7. m <= n => Taken(u, p, m, n)
    BY <1>0, <2>2, <2>4, <2>5 DEF ExistInv
  <2>8. CASE m = j + 1
    <3>1. n <= m /\ j \in 0 .. Len(to_client)
      BY <2>1, <2>5, <2>8
    <3> QED
      BY <2>2, <2>6, <2>8, <3>1 DEF Moved
  <2>9. CASE m = 0
    <3>1. n \in {0, 1} /\ m <= n
      BY <2>1, <2>5, <2>9
    <3> QED
      BY <1>1, <2>7, <2>9, <3>1
  <2> QED
    BY <2>5, <2>8, <2>9
<1>5. CASE ConnectionLost
  <2>1. Len(to_client') = 0 /\ 0 \in 0 .. Len(to_client) /\ \A v, q : Held(v, q, 0)' = Held(v, q, 0)
    BY <1>0, <1>5, Lost
  <2>2. i = 0 /\ j = 0
    BY <2>1
  <2>3. Taken(t, p, 0, 0)
    BY <1>0, <2>1, <2>2 DEF ExistInv
  <2> QED
    BY <1>1, <2>3
<1>6. CASE ServerRead
  <2>0. PICK n : n = Len(to_client) + 1
    OBVIOUS
  <2>1. /\ Told /\ Len(to_client') = n
        /\ \A v \in Tables, q \in Paths : \A g \in Held(v, q, n)' :
             /\ g.val = Value(g.aspect, q) /\ g.aspect = AspectOf(v) /\ (v = "exist" <=> g.val = 0)
    BY <1>6, <2>0, ReplyAdded
  <2>2. Keeps
    BY <1>6, ServerKeeps
  <2>3. CASE j = n
    <3>1. u = "exist" <=> ~node[p].exists
      <4>1. f.val = Value(f.aspect, p) /\ f.aspect \in Aspects /\ (u = "exist" <=> f.val = 0)
        BY <2>1, <2>3 DEF AspectOf, Aspects
      <4> QED
        BY <1>0, <4>1, ValueOf
    <3>2. ASSUME e.aspect \in Aspects, e.val = Value(e.aspect, p), t = "exist" <=> e.val = 0
          PROVE  FALSE
      BY <1>0, <3>1, <3>2, ValueOf
    <3>3. CASE i = n
      BY <2>1, <3>2, <3>3 DEF AspectOf, Aspects
    <3>4. CASE i # n
      <4>1. /\ i \in 0 .. Len(to_client) /\ i \in Nat /\ n \in 0 .. Len(to_client) + 1
        BY <1>0, <2>0, <2>1, <3>4
      <4>2. Held(t, p, i)' = Held(t, p, i) /\ (Taken(t, p, i, n)' <=> Taken(t, p, i, n))
        BY <1>0, <2>2, <4>1, Kept
      <4>3. e \in Held(t, p, i)
        BY <4>2
      <4>4. e.aspect \in Aspects /\ (t = "exist" <=> e.val = 0)
        BY <1>0, <4>1, <4>3, HeldFacts DEF Watches
      <4>5. Value(e.aspect, p) = e.val \/ Taken(t, p, i, n)
        BY <1>0, <2>0, <2>1, <4>1, <4>3 DEF ToldInv
      <4> QED
        BY <2>3, <3>2, <4>2, <4>4, <4>5
    <3> QED
      BY <3>3, <3>4
  <2>4. j = n \/ j <= Len(to_client)
    BY <1>0, <2>0, <2>1
  <2> QED
    BY <1>2, <2>2, <2>3, <2>4
<1>7. CASE ServerSetWatches
  <2>1. /\ Len(to_client) = 0 /\ Len(to_client') \in Nat \ {0}
        /\ \A k \in 1 .. Len(to_client') : \A v, q : Held(v, q, k)' = {}
    BY <1>7, ResetEvents
  <2>2. j \notin 1 .. Len(to_client')
    BY <2>1
  <2>3. j <= Len(to_client)
    BY <2>1, <2>2
  <2> QED
    BY <1>2, <1>7, <2>3, ServerKeeps
<1>8. ASSUME NEW type \in EventTypes, NEW q \in Paths, Change(type, q)
      PROVE  Taken(t, p, i, j)'
  <2>0. PICK n : n = Len(to_client) + 1
    OBVIOUS
  <2>1. /\ Len(to_client') = Len(to_client) \/ Len(to_client') = n
        /\ Len(to_client') = n => \A v, r : Held(v, r, n)' = {}
    BY <1>8, <2>0, EventAdded
  <2>2. j # n
    BY <1>0, <2>0, <2>1
  <2>3. j <= Len(to_client)
    BY <1>0, <2>0, <2>1, <2>2
  <2> QED
    BY <1>2, <1>8, <2>3, ServerKeeps
<1> QED
  BY <1>3, <1>4, <1>5, <1>6, <1>7, <1>8, Steps

-----------------------------------------------------------------------------
(* The completions.                                                        *)

LEMMA Concatenating ==
  ASSUME NEW S, NEW s \in Seq(S), NEW r \in Seq(S)
  PROVE  /\ s \o r \in Seq(S) /\ Len(s \o r) = Len(s) + Len(r) /\ Len(s) \in Nat /\ Len(r) \in Nat
         /\ \A k \in 1 .. Len(s) : (s \o r)[k] = s[k]
         /\ \A k \in Len(s) + 1 .. Len(s \o r) : \E l \in 1 .. Len(r) : (s \o r)[k] = r[l]
<1>1. /\ s \o r \in Seq(S) /\ Len(s \o r) = Len(s) + Len(r) /\ Len(s) \in Nat /\ Len(r) \in Nat
      /\ \A k \in 1 .. Len(s) : (s \o r)[k] = s[k]
  OBVIOUS
<1>2. ASSUME NEW k \in Len(s) + 1 .. Len(s \o r) PROVE \E l \in 1 .. Len(r) : (s \o r)[k] = r[l]
  <2>1. k - Len(s) \in 1 .. Len(r)
    BY <1>1
  <2>2. (s \o r)[k] = r[k - Len(s)]
    BY <1>1
  <2> QED
    BY <2>1, <2>2
<1> QED
  BY <1>1, <1>2

\* A completion that shows no read and calls no watcher of a node.
Silent(c) ==
  \/ c.xid = WATCHER_EVENT_XID /\ c.type = "SESSION"
  \/ c.xid # WATCHER_EVENT_XID /\ c.rc = "ZCONNECTIONLOSS"

\* Completions are queued at the end.
LEMMA QueuedBehind ==
  ASSUME WatchInv, [Next]_vars, ~Deliver
  PROVE  /\ Len(completions_to_process) \in Nat /\ Len(completions_to_process') \in Nat
         /\ Len(completions_to_process) <= Len(completions_to_process')
         /\ \A k \in 1 .. Len(completions_to_process) :
              completions_to_process'[k] = completions_to_process[k]
         /\ ReceiveEvent \/ ReceiveReply
              => Len(completions_to_process') = Len(completions_to_process) + 1
         /\ ~(ReceiveEvent \/ ReceiveReply) =>
              \A k \in Len(completions_to_process) + 1 .. Len(completions_to_process') :
                Silent(completions_to_process'[k])
<1>0. WatchType /\ completions_to_process \in Seq(Completions) /\ Len(completions_to_process) \in Nat
  BY DEF WatchInv, WatchType
<1>1. CASE \/ UNCHANGED vars \/ SendPacket \/ ReceiveSetWatches \/ ServerRead \/ ServerSetWatches
           \/ \E type \in EventTypes, p \in Paths : Change(type, p)
           \/ \E kind \in Kinds, p \in Paths, w \in Watchers \union {NoWatcher} : Read(kind, p, w)
  <2>1. completions_to_process' = completions_to_process
    BY <1>1 DEF vars, SendPacket, ReceiveSetWatches, ServerRead, ServerSetWatches, Change, Read
  <2>2. ~(ReceiveEvent \/ ReceiveReply)
    <3>1. CASE ReceiveEvent \/ ReceiveReply
      <4>1. PICK c : completions_to_process' = Append(completions_to_process, c)
        BY <3>1 DEF ReceiveEvent, ReceiveReply
      <4>2. Len(completions_to_process') = Len(completions_to_process) + 1
        BY <1>0, <4>1
      <4> QED
        BY <1>0, <2>1, <4>2
    <3> QED
      BY <3>1
  <2> QED
    BY <1>0, <2>1, <2>2
<1>2. CASE ReceiveEvent \/ ReceiveReply
  <2>1. PICK c : completions_to_process' = Append(completions_to_process, c)
    BY <1>2 DEF ReceiveEvent, ReceiveReply
  <2> QED
    BY <1>0, <1>2, <2>1
<1>3. CASE SessionEstablished /\ ~(ReceiveEvent \/ ReceiveReply)
  <2>1. completions_to_process' = Append(completions_to_process, SessionEvent)
    BY <1>3 DEF SessionEstablished
  <2>2. Silent(SessionEvent) /\ SessionEvent \in Completions
    BY <1>0, SessionEventType DEF Silent, SessionEvent
  <2>3. /\ Len(completions_to_process') = Len(completions_to_process) + 1
        /\ \A k \in 1 .. Len(completions_to_process) :
              completions_to_process'[k] = completions_to_process[k]
        /\ completions_to_process'[Len(completions_to_process) + 1] = SessionEvent
    BY <1>0, <2>1, <2>2, Appending
  <2> QED
    BY <1>0, <1>3, <2>2, <2>3
<1>4. CASE ConnectionLost /\ ~(ReceiveEvent \/ ReceiveReply)
  <2>1. PICK S : S = IF connected THEN <<SessionEvent>> ELSE <<>>
    OBVIOUS
  <2>2. PICK F : F = FakedReplies
    OBVIOUS
  <2>3. completions_to_process' = (completions_to_process \o S) \o F
    BY <1>4, <2>1, <2>2 DEF ConnectionLost
  <2>4. S \in Seq(Completions) /\ \A l \in 1 .. Len(S) : Silent(S[l])
    <3>1. Silent(SessionEvent) /\ SessionEvent \in Completions
      BY <1>0, SessionEventType DEF Silent, SessionEvent
    <3>2. CASE connected
      <4>1. S = <<SessionEvent>>
        BY <2>1, <3>2
      <4> QED
        BY <3>1, <4>1
    <3>3. CASE ~connected
      <4>1. S = <<>>
        BY <2>1, <3>3
      <4> QED
        BY <4>1
    <3> QED
      BY <3>2, <3>3
  <2>5. F \in Seq(Completions) /\ \A l \in 1 .. Len(F) : Silent(F[l])
    <3>1. Len(sent_requests) \in Nat /\ DOMAIN sent_requests = 1 .. Len(sent_requests)
      BY <1>0 DEF WatchType
    <3>2. ASSUME NEW i \in 1 .. Len(sent_requests),
                 NEW c, c = [xid |-> sent_requests[i].xid, rc |-> "ZCONNECTIONLOSS",
                             req |-> sent_requests[i], zxid |-> 0, val |-> 0]
          PROVE  c \in Completions /\ Silent(c)
      <4>1. sent_requests[i] \in ReadRequests
        BY <1>0 DEF WatchType
      <4>2. sent_requests[i].xid \in Nat
        BY <4>1 DEF ReadRequests
      <4>3. c \in Completions
        BY <3>2, <4>1, <4>2 DEF ReadCompletions, Completions
      <4> QED
        BY <3>2, <4>2, <4>3, WatchAssumption DEF Silent
    <3>3. \A i \in 1 .. Len(sent_requests) : F[i] \in Completions /\ Silent(F[i])
      BY <2>2, <3>1, <3>2 DEF FakedReplies
    <3>4. F = [i \in 1 .. Len(sent_requests) |-> F[i]]
      BY <2>2, <3>1 DEF FakedReplies
    <3>5. F \in Seq(Completions) /\ Len(F) = Len(sent_requests)
      BY <3>1, <3>3, <3>4
    <3> QED
      BY <3>3, <3>5
  <2>6. PICK Q : Q = completions_to_process \o S
    OBVIOUS
  <2>7. /\ Q \in Seq(Completions) /\ Len(Q) = Len(completions_to_process) + Len(S) /\ Len(S) \in Nat
        /\ \A k \in 1 .. Len(completions_to_process) : Q[k] = completions_to_process[k]
        /\ \A k \in Len(completions_to_process) + 1 .. Len(Q) : \E l \in 1 .. Len(S) : Q[k] = S[l]
    BY <1>0, <2>4, <2>6, Concatenating
  <2>8. /\ Len(completions_to_process') = Len(Q) + Len(F) /\ Len(F) \in Nat
        /\ \A k \in 1 .. Len(Q) : completions_to_process'[k] = Q[k]
        /\ \A k \in Len(Q) + 1 .. Len(completions_to_process') :
             \E l \in 1 .. Len(F) : completions_to_process'[k] = F[l]
    <3>1. completions_to_process' = Q \o F
      BY <2>3, <2>6
    <3>2. /\ Len(Q \o F) = Len(Q) + Len(F) /\ Len(F) \in Nat
          /\ \A k \in 1 .. Len(Q) : (Q \o F)[k] = Q[k]
          /\ \A k \in Len(Q) + 1 .. Len(Q \o F) : \E l \in 1 .. Len(F) : (Q \o F)[k] = F[l]
      <4>1. Q \in Seq(Completions) /\ F \in Seq(Completions)
        BY <2>5, <2>7
      <4> QED
        BY <4>1, Concatenating
    <3> QED
      BY <3>1, <3>2, Zenon
  <2>9. \A k \in 1 .. Len(completions_to_process) :
          completions_to_process'[k] = completions_to_process[k]
    <3>1. \A k \in 1 .. Len(completions_to_process) : k \in 1 .. Len(Q)
      BY <1>0, <2>7
    <3> QED
      BY <2>7, <2>8, <3>1
  <2>10. ASSUME NEW k \in Len(completions_to_process) + 1 .. Len(completions_to_process')
         PROVE  Silent(completions_to_process'[k])
    <3>1. CASE k \in Len(Q) + 1 .. Len(completions_to_process')
      BY <2>5, <2>8, <3>1
    <3>2. CASE k \in Len(completions_to_process) + 1 .. Len(Q)
      <4>1. k \in 1 .. Len(Q)
        BY <1>0, <3>2
      <4> QED
        BY <2>4, <2>7, <2>8, <3>2, <4>1
    <3>3. k \in Len(Q) + 1 .. Len(completions_to_process') \/ k \in Len(completions_to_process) + 1 .. Len(Q)
      BY <1>0, <2>7, <2>8
    <3> QED
      BY <3>1, <3>2, <3>3
  <2>11. Len(completions_to_process') \in Nat /\ Len(completions_to_process) <= Len(completions_to_process')
    BY <1>0, <2>7, <2>8
  <2> QED
    BY <1>0, <1>4, <2>9, <2>10, <2>11
<1> QED
  BY <1>1, <1>2, <1>3, <1>4, Steps

\* The completion of an event calls watches of the tables.
LEMMA EventQueued ==
  ASSUME WatchInv, ReceiveEvent, NEW n, n = Len(completions_to_process) + 1
  PROVE  /\ Len(completions_to_process') = n /\ to_client[1] \in EventMessages
         /\ completions_to_process'[n].xid = WATCHER_EVENT_XID
         /\ completions_to_process'[n].type # "SESSION"
         /\ completions_to_process'[n].path = to_client[1].path
         /\ completions_to_process'[n].at = to_client[1].at
         /\ \A e \in completions_to_process'[n].watchers : \E t \in Tables :
              /\ e \in active[t][to_client[1].path]
              /\ Takes(to_client[1], t, to_client[1].path)
<1>0. WatchType /\ completions_to_process \in Seq(Completions) /\ to_client \in Seq(Messages)
  BY DEF WatchInv, WatchType
<1>1. PICK evt : evt = to_client[1]
  OBVIOUS
<1>2. to_client # <<>> /\ Head(to_client) = evt /\ evt \in Messages
  BY <1>0, <1>1, Tailing DEF ReceiveEvent
<1>3. PICK c : c = [xid |-> WATCHER_EVENT_XID, type |-> evt.type, path |-> evt.path, at |-> evt.at,
                    watchers |-> collectWatchers(evt.type, evt.path)]
  OBVIOUS
<1>4. evt.xid = WATCHER_EVENT_XID /\ completions_to_process' = Append(completions_to_process, c)
  BY <1>2, <1>3 DEF ReceiveEvent
<1>5. evt \in EventMessages
  BY <1>2, <1>4, MessageKinds
<1>6. evt.type \in EventTypes
  BY <1>5 DEF EventMessages
<1>7. Len(completions_to_process') = n /\ completions_to_process'[n] = c
  BY <1>0, <1>4
<1>8. /\ c.xid = WATCHER_EVENT_XID /\ c.type = evt.type /\ c.path = evt.path /\ c.at = evt.at
      /\ c.watchers = collectWatchers(evt.type, evt.path)
  BY <1>3
<1>9. ASSUME NEW e \in c.watchers
      PROVE  \E t \in Tables : e \in active[t][evt.path] /\ Takes(evt, t, evt.path)
  <2>1. PICK t \in EventTables(evt.type) : t \in Tables /\ e \in active[t][evt.path]
    BY <1>8, Collected
  <2> QED
    BY <1>4, <2>1 DEF Takes
<1>10. evt.type # "SESSION"
  BY <1>6 DEF EventTypes
<1> QED
  BY <1>1, <1>5, <1>7, <1>8, <1>9, <1>10

\* The completion of a read shows what its reply brought.
LEMMA ReplyQueued ==
  ASSUME WatchInv, ReceiveReply, NEW n, n = Len(completions_to_process) + 1
  PROVE  /\ Len(completions_to_process') = n
         /\ completions_to_process'[n].xid # WATCHER_EVENT_XID
         /\ completions_to_process'[n].zxid = to_client[1].zxid
         /\ completions_to_process'[n].val = to_client[1].val
         /\ \A a, p : Shows(completions_to_process'[n], a, p) => Answers(1, a, p)
<1>0. WatchType /\ completions_to_process \in Seq(Completions) /\ to_client \in Seq(Messages)
  BY DEF WatchInv, WatchType
<1>1. PICK hdr, cptr : hdr = to_client[1] /\ cptr = sent_requests[1]
  OBVIOUS
<1>2. /\ Head(to_client) = hdr /\ Head(sent_requests) = cptr /\ cptr \in ReadRequests
      /\ 1 \in 1 .. Len(sent_requests)
  BY <1>0, <1>1 DEF ReceiveReply, WatchType
<1>3. PICK c : c = [xid |-> hdr.xid, rc |-> hdr.rc, req |-> cptr, zxid |-> hdr.zxid, val |-> hdr.val]
  OBVIOUS
<1>4. hdr.xid = cptr.xid /\ completions_to_process' = Append(completions_to_process, c)
  BY <1>2, <1>3 DEF ReceiveReply
<1>5. Len(completions_to_process') = n /\ completions_to_process'[n] = c
  BY <1>0, <1>4
<1>6. c.xid = cptr.xid /\ c.req = cptr /\ c.zxid = hdr.zxid /\ c.val = hdr.val
  BY <1>3, <1>4
<1>7. cptr.xid # WATCHER_EVENT_XID
  BY <1>2, WatchAssumption DEF ReadRequests
<1>8. cptr \in Asked(1)
  BY <1>1, <1>2, <1>4 DEF Asked
<1>9. \A a, p : Shows(c, a, p) => Answers(1, a, p)
  BY <1>6, <1>8 DEF Shows, Answers
<1> QED
  BY <1>1, <1>5, <1>6, <1>7, <1>9

-----------------------------------------------------------------------------
(* Events are not stale.                                                   *)

LEMMA StaleStep ==
  ASSUME WatchInv, [Next]_vars
  PROVE  StaleInv'
<1>0. /\ WatchType /\ NodeInv /\ PhaseInv /\ MessageInv /\ ActiveInv /\ StaleInv
      /\ zxid \in Nat /\ Len(to_client) \in Nat
  BY DEF WatchInv, WatchType
<1> SUFFICES ASSUME NEW t \in Tables, NEW p \in Paths, NEW i \in 0 .. Len(to_client'),
                    NEW e \in Held(t, p, i)', NEW j \in i + 1 .. Len(to_client'),
                    Takes(to_client'[j], t, p)
             PROVE  to_client'[j].at > e.zxid
  BY DEF StaleInv, Takes
<1>1. ASSUME Keeps, j <= Len(to_client) PROVE to_client'[j].at > e.zxid
  <2>1. Len(to_client') \in Nat /\ \A k \in 1 .. Len(to_client) : to_client'[k] = to_client[k]
    BY <1>1 DEF Keeps
  <2>2. i \in 0 .. Len(to_client) /\ j \in i + 1 .. Len(to_client) /\ j \in 1 .. Len(to_client)
    BY <1>0, <1>1, <2>1
  <2>3. e \in Held(t, p, i)
    BY <1>0, <1>1, <2>2, Kept
  <2>4. to_client'[j] = to_client[j]
    BY <2>1, <2>2
  <2> QED
    BY <1>0, <2>2, <2>3, <2>4 DEF StaleInv
<1>2. CASE \/ UNCHANGED vars \/ SessionEstablished \/ SendPacket \/ Deliver
           \/ \E kind \in Kinds, q \in Paths, w \in Watchers \union {NoWatcher} : Read(kind, q, w)
  <2>1. Keeps /\ to_client' = to_client
    BY <1>2, QuietKeeps
  <2>2. j <= Len(to_client)
    BY <1>0, <2>1
  <2> QED
    BY <1>1, <2>1, <2>2
<1>3. CASE ReceiveEvent \/ ReceiveSetWatches \/ ReceiveReply
  <2>1. /\ Len(to_client') = Len(to_client) - 1 /\ Len(to_client) \in Nat \ {0}
        /\ \A k \in 1 .. Len(to_client') : to_client'[k] = to_client[k + 1]
    BY <1>3, Received
  <2>2. PICK n : Moved(t, p, i, n) /\ e \in Held(t, p, n)
    BY <1>3, HeldReceived
  <2>3. n \in 0 .. Len(to_client) /\ j + 1 \in n + 1 .. Len(to_client) /\ j \in 1 .. Len(to_client')
    BY <2>1, <2>2 DEF Moved
  <2>4. to_client'[j] = to_client[j + 1]
    BY <2>1, <2>3
  <2> QED
    BY <1>0, <2>2, <2>3, <2>4 DEF StaleInv
<1>4. CASE ConnectionLost
  BY <1>0, <1>4, Lost
<1>5. CASE ServerRead
  <2>0. PICK n : n = Len(to_client) + 1
    OBVIOUS
  <2>1. Len(to_client') = n /\ to_client'[n].xid # WATCHER_EVENT_XID
    BY <1>5, <2>0, ReplyAdded
  <2>2. j # n
    BY <2>1 DEF Takes
  <2>3. j <= Len(to_client)
    BY <1>0, <2>0, <2>1, <2>2
  <2> QED
    BY <1>1, <1>5, <2>3, ServerKeeps
<1>6. CASE ServerSetWatches
  <2>1. /\ Len(to_client') \in Nat \ {0} /\ active' = active
        /\ \A k \in 1 .. Len(to_client') : \A v, q : Held(v, q, k)' = {}
    BY <1>6, ResetEvents
  <2>2. i \notin 1 .. Len(to_client')
    BY <2>1
  <2>3. i = 0
    BY <2>1, <2>2
  <2>4. e \in active[t][p]
    BY <2>1, <2>3 DEF Held
  <2>5. to_client'[Len(to_client')].xid = SET_WATCHES_XID
    BY <1>0, <1>6, ServerTold
  <2>6. j # Len(to_client')
    BY <2>5, WatchAssumption DEF Takes
  <2>7. j \in 1 .. Len(to_client') - 1
    BY <2>1, <2>3, <2>6
  <2> QED
    BY <1>6, <2>4, <2>7, ResetNotStale
<1>7. ASSUME NEW type \in EventTypes, NEW q \in Paths, Change(type, q)
      PROVE  to_client'[j].at > e.zxid
  <2>0. PICK n : n = Len(to_client) + 1
    OBVIOUS
  <2>1. /\ \/ Len(to_client') = Len(to_client)
           \/ Len(to_client') = n /\ to_client'[n] = Event(type, q, zxid + 1)
        /\ Len(to_client') = n => \A v, r : Held(v, r, n)' = {}
    BY <1>7, <2>0, EventAdded
  <2>2. CASE j = n
    <3>1. to_client'[n].at = zxid + 1
      BY <1>0, <2>0, <2>1, <2>2 DEF Event
    <3>2. i \in 0 .. Len(to_client)
      BY <1>0, <2>0, <2>1, <2>2
    <3>3. e \in Held(t, p, i)
      BY <1>0, <1>7, <3>2, ServerKeeps, Kept
    <3>4. e.zxid \in 1 .. zxid
      BY <1>0, <3>2, <3>3, HeldFacts
    <3> QED
      BY <1>0, <2>2, <3>1, <3>4
  <2>3. CASE j # n
    <3>1. j <= Len(to_client)
      BY <1>0, <2>0, <2>1, <2>3
    <3> QED
      BY <1>1, <1>7, <3>1, ServerKeeps
  <2> QED
    BY <2>2, <2>3
<1> QED
  BY <1>2, <1>3, <1>4, <1>5, <1>6, <1>7, Steps

LEMMA NoStaleStep ==
  ASSUME WatchInv, [Next]_vars
  PROVE  NoStaleEvent'
<1>0. /\ WatchType /\ StaleInv /\ NoStaleEvent /\ Len(to_client) \in Nat
      /\ completions_to_process \in Seq(Completions) /\ Len(completions_to_process) \in Nat
  BY DEF WatchInv, WatchType
<1>1. \A k \in 1 .. Len(completions_to_process) :
        (/\ completions_to_process[k].xid = WATCHER_EVENT_XID
         /\ completions_to_process[k].type # "SESSION") =>
          \A e \in completions_to_process[k].watchers : completions_to_process[k].at > e.zxid
  BY <1>0 DEF NoStaleEvent
<1>2. WatchType'
  BY WatchTypeStep
<1>3. DOMAIN completions_to_process' = 1 .. Len(completions_to_process')
  BY <1>2 DEF WatchType
<1> SUFFICES ASSUME NEW k \in 1 .. Len(completions_to_process'),
                    completions_to_process'[k].xid = WATCHER_EVENT_XID,
                    completions_to_process'[k].type # "SESSION",
                    NEW e \in completions_to_process'[k].watchers
             PROVE  completions_to_process'[k].at > e.zxid
  BY <1>3 DEF NoStaleEvent
<1>4. CASE Deliver
  <2>1. completions_to_process # <<>> /\ completions_to_process' = Tail(completions_to_process)
    BY <1>4 DEF Deliver
  <2>2. /\ Len(completions_to_process') = Len(completions_to_process) - 1
        /\ \A l \in 1 .. Len(completions_to_process) - 1 :
             completions_to_process'[l] = completions_to_process[l + 1]
    BY <1>0, <2>1, Tailing
  <2>3. /\ completions_to_process'[k] = completions_to_process[k + 1]
        /\ k + 1 \in 1 .. Len(completions_to_process)
    BY <1>0, <2>2
  <2> QED
    BY <1>1, <2>3
<1>5. CASE ~Deliver
  <2>0. PICK n : n = Len(completions_to_process) + 1
    OBVIOUS
  <2>1. /\ Len(completions_to_process') \in Nat
        /\ \A l \in 1 .. Len(completions_to_process) :
              completions_to_process'[l] = completions_to_process[l]
        /\ ReceiveEvent \/ ReceiveReply => Len(completions_to_process') = n
        /\ ~(ReceiveEvent \/ ReceiveReply) =>
              \A l \in n .. Len(completions_to_process') : Silent(completions_to_process'[l])
    BY <1>5, <2>0, QueuedBehind
  <2>2. CASE k \in 1 .. Len(completions_to_process)
    BY <1>1, <2>1, <2>2
  <2>3. CASE k \in n .. Len(completions_to_process')
    <3>1. ReceiveEvent \/ ReceiveReply
      BY <2>1, <2>3 DEF Silent
    <3>2. k = n
      BY <1>0, <2>0, <2>1, <2>3, <3>1
    <3>3. CASE ReceiveReply
      BY <2>0, <3>2, <3>3, ReplyQueued
    <3>4. CASE ReceiveEvent
      <4>1. /\ to_client[1] \in EventMessages
            /\ completions_to_process'[k].at = to_client[1].at
            /\ \E t \in Tables : /\ e \in active[t][to_client[1].path]
                                 /\ Takes(to_client[1], t, to_client[1].path)
        BY <2>0, <3>2, <3>4, EventQueued
      <4>2. PICK t \in Tables : /\ e \in active[t][to_client[1].path]
                                /\ Takes(to_client[1], t, to_client[1].path)
        BY <4>1
      <4>3. to_client[1].path \in Paths
        BY <4>1 DEF EventMessages
      <4>4. 0 \in 0 .. Len(to_client) /\ 1 \in 0 + 1 .. Len(to_client)
        BY <1>0, <3>4, Received
      <4>5. e \in Held(t, to_client[1].path, 0)
        BY <4>2 DEF Held
      <4>6. to_client[1].at > e.zxid
        BY <1>0, <4>2, <4>3, <4>4, <4>5 DEF StaleInv
      <4> QED
        BY <4>1, <4>6
    <3> QED
      BY <3>1, <3>3, <3>4
  <2> QED
    BY <1>0, <2>0, <2>2, <2>3
<1> QED
  BY <1>4, <1>5

-----------------------------------------------------------------------------
(* Reads show what the node was.                                           *)

LEMMA ShowsFacts ==
  ASSUME NEW c \in Completions, NEW a, NEW p, Shows(c, a, p)
  PROVE  c.zxid \in Nat /\ c.val \in Nat /\ a \in Aspects /\ p \in Paths
<1>1. c \in ReadCompletions
  BY DEF Shows, Completions, NodeEvents, SessionEvents
<1>2. c.req \in ReadRequests /\ c.zxid \in Nat /\ c.val \in Nat
  BY <1>1 DEF ReadCompletions
<1>3. Aspect(c.req.kind) \in Aspects /\ c.req.path \in Paths
  BY <1>2 DEF ReadRequests, Aspect, Aspects
<1> QED
  BY <1>2, <1>3 DEF Shows

\* Deliver shows the application at most what the first completion brings.
LEMMA Delivered ==
  ASSUME WatchInv, Deliver
  PROVE  /\ Len(completions_to_process) \in Nat \ {0}
         /\ Len(completions_to_process') = Len(completions_to_process) - 1
         /\ \A k \in 1 .. Len(completions_to_process') :
              /\ k + 1 \in 1 .. Len(completions_to_process)
              /\ completions_to_process'[k] = completions_to_process[k + 1]
         /\ \A a \in Aspects, p \in Paths :
              \/ seen'[a][p] = seen[a][p]
              \/ /\ Shows(completions_to_process[1], a, p)
                 /\ seen'[a][p].zxid = completions_to_process[1].zxid
                 /\ seen'[a][p].val = completions_to_process[1].val
<1>0. /\ WatchType /\ completions_to_process \in Seq(Completions)
      /\ seen \in [Aspects -> [Paths -> [zxid : Nat, val : Nat]]]
  BY DEF WatchInv, WatchType
<1>1. completions_to_process # <<>> /\ completions_to_process' = Tail(completions_to_process)
  BY DEF Deliver
<1>2. /\ Len(completions_to_process) \in Nat \ {0}
      /\ Len(completions_to_process') = Len(completions_to_process) - 1
      /\ \A k \in 1 .. Len(completions_to_process) - 1 :
           completions_to_process'[k] = completions_to_process[k + 1]
      /\ Head(completions_to_process) = completions_to_process[1]
      /\ completions_to_process[1] \in Completions
  BY <1>0, <1>1, Tailing
<1>3. \A k \in 1 .. Len(completions_to_process') :
              /\ k + 1 \in 1 .. Len(completions_to_process)
              /\ completions_to_process'[k] = completions_to_process[k + 1]
  BY <1>2
<1>4. PICK cptr : cptr = completions_to_process[1]
  OBVIOUS
<1>5. seen' = IF cptr.xid # WATCHER_EVENT_XID /\ cptr.rc # "ZCONNECTIONLOSS"
                THEN [seen EXCEPT ![Aspect(cptr.req.kind)][cptr.req.path] =
                        [zxid |-> cptr.zxid, val |-> cptr.val]]
                ELSE seen
  BY <1>2, <1>4 DEF Deliver
<1>6. ASSUME NEW a \in Aspects, NEW p \in Paths
      PROVE  \/ seen'[a][p] = seen[a][p]
             \/ /\ Shows(cptr, a, p)
                /\ seen'[a][p].zxid = cptr.zxid /\ seen'[a][p].val = cptr.val
  <2>1. CASE Shows(cptr, a, p)
    <3>1. seen' = [seen EXCEPT ![a][p] = [zxid |-> cptr.zxid, val |-> cptr.val]]
      BY <1>5, <2>1 DEF Shows
    <3>2. seen'[a][p] = [zxid |-> cptr.zxid, val |-> cptr.val]
      BY <1>0, <3>1
    <3> QED
      BY <2>1, <3>2
  <2>2. CASE ~Shows(cptr, a, p)
    <3>1. CASE cptr.xid # WATCHER_EVENT_XID /\ cptr.rc # "ZCONNECTIONLOSS"
      <4>1. Aspect(cptr.req.kind) # a \/ cptr.req.path # p
        BY <2>2, <3>1 DEF Shows
      <4>2. seen' = [seen EXCEPT ![Aspect(cptr.req.kind)][cptr.req.path] =
                        [zxid |-> cptr.zxid, val |-> cptr.val]]
        BY <1>5, <3>1
      <4>3. PICK b, q, v : b = Aspect(cptr.req.kind) /\ q = cptr.req.path
                             /\ v = [zxid |-> cptr.zxid, val |-> cptr.val]
        OBVIOUS
      <4>4. seen' = [seen EXCEPT ![b][q] = v] /\ (b # a \/ q # p)
        BY <4>1, <4>2, <4>3
      <4> QED
        BY <1>0, <4>4
    <3>2. CASE ~(cptr.xid # WATCHER_EVENT_XID /\ cptr.rc # "ZCONNECTIONLOSS")
      BY <1>5, <3>2
    <3> QED
      BY <3>1, <3>2
  <2> QED
    BY <2>1, <2>2
<1> QED
  BY <1>2, <1>3, <1>4, <1>6

\* What a read has shown stays true of its zxid.
LEMMA TrueKept ==
  ASSUME WatchInv, [Next]_vars, NEW c, c.zxid \in Int, NEW a \in Aspects, NEW p \in Paths,
         TrueRead(c, a, p)
  PROVE  TrueRead(c, a, p)'
<1>0. zxid \in Nat
  BY DEF WatchInv, WatchType
<1>1. ASSUME NEW type \in EventTypes, NEW q \in Paths, Change(type, q)
      PROVE  TrueRead(c, a, p)'
  <2>1. \/ LastChange(a, p)' = zxid + 1
        \/ Value(a, p)' = Value(a, p) /\ LastChange(a, p)' = LastChange(a, p)
    BY <1>1, ChangeOf
  <2>2. zxid' = zxid + 1
    BY <1>1 DEF Change
  <2>3. c.zxid <= zxid /\ (c.val = Value(a, p) \/ LastChange(a, p) > c.zxid)
    BY DEF TrueRead
  <2>4. c.zxid <= zxid' /\ (c.val = Value(a, p)' \/ LastChange(a, p)' > c.zxid)
    BY <1>0, <2>1, <2>2, <2>3
  <2> QED
    BY <2>4 DEF TrueRead
<1>2. CASE ~(\E type \in EventTypes, q \in Paths : Change(type, q))
  <2>1. node' = node /\ zxid' = zxid
    BY <1>2, Steps DEF vars, Read, SessionEstablished, SendPacket, ReceiveEvent, ReceiveSetWatches,
       ReceiveReply, ConnectionLost, Deliver, ServerRead, ServerSetWatches
  <2> QED
    BY <2>1 DEF TrueRead, Value, LastChange
<1> QED
  BY <1>1, <1>2

\* Where an answer of a message comes from.
LEMMA AnswersFrom ==
  ASSUME WatchInv, [Next]_vars, NEW i \in 1 .. Len(to_client'), NEW a, NEW p, Answers(i, a, p)'
  PROVE  \/ \E j \in 1 .. Len(to_client) : Answers(j, a, p) /\ to_client'[i] = to_client[j]
         \/ ServerRead /\ i = Len(to_client) + 1
<1>0. WatchType /\ Len(to_client) \in Nat
  BY DEF WatchInv, WatchType
<1>1. ASSUME Keeps, i <= Len(to_client)
      PROVE  \E j \in 1 .. Len(to_client) : Answers(j, a, p) /\ to_client'[i] = to_client[j]
  <2>1. i \in 1 .. Len(to_client)
    BY <1>0, <1>1 DEF Keeps
  <2>2. Answers(i, a, p) /\ to_client'[i] = to_client[i]
    BY <1>0, <1>1, <2>1, Kept DEF Keeps
  <2> QED
    BY <2>1, <2>2
<1>2. CASE \/ UNCHANGED vars \/ SessionEstablished \/ SendPacket \/ Deliver
           \/ \E kind \in Kinds, q \in Paths, w \in Watchers \union {NoWatcher} : Read(kind, q, w)
  <2>1. Keeps /\ to_client' = to_client
    BY <1>2, QuietKeeps
  <2>2. i <= Len(to_client)
    BY <1>0, <2>1
  <2> QED
    BY <1>1, <2>1, <2>2
<1>3. CASE ReceiveEvent \/ ReceiveSetWatches \/ ReceiveReply
  <2>1. /\ i + 1 \in 1 .. Len(to_client) /\ to_client'[i] = to_client[i + 1]
        /\ Asked(i)' \subseteq Asked(i + 1)
    BY <1>3, Received
  <2>2. Answers(i + 1, a, p)
    BY <2>1 DEF Answers
  <2> QED
    BY <2>1, <2>2
<1>4. CASE ConnectionLost
  BY <1>0, <1>4, Lost
<1>5. CASE ServerRead
  <2>0. PICK n : n = Len(to_client) + 1
    OBVIOUS
  <2>1. Len(to_client') = n /\ Keeps
    BY <1>5, <2>0, ReplyAdded, ServerKeeps
  <2>2. i = n \/ i <= Len(to_client)
    BY <1>0, <2>0, <2>1
  <2> QED
    BY <1>1, <1>5, <2>0, <2>1, <2>2
<1>6. CASE ServerSetWatches
  BY <1>6, ResetEvents
<1>7. ASSUME NEW type \in EventTypes, NEW q \in Paths, Change(type, q)
      PROVE  \E j \in 1 .. Len(to_client) : Answers(j, a, p) /\ to_client'[i] = to_client[j]
  <2>0. PICK n : n = Len(to_client) + 1
    OBVIOUS
  <2>1. /\ Len(to_client') = Len(to_client) \/ Len(to_client') = n
        /\ Len(to_client') = n => \A b, r : ~Answers(n, b, r)'
    BY <1>7, <2>0, EventAdded
  <2>2. i # n
    BY <1>0, <2>0, <2>1
  <2>3. i <= Len(to_client) /\ Keeps
    BY <1>0, <1>7, <2>0, <2>1, <2>2, ServerKeeps
  <2> QED
    BY <1>1, <2>3
<1> QED
  BY <1>2, <1>3, <1>4, <1>5, <1>6, <1>7, Steps

\* Where a completion comes from that shows a read.
LEMMA ShowsFrom ==
  ASSUME WatchInv, [Next]_vars, NEW k \in 1 .. Len(completions_to_process'), NEW a, NEW p,
         Shows(completions_to_process'[k], a, p)
  PROVE  \/ \E l \in 1 .. Len(completions_to_process) :
               completions_to_process'[k] = completions_to_process[l]
         \/ /\ ReceiveReply /\ Answers(1, a, p)
            /\ completions_to_process'[k].zxid = to_client[1].zxid
            /\ completions_to_process'[k].val = to_client[1].val
<1>0. Len(completions_to_process) \in Nat
  BY DEF WatchInv, WatchType
<1>1. CASE Deliver
  BY <1>1, Delivered
<1>2. CASE ~Deliver
  <2>0. PICK n : n = Len(completions_to_process) + 1
    OBVIOUS
  <2>1. /\ Len(completions_to_process') \in Nat
        /\ \A l \in 1 .. Len(completions_to_process) :
              completions_to_process'[l] = completions_to_process[l]
        /\ ReceiveEvent \/ ReceiveReply => Len(completions_to_process') = n
        /\ ~(ReceiveEvent \/ ReceiveReply) =>
              \A l \in n .. Len(completions_to_process') : Silent(completions_to_process'[l])
    BY <1>2, <2>0, QueuedBehind
  <2>2. CASE k \in 1 .. Len(completions_to_process)
    BY <2>1, <2>2
  <2>3. CASE k \in n .. Len(completions_to_process')
    <3>1. ReceiveEvent \/ ReceiveReply
      BY <2>1, <2>3 DEF Silent, Shows
    <3>2. k = n
      BY <1>0, <2>0, <2>1, <2>3, <3>1
    <3>3. CASE ReceiveEvent
      BY <2>0, <3>2, <3>3, EventQueued DEF Shows
    <3>4. CASE ReceiveReply
      BY <2>0, <3>2, <3>4, ReplyQueued
    <3> QED
      BY <3>1, <3>3, <3>4
  <2> QED
    BY <1>0, <2>0, <2>2, <2>3
<1> QED
  BY <1>1, <1>2

LEMMA ReadStep ==
  ASSUME WatchInv, [Next]_vars
  PROVE  ReadInv'
<1>0. /\ WatchType /\ ReadInv /\ Len(to_client) \in Nat
      /\ completions_to_process \in Seq(Completions) /\ Len(completions_to_process) \in Nat
      /\ seen \in [Aspects -> [Paths -> [zxid : Nat, val : Nat]]]
  BY DEF WatchInv, WatchType
<1> SUFFICES ASSUME NEW a \in Aspects, NEW p \in Paths
             PROVE  /\ TrueRead(seen[a][p], a, p)'
                    /\ \A k \in 1 .. Len(completions_to_process') :
                         Shows(completions_to_process'[k], a, p) => TrueRead(completions_to_process[k], a, p)'
                    /\ \A i \in 1 .. Len(to_client') : Answers(i, a, p)' => TrueRead(to_client[i], a, p)'
  BY DEF ReadInv, Shows
\* Reads that were made before.
<1>1. ASSUME NEW k \in 1 .. Len(completions_to_process), NEW c, c = completions_to_process[k],
             Shows(c, a, p)
      PROVE  TrueRead(c, a, p)'
  <2>1. c \in Completions
    BY <1>0, <1>1
  <2>2. c.zxid \in Int
    BY <1>1, <2>1, ShowsFacts
  <2>3. TrueRead(c, a, p)
    BY <1>0, <1>1 DEF ReadInv
  <2> QED
    BY <2>2, <2>3, TrueKept
<1>2. ASSUME NEW i \in 1 .. Len(to_client), NEW m, m = to_client[i], Answers(i, a, p)
      PROVE  TrueRead(m, a, p)'
  <2>1. m \in ReplyMessages
    BY <1>0, <1>2, AnswerFacts
  <2>2. m.zxid \in Int
    BY <2>1 DEF ReplyMessages
  <2>3. TrueRead(m, a, p)
    BY <1>0, <1>2 DEF ReadInv
  <2> QED
    BY <2>2, <2>3, TrueKept
<1>3. ASSUME NEW s, s = seen[a][p] PROVE TrueRead(s, a, p)'
  <2>1. s.zxid \in Int
    BY <1>0, <1>3
  <2>2. TrueRead(s, a, p)
    BY <1>0, <1>3 DEF ReadInv
  <2> QED
    BY <2>1, <2>2, TrueKept
\* A read is true of what it shows.
<1>4. ASSUME NEW c, NEW d, TrueRead(c, a, p)', d.zxid = c.zxid, d.val = c.val
      PROVE  TrueRead(d, a, p)'
  BY <1>4 DEF TrueRead
<1>5. TrueRead(seen[a][p], a, p)'
  <2>0. PICK s : s = seen'[a][p]
    OBVIOUS
  <2>1. CASE Deliver
    <3>1. \/ s = seen[a][p]
          \/ /\ Shows(completions_to_process[1], a, p) /\ 1 \in 1 .. Len(completions_to_process)
             /\ s.zxid = completions_to_process[1].zxid /\ s.val = completions_to_process[1].val
      BY <1>0, <2>0, <2>1, Delivered
    <3>2. TrueRead(s, a, p)'
      BY <1>1, <1>3, <1>4, <3>1
    <3> QED
      BY <2>0, <3>2
  <2>2. CASE ~Deliver
    <3>1. seen' = seen
      BY <2>2, Steps DEF vars, Read, SessionEstablished, SendPacket, ReceiveEvent, ReceiveSetWatches,
         ReceiveReply, ConnectionLost, ServerRead, ServerSetWatches, Change
    <3>2. TrueRead(s, a, p)'
      BY <1>3, <2>0, <3>1
    <3> QED
      BY <2>0, <3>2
  <2> QED
    BY <2>1, <2>2
<1>6. ASSUME NEW k \in 1 .. Len(completions_to_process'), Shows(completions_to_process'[k], a, p)
      PROVE  TrueRead(completions_to_process[k], a, p)'
  <2>0. PICK c : c = completions_to_process'[k]
    OBVIOUS
  <2>1. CASE \E l \in 1 .. Len(completions_to_process) :
               completions_to_process'[k] = completions_to_process[l]
    <3>1. TrueRead(c, a, p)'
      BY <1>1, <1>6, <2>0, <2>1
    <3> QED
      BY <2>0, <3>1
  <2>2. CASE /\ ReceiveReply /\ Answers(1, a, p)
             /\ c.zxid = to_client[1].zxid /\ c.val = to_client[1].val
    <3>1. 1 \in 1 .. Len(to_client)
      BY <1>0, <2>2, Received
    <3>2. TrueRead(c, a, p)'
      BY <1>2, <1>4, <2>2, <3>1
    <3> QED
      BY <2>0, <3>2
  <2> QED
    BY <1>6, <2>0, <2>1, <2>2, ShowsFrom
<1>7. ASSUME NEW i \in 1 .. Len(to_client'), Answers(i, a, p)'
      PROVE  TrueRead(to_client[i], a, p)'
  <2>0. PICK m : m = to_client'[i]
    OBVIOUS
  <2>1. CASE \E j \in 1 .. Len(to_client) : Answers(j, a, p) /\ to_client'[i] = to_client[j]
    <3>1. TrueRead(m, a, p)'
      BY <1>2, <2>0, <2>1
    <3> QED
      BY <2>0, <3>1
  <2>2. CASE ServerRead /\ i = Len(to_client) + 1
    <3>1. m.zxid = zxid /\ m.val = Value(a, p) /\ UNCHANGED <<node, zxid>>
      BY <1>7, <2>0, <2>2, ReplyAdded
    <3>2. zxid \in Nat
      BY <1>0 DEF WatchType
    <3>3. TrueRead(m, a, p)'
      BY <3>1, <3>2 DEF TrueRead, Value
    <3> QED
      BY <2>0, <3>3
  <2> QED
    BY <1>7, <2>1, <2>2, AnswersFrom
<1> QED
  BY <1>5, <1>6, <1>7

-----------------------------------------------------------------------------
(* The event comes before the new data.                                    *)

\* Where a watch comes from.
LEMMA HeldFrom ==
  ASSUME WatchInv, [Next]_vars, NEW t \in Tables, NEW p \in Paths, NEW i \in 0 .. Len(to_client'),
         NEW e \in Held(t, p, i)'
  PROVE  \/ \E m \in 0 .. Len(to_client) : e \in Held(t, p, m)
         \/ ServerRead /\ i = Len(to_client) + 1
<1>0. WatchType /\ Len(to_client) \in Nat
  BY DEF WatchInv, WatchType
<1>1. ASSUME Keeps, i <= Len(to_client)
      PROVE  \E m \in 0 .. Len(to_client) : e \in Held(t, p, m)
  <2>1. i \in 0 .. Len(to_client)
    BY <1>0, <1>1 DEF Keeps
  <2>2. e \in Held(t, p, i)
    BY <1>0, <1>1, <2>1, Kept
  <2> QED
    BY <2>1, <2>2
<1>2. CASE \/ UNCHANGED vars \/ SessionEstablished \/ SendPacket \/ Deliver
           \/ \E kind \in Kinds, q \in Paths, w \in Watchers \union {NoWatcher} : Read(kind, q, w)
  <2>1. Keeps /\ to_client' = to_client
    BY <1>2, QuietKeeps
  <2>2. i <= Len(to_client)
    BY <1>0, <2>1
  <2> QED
    BY <1>1, <2>1, <2>2
<1>3. CASE ReceiveEvent \/ ReceiveSetWatches \/ ReceiveReply
  BY <1>3, HeldReceived DEF Moved
<1>4. CASE ConnectionLost
  <2>1. Len(to_client') = 0 /\ 0 \in 0 .. Len(to_client) /\ \A v, q : Held(v, q, 0)' = Held(v, q, 0)
    BY <1>0, <1>4, Lost
  <2>2. i = 0
    BY <2>1
  <2> QED
    BY <2>1, <2>2
<1>5. CASE ServerRead
  <2>0. PICK n : n = Len(to_client) + 1
    OBVIOUS
  <2>1. Len(to_client') = n /\ Keeps
    BY <1>5, <2>0, ReplyAdded, ServerKeeps
  <2>2. i = n \/ i <= Len(to_client)
    BY <1>0, <2>0, <2>1
  <2> QED
    BY <1>1, <1>5, <2>0, <2>1, <2>2
<1>6. CASE ServerSetWatches
  <2>1. /\ Len(to_client) = 0 /\ Len(to_client') \in Nat \ {0}
        /\ \A k \in 1 .. Len(to_client') : \A v, q : Held(v, q, k)' = {}
    BY <1>6, ResetEvents
  <2>2. i \notin 1 .. Len(to_client')
    BY <2>1
  <2>3. i <= Len(to_client)
    BY <2>1, <2>2
  <2> QED
    BY <1>1, <1>6, <2>3, ServerKeeps
<1>7. ASSUME NEW type \in EventTypes, NEW q \in Paths, Change(type, q)
      PROVE  \E m \in 0 .. Len(to_client) : e \in Held(t, p, m)
  <2>0. PICK n : n = Len(to_client) + 1
    OBVIOUS
  <2>1. /\ Len(to_client') = Len(to_client) \/ Len(to_client') = n
        /\ Len(to_client') = n => \A v, r : Held(v, r, n)' = {}
    BY <1>7, <2>0, EventAdded
  <2>2. i # n
    BY <1>0, <2>0, <2>1
  <2>3. i <= Len(to_client) /\ Keeps
    BY <1>0, <1>7, <2>0, <2>1, <2>2, ServerKeeps
  <2> QED
    BY <1>1, <2>3
<1> QED
  BY <1>2, <1>3, <1>4, <1>5, <1>6, <1>7, Steps

\* A watch that is left now agrees with every read of before.
LEMMA NewWatchAgrees ==
  ASSUME WatchInv, NEW c, c.zxid \in Int, NEW a \in Aspects, NEW p \in Paths, TrueRead(c, a, p),
         NEW e, e.zxid = zxid, e.val = Value(a, p)
  PROVE  Agrees(c, e)
<1>1. WatchType /\ NodeInv /\ zxid \in Nat
  BY DEF WatchInv, WatchType
<1>2. LastChange(a, p) \in 1 .. zxid
  BY <1>1, ValueOf
<1> QED
  BY <1>1, <1>2 DEF TrueRead, Agrees

\* Watches in the tables and on their way.
LEMMA HeldOrderStep ==
  ASSUME WatchInv, [Next]_vars, NEW t \in Tables, NEW p \in Paths, NEW i \in 0 .. Len(to_client'),
         NEW e \in Held(t, p, i)'
  PROVE  /\ Agrees(seen'[e.aspect][p], e)
         /\ \A k \in 1 .. Len(completions_to_process') :
              Shows(completions_to_process'[k], e.aspect, p) => Agrees(completions_to_process'[k], e)
<1>0. /\ WatchType /\ MessageInv /\ ActiveInv /\ ReadInv /\ OrderInv /\ Len(to_client) \in Nat
      /\ completions_to_process \in Seq(Completions) /\ Len(completions_to_process) \in Nat
      /\ seen \in [Aspects -> [Paths -> [zxid : Nat, val : Nat]]]
  BY DEF WatchInv, WatchType
\* It agrees with what was read before.
<1>1. /\ e.aspect \in Aspects
      /\ Agrees(seen[e.aspect][p], e)
      /\ \A k \in 1 .. Len(completions_to_process) :
           Shows(completions_to_process[k], e.aspect, p) => Agrees(completions_to_process[k], e)
  <2>1. CASE \E m \in 0 .. Len(to_client) : e \in Held(t, p, m)
    <3>1. PICK m \in 0 .. Len(to_client) : e \in Held(t, p, m)
      BY <2>1
    <3>2. e.aspect \in Aspects
      BY <1>0, <3>1, HeldFacts DEF Watches
    <3> QED
      BY <1>0, <3>1, <3>2 DEF OrderInv
  <2>2. CASE ServerRead /\ i = Len(to_client) + 1
    <3>1. e.zxid = zxid /\ e.val = Value(e.aspect, p) /\ e.aspect \in Aspects
      BY <2>2, ReplyAdded DEF AspectOf, Aspects
    <3>2. Agrees(seen[e.aspect][p], e)
      <4>1. PICK s : s = seen[e.aspect][p]
        OBVIOUS
      <4>2. TrueRead(s, e.aspect, p) /\ s.zxid \in Int
        BY <1>0, <3>1, <4>1 DEF ReadInv
      <4> QED
        BY <3>1, <4>1, <4>2, NewWatchAgrees
    <3>3. ASSUME NEW k \in 1 .. Len(completions_to_process), Shows(completions_to_process[k], e.aspect, p)
          PROVE  Agrees(completions_to_process[k], e)
      <4>1. PICK c : c = completions_to_process[k]
        OBVIOUS
      <4>2. TrueRead(c, e.aspect, p) /\ c \in Completions
        BY <1>0, <3>1, <3>3, <4>1 DEF ReadInv
      <4>3. c.zxid \in Int
        BY <3>3, <4>1, <4>2, ShowsFacts
      <4> QED
        BY <3>1, <4>1, <4>2, <4>3, NewWatchAgrees
    <3> QED
      BY <3>1, <3>2, <3>3
  <2> QED
    BY <2>1, <2>2, HeldFrom
<1>2. ASSUME NEW c, NEW d, Agrees(c, e), d.zxid = c.zxid, d.val = c.val PROVE Agrees(d, e)
  BY <1>2 DEF Agrees
<1>3. Agrees(seen'[e.aspect][p], e)
  <2>1. CASE Deliver
    <3>1. 1 \in 1 .. Len(completions_to_process)
      BY <2>1, Delivered
    <3>2. \/ seen'[e.aspect][p] = seen[e.aspect][p]
          \/ /\ Shows(completions_to_process[1], e.aspect, p)
             /\ seen'[e.aspect][p].zxid = completions_to_process[1].zxid
             /\ seen'[e.aspect][p].val = completions_to_process[1].val
      BY <1>1, <2>1, Delivered
    <3> QED
      BY <1>1, <1>2, <3>1, <3>2
  <2>2. CASE ~Deliver
    <3>1. seen' = seen
      BY <2>2, Steps DEF vars, Read, SessionEstablished, SendPacket, ReceiveEvent, ReceiveSetWatches,
         ReceiveReply, ConnectionLost, ServerRead, ServerSetWatches, Change
    <3> QED
      BY <1>1, <3>1
  <2> QED
    BY <2>1, <2>2
<1>4. ASSUME NEW k \in 1 .. Len(completions_to_process'), Shows(completions_to_process'[k], e.aspect, p)
      PROVE  Agrees(completions_to_process'[k], e)
  <2>1. CASE \E l \in 1 .. Len(completions_to_process) :
               completions_to_process'[k] = completions_to_process[l]
    BY <1>1, <1>4, <2>1
  <2>2. CASE /\ ReceiveReply /\ Answers(1, e.aspect, p)
             /\ completions_to_process'[k].zxid = to_client[1].zxid
             /\ completions_to_process'[k].val = to_client[1].val
    <3>1. PICK n : Moved(t, p, i, n) /\ e \in Held(t, p, n)
      BY <2>2, HeldReceived
    <3>2. n \in 0 .. Len(to_client) /\ 1 \in 1 .. Len(to_client)
      BY <2>2, <3>1, Received DEF Moved
    <3>3. Agrees(to_client[1], e) \/ Taken(t, p, n, 1)
      BY <1>0, <2>2, <3>1, <3>2 DEF OrderInv
    <3>4. ~Taken(t, p, n, 1)
      BY <3>2 DEF Taken
    <3> QED
      BY <1>2, <2>2, <3>3, <3>4
  <2> QED
    BY <1>4, <2>1, <2>2, ShowsFrom
<1> QED
  BY <1>3, <1>4

\* The answers on their way.
LEMMA AnswerOrderStep ==
  ASSUME WatchInv, [Next]_vars, NEW t \in Tables, NEW p \in Paths, NEW i \in 0 .. Len(to_client'),
         NEW e \in Held(t, p, i)', NEW j \in 1 .. Len(to_client'), Answers(j, e.aspect, p)'
  PROVE  Agrees(to_client'[j], e) \/ (j > i /\ Taken(t, p, i, j)')
<1>0. /\ WatchType /\ MessageInv /\ ActiveInv /\ ToldInv /\ ReadInv /\ OrderInv /\ Len(to_client) \in Nat
  BY DEF WatchInv, WatchType
<1>1. ASSUME Keeps, i <= Len(to_client), j <= Len(to_client)
      PROVE  Agrees(to_client'[j], e) \/ (j > i /\ Taken(t, p, i, j)')
  <2>1. Len(to_client') \in Nat /\ \A k \in 1 .. Len(to_client) : to_client'[k] = to_client[k]
    BY <1>1 DEF Keeps
  <2>2. /\ i \in 0 .. Len(to_client) /\ i \in Nat /\ j \in 1 .. Len(to_client)
        /\ j \in 0 .. Len(to_client) + 1
    BY <1>0, <1>1, <2>1
  <2>3. /\ e \in Held(t, p, i) /\ Answers(j, e.aspect, p)
        /\ Taken(t, p, i, j) => Taken(t, p, i, j)'
    BY <1>0, <1>1, <2>2, Kept
  <2>4. Agrees(to_client[j], e) \/ (j > i /\ Taken(t, p, i, j))
    BY <1>0, <2>2, <2>3 DEF OrderInv
  <2> QED
    BY <2>1, <2>2, <2>3, <2>4
<1>2. CASE \/ UNCHANGED vars \/ SessionEstablished \/ SendPacket \/ Deliver
           \/ \E kind \in Kinds, q \in Paths, w \in Watchers \union {NoWatcher} : Read(kind, q, w)
  <2>1. Keeps /\ to_client' = to_client
    BY <1>2, QuietKeeps
  <2>2. i <= Len(to_client) /\ j <= Len(to_client)
    BY <1>0, <2>1
  <2> QED
    BY <1>1, <2>1, <2>2
<1>3. CASE ReceiveEvent \/ ReceiveSetWatches \/ ReceiveReply
  <2>1. /\ j + 1 \in 1 .. Len(to_client) /\ to_client'[j] = to_client[j + 1]
        /\ Asked(j)' \subseteq Asked(j + 1) /\ Len(to_client') = Len(to_client) - 1
    BY <1>3, Received
  <2>2. Answers(j + 1, e.aspect, p)
    BY <2>1 DEF Answers
  <2>3. PICK n : Moved(t, p, i, n) /\ e \in Held(t, p, n)
    BY <1>3, HeldReceived
  <2>4. n \in 0 .. Len(to_client) /\ (n = i + 1 \/ (n = 0 /\ i = 0)) /\ j \in 0 .. Len(to_client)
    BY <1>0, <2>1, <2>3 DEF Moved
  <2>5. Agrees(to_client[j + 1], e) \/ (j + 1 > n /\ Taken(t, p, n, j + 1))
    BY <1>0, <2>1, <2>2, <2>3, <2>4 DEF OrderInv
  <2>6. Taken(t, p, n, j + 1) => Taken(t, p, i, j)'
    BY <2>3, <2>4 DEF Moved
  <2>7. j + 1 > n => j > i
    BY <1>0, <2>1, <2>4
  <2> QED
    BY <2>1, <2>5, <2>6, <2>7
<1>4. CASE ConnectionLost
  BY <1>0, <1>4, Lost
<1>5. CASE ServerRead
  <2>0. PICK n : n = Len(to_client) + 1
    OBVIOUS
  <2>1. /\ Told /\ Len(to_client') = n
        /\ \A a, q : Answers(n, a, q)' => to_client'[n].val = Value(a, q)
        /\ \A v \in Tables, q \in Paths : \A f \in Held(v, q, n)' :
              f.zxid = zxid /\ f.val = Value(f.aspect, q) /\ f.aspect = AspectOf(v)
    BY <1>5, <2>0, ReplyAdded
  <2>2. Keeps
    BY <1>5, ServerKeeps
  <2>3. /\ i = n \/ (i <= Len(to_client) /\ i \in 0 .. Len(to_client))
        /\ j = n \/ (j <= Len(to_client) /\ j \in 1 .. Len(to_client))
    BY <1>0, <2>0, <2>1
  <2>4. CASE i = n /\ j = n
    BY <2>1, <2>4 DEF Agrees
  <2>5. CASE i = n /\ j # n
    <3>1. j \in 1 .. Len(to_client) /\ to_client'[j] = to_client[j] /\ Answers(j, e.aspect, p)
      BY <1>0, <2>2, <2>3, <2>5, Kept DEF Keeps
    <3>2. e.zxid = zxid /\ e.val = Value(e.aspect, p) /\ e.aspect \in Aspects
      BY <2>1, <2>5 DEF AspectOf, Aspects
    <3>3. PICK m : m = to_client[j]
      OBVIOUS
    <3>4. TrueRead(m, e.aspect, p) /\ m \in ReplyMessages
      BY <1>0, <3>1, <3>2, <3>3, AnswerFacts DEF ReadInv
    <3>5. m.zxid \in Int
      BY <3>4 DEF ReplyMessages
    <3>6. Agrees(m, e)
      BY <3>2, <3>4, <3>5, NewWatchAgrees
    <3> QED
      BY <3>1, <3>3, <3>6
  <2>6. CASE i # n /\ j = n
    <3>1. i \in 0 .. Len(to_client) /\ i \in Nat /\ n \in 0 .. Len(to_client) + 1 /\ n > i
      BY <1>0, <2>0, <2>3, <2>6
    <3>2. e \in Held(t, p, i) /\ (Taken(t, p, i, n) => Taken(t, p, i, n)')
      BY <1>0, <2>2, <3>1, Kept
    <3>3. Value(e.aspect, p) = e.val \/ Taken(t, p, i, n)
      BY <1>0, <2>0, <2>1, <3>1, <3>2 DEF ToldInv
    <3> QED
      BY <2>1, <2>6, <3>1, <3>2, <3>3 DEF Agrees
  <2> QED
    BY <1>1, <2>2, <2>3, <2>4, <2>5, <2>6
<1>6. CASE ServerSetWatches
  BY <1>6, ResetEvents
<1>7. ASSUME NEW type \in EventTypes, NEW q \in Paths, Change(type, q)
      PROVE  Agrees(to_client'[j], e) \/ (j > i /\ Taken(t, p, i, j)')
  <2>0. PICK n : n = Len(to_client) + 1
    OBVIOUS
  <2>1. /\ Len(to_client') = Len(to_client) \/ Len(to_client') = n
        /\ Len(to_client') = n => /\ \A v, r : Held(v, r, n)' = {}
                                  /\ \A b, r : ~Answers(n, b, r)'
    BY <1>7, <2>0, EventAdded
  <2>2. i # n /\ j # n
    BY <1>0, <2>0, <2>1
  <2>3. i <= Len(to_client) /\ j <= Len(to_client) /\ Keeps
    BY <1>0, <1>7, <2>0, <2>1, <2>2, ServerKeeps
  <2> QED
    BY <1>1, <2>3
<1> QED
  BY <1>2, <1>3, <1>4, <1>5, <1>6, <1>7, Steps

\* Watches that are about to be called.
LEMMA CalledOrderStep ==
  ASSUME WatchInv, [Next]_vars, NEW n \in 1 .. Len(completions_to_process'),
         completions_to_process'[n].xid = WATCHER_EVENT_XID,
         completions_to_process'[n].type # "SESSION",
         NEW e \in completions_to_process'[n].watchers,
         NEW p, p = completions_to_process'[n].path
  PROVE  /\ Agrees(seen'[e.aspect][p], e)
         /\ \A k \in 1 .. n - 1 :
              Shows(completions_to_process'[k], e.aspect, p) => Agrees(completions_to_process'[k], e)
<1>0. /\ WatchType /\ MessageInv /\ ActiveInv /\ OrderInv /\ Len(to_client) \in Nat
      /\ completions_to_process \in Seq(Completions) /\ Len(completions_to_process) \in Nat
  BY DEF WatchInv, WatchType
<1>1. ASSUME NEW l \in 1 .. Len(completions_to_process),
             completions_to_process'[n] = completions_to_process[l]
      PROVE  /\ e.aspect \in Aspects /\ p \in Paths
             /\ Agrees(seen[e.aspect][p], e)
             /\ \A k \in 1 .. l - 1 :
                  Shows(completions_to_process[k], e.aspect, p) => Agrees(completions_to_process[k], e)
  <2>1. PICK evt : evt = completions_to_process[l]
    OBVIOUS
  <2>2. evt \in Completions /\ evt.xid = WATCHER_EVENT_XID /\ evt.type # "SESSION"
    BY <1>0, <1>1, <2>1
  <2>3. evt \in NodeEvents
    BY <2>2, WatchAssumption DEF Completions, ReadCompletions, SessionEvents
  <2>4. e \in evt.watchers /\ p = evt.path
    BY <1>1, <2>1
  <2>5. p \in Paths /\ e \in Watches
    BY <2>3, <2>4 DEF NodeEvents
  <2>6. e.aspect \in Aspects
    BY <2>5 DEF Watches
  <2> QED
    BY <1>0, <2>1, <2>2, <2>4, <2>5, <2>6 DEF OrderInv
<1>2. CASE Deliver
  <2>1. /\ n + 1 \in 1 .. Len(completions_to_process)
        /\ completions_to_process'[n] = completions_to_process[n + 1]
        /\ \A k \in 1 .. Len(completions_to_process') :
             completions_to_process'[k] = completions_to_process[k + 1]
        /\ Len(completions_to_process') = Len(completions_to_process) - 1
    BY <1>2, Delivered
  <2>2. /\ e.aspect \in Aspects /\ p \in Paths
        /\ Agrees(seen[e.aspect][p], e)
        /\ \A k \in 1 .. (n + 1) - 1 :
             Shows(completions_to_process[k], e.aspect, p) => Agrees(completions_to_process[k], e)
    BY <1>1, <2>1
  <2>3. \/ seen'[e.aspect][p] = seen[e.aspect][p]
        \/ /\ Shows(completions_to_process[1], e.aspect, p)
           /\ seen'[e.aspect][p].zxid = completions_to_process[1].zxid
           /\ seen'[e.aspect][p].val = completions_to_process[1].val
    BY <1>2, <2>2, Delivered
  <2>4. 1 \in 1 .. (n + 1) - 1
    BY <1>0, <2>1
  <2>5. Agrees(seen'[e.aspect][p], e)
    BY <2>2, <2>3, <2>4 DEF Agrees
  <2>6. ASSUME NEW k \in 1 .. n - 1, Shows(completions_to_process'[k], e.aspect, p)
        PROVE  Agrees(completions_to_process'[k], e)
    <3>1. k \in 1 .. Len(completions_to_process') /\ k + 1 \in 1 .. (n + 1) - 1
      BY <1>0, <2>1
    <3> QED
      BY <2>1, <2>2, <2>6, <3>1
  <2> QED
    BY <2>5, <2>6
<1>3. CASE ~Deliver
  <2>0. PICK m : m = Len(completions_to_process) + 1
    OBVIOUS
  <2>1. /\ Len(completions_to_process') \in Nat
        /\ \A l \in 1 .. Len(completions_to_process) :
              completions_to_process'[l] = completions_to_process[l]
        /\ ReceiveEvent \/ ReceiveReply => Len(completions_to_process') = m
        /\ ~(ReceiveEvent \/ ReceiveReply) =>
              \A l \in m .. Len(completions_to_process') : Silent(completions_to_process'[l])
    BY <1>3, <2>0, QueuedBehind
  <2>2. seen' = seen
    BY <1>3, Steps DEF vars, Read, SessionEstablished, SendPacket, ReceiveEvent, ReceiveSetWatches,
       ReceiveReply, ConnectionLost, ServerRead, ServerSetWatches, Change
  <2>3. CASE n \in 1 .. Len(completions_to_process)
    <3>1. completions_to_process'[n] = completions_to_process[n]
      BY <2>1, <2>3
    <3>2. \A k \in 1 .. n - 1 : completions_to_process'[k] = completions_to_process[k]
      BY <1>0, <2>1, <2>3
    <3> QED
      BY <1>1, <2>2, <2>3, <3>1, <3>2
  <2>4. CASE n \in m .. Len(completions_to_process')
    <3>1. ReceiveEvent \/ ReceiveReply
      BY <2>1, <2>4 DEF Silent
    <3>2. n = m
      BY <1>0, <2>0, <2>1, <2>4, <3>1
    <3>3. CASE ReceiveReply
      BY <2>0, <3>2, <3>3, ReplyQueued
    <3>4. CASE ReceiveEvent
      <4>1. /\ to_client[1] \in EventMessages /\ p = to_client[1].path
            /\ \E t \in Tables : e \in active[t][to_client[1].path]
        BY <2>0, <3>2, <3>4, EventQueued
      <4>2. PICK t \in Tables : e \in active[t][p]
        BY <4>1
      <4>3. p \in Paths
        BY <4>1 DEF EventMessages
      <4>4. e \in Held(t, p, 0) /\ 0 \in 0 .. Len(to_client)
        BY <1>0, <4>2 DEF Held
      <4>5. /\ Agrees(seen[e.aspect][p], e)
            /\ \A k \in 1 .. Len(completions_to_process) :
                 Shows(completions_to_process[k], e.aspect, p) => Agrees(completions_to_process[k], e)
        BY <1>0, <4>3, <4>4 DEF OrderInv
      <4>6. \A k \in 1 .. n - 1 : k \in 1 .. Len(completions_to_process)
        BY <1>0, <2>0, <3>2
      <4> QED
        BY <2>1, <2>2, <4>5, <4>6
    <3> QED
      BY <3>1, <3>3, <3>4
  <2> QED
    BY <1>0, <2>0, <2>1, <2>3, <2>4
<1> QED
  BY <1>2, <1>3

LEMMA OrderStep ==
  ASSUME WatchInv, [Next]_vars
  PROVE  OrderInv'
<1>1. ASSUME NEW t \in Tables, NEW p \in Paths, NEW i \in 0 .. Len(to_client'), NEW e \in Held(t, p, i)'
      PROVE  /\ Agrees(seen'[e.aspect][p], e)
             /\ \A k \in 1 .. Len(completions_to_process') :
                  Shows(completions_to_process'[k], e.aspect, p) => Agrees(completions_to_process'[k], e)
             /\ \A j \in 1 .. Len(to_client') :
                  Answers(j, e.aspect, p)' => Agrees(to_client'[j], e) \/ (j > i /\ Taken(t, p, i, j)')
  BY HeldOrderStep, AnswerOrderStep
<1>2. ASSUME NEW n \in 1 .. Len(completions_to_process'),
             completions_to_process'[n].xid = WATCHER_EVENT_XID,
             completions_to_process'[n].type # "SESSION",
             NEW e \in completions_to_process'[n].watchers
      PROVE  /\ Agrees(seen'[e.aspect][completions_to_process'[n].path], e)
             /\ \A k \in 1 .. n - 1 :
                  Shows(completions_to_process'[k], e.aspect, completions_to_process'[n].path)
                    => Agrees(completions_to_process'[k], e)
  BY <1>2, CalledOrderStep
<1> QED
  BY <1>1, <1>2 DEF OrderInv, Agrees, Shows

-----------------------------------------------------------------------------
(* The theorems.                                                           *)

LEMMA WatchInit ==
  ASSUME Init
  PROVE  WatchInv
<1>1. /\ connected = FALSE /\ last_zxid = 0 /\ zxid = 1 /\ reads = 0
      /\ active = [t \in Tables |-> [p \in Paths |-> {}]]
      /\ to_send = <<>> /\ sent_requests = <<>> /\ completions_to_process = <<>>
      /\ to_server = <<>> /\ to_client = <<>>
      /\ server_watches = [a \in Aspects |-> {}]
      /\ seen = [a \in Aspects |-> [p \in Paths |-> [zxid |-> 0, val |-> 0]]]
  BY DEF Init
<1>2. /\ Len(to_client) = 0 /\ Len(to_send) = 0 /\ Len(to_server) = 0
      /\ Len(sent_requests) = 0 /\ Len(completions_to_process) = 0
  BY <1>1
<1>3. ASSUME NEW p \in Paths
      PROVE  node[p].exists \in BOOLEAN /\ node[p].mzxid = 1 /\ node[p].pzxid = 1
  <2>1. PICK b \in BOOLEAN : node[p] = [exists |-> b, mzxid |-> 1, pzxid |-> 1]
    BY DEF Init
  <2>2. node[p].exists = b
    BY <2>1
  <2> QED
    BY <2>1, <2>2
<1>4. node \in [Paths -> [exists : BOOLEAN, mzxid : Nat, pzxid : Nat]]
  <2>1. \A b \in BOOLEAN : [exists |-> b, mzxid |-> 1, pzxid |-> 1]
          \in [exists : BOOLEAN, mzxid : Nat, pzxid : Nat]
    OBVIOUS
  <2>2. node \in [Paths -> {[exists |-> b, mzxid |-> 1, pzxid |-> 1] : b \in BOOLEAN}]
    BY DEF Init
  <2> QED
    BY <2>1, <2>2
<1>5. WatchType
  <2>1. \A S : <<>> \in Seq(S)
    OBVIOUS
  <2>2. /\ to_send \in Seq(ReadRequests \union SetWatchesPackets) /\ sent_requests \in Seq(ReadRequests)
        /\ completions_to_process \in Seq(Completions)
        /\ to_server \in Seq(ReadRequests \union SetWatchesPackets) /\ to_client \in Seq(Messages)
    BY <1>1, <2>1, Zenon
  <2>3. active \in [Tables -> [Paths -> SUBSET Watches]] /\ server_watches \in [Aspects -> SUBSET Paths]
    BY <1>1
  <2>4. seen \in [Aspects -> [Paths -> [zxid : Nat, val : Nat]]]
    BY <1>1
  <2>5. connected \in BOOLEAN
    BY <1>1
  <2> QED
    BY <1>1, <1>4, <2>2, <2>3, <2>4, <2>5 DEF WatchType
<1>6. NodeInv
  BY <1>1, <1>3 DEF NodeInv
<1>7. PhaseInv
  BY <1>1, <1>2 DEF PhaseInv, Offline
<1>8. XidInv /\ MessageInv
  BY <1>2 DEF XidInv, MessageInv
<1>9. ActiveInv
  BY <1>1 DEF ActiveInv
<1>10. \A t \in Tables, p \in Paths : \A i \in 0 .. Len(to_client) : Held(t, p, i) = {}
  <2>1. \A i \in 0 .. Len(to_client) : i = 0
    BY <1>2
  <2> QED
    BY <1>1, <2>1 DEF Held
<1>11. \A t \in Tables, p \in Paths : Held(t, p, 0) = {}
  BY <1>1 DEF Held
<1>12. KnownInv /\ ToldInv /\ ExistInv /\ StaleInv
  BY <1>10, <1>11 DEF KnownInv, ToldInv, ExistInv, StaleInv
<1>13. ReadInv
  <2>1. ASSUME NEW a \in Aspects, NEW p \in Paths PROVE TrueRead(seen[a][p], a, p)
    <3>1. seen[a][p].zxid = 0 /\ LastChange(a, p) = 1
      BY <1>1, <1>3 DEF LastChange
    <3> QED
      BY <1>1, <3>1 DEF TrueRead
  <2> QED
    BY <1>2, <2>1 DEF ReadInv
<1>14. OrderInv
  BY <1>2, <1>10 DEF OrderInv
<1>15. NoStaleEvent
  BY <1>1 DEF NoStaleEvent
<1> QED
  BY <1>5, <1>6, <1>7, <1>8, <1>9, <1>12, <1>13, <1>14, <1>15 DEF WatchInv

LEMMA WatchInvariant == Spec => []WatchInv
<1>1. Init => WatchInv
  BY WatchInit
<1>2. WatchInv /\ [Next]_vars => WatchInv'
  BY WatchTypeStep, NodeStep, PhaseStep, XidStep, MessageStep, ActiveStep, KnownStep, ToldStep,
     ExistStep, StaleStep, ReadStep, OrderStep, NoStaleStep DEF WatchInv
<1> QED
  BY <1>1, <1>2, PTL DEF Spec

\* zookeeper.h, "the watches do not need to be reset": whenever connections were
\* lost, a watch that is still in a table of a connected and idle handle was left
\* on what its node is now.
THEOREM ChangeNotMissed == Spec => []NoMissedChange
<1>1. WatchInv => NoMissedChange
  <2> SUFFICES ASSUME WatchInv, Quiet, NEW t \in Tables, NEW p \in Paths, NEW e \in active[t][p]
               PROVE  Value(e.aspect, p) = e.val
    BY DEF NoMissedChange
  <2>1. Told /\ ToldInv
    BY DEF WatchInv, Quiet, Told
  <2>2. Len(to_client) = 0
    BY DEF Quiet
  <2>3. e \in Held(t, p, 0) /\ 0 \in 0 .. Len(to_client)
    BY <2>2 DEF Held
  <2>4. ~Taken(t, p, 0, Len(to_client) + 1)
    BY <2>2 DEF Taken
  <2> QED
    BY <2>1, <2>3, <2>4 DEF ToldInv
<1> QED
  BY <1>1, WatchInvariant, PTL

\* A watcher is called before the application sees what its watch was left for:
\* as long as it has not been called, every read that completed since has
\* returned what the read of the watch did.
THEOREM EventComesFirst == Spec => []EventBeforeNewData
<1>1. WatchInv => EventBeforeNewData
  <2> SUFFICES ASSUME WatchInv, NEW p \in Paths, NEW e \in Uncalled(p)
               PROVE  Agrees(seen[e.aspect][p], e)
    BY DEF EventBeforeNewData, Agrees
  <2>1. OrderInv /\ Len(to_client) \in Nat /\ completions_to_process \in Seq(Completions)
    BY DEF WatchInv, WatchType
  <2>2. CASE \E t \in Tables : e \in active[t][p]
    <3>1. PICK t \in Tables : e \in active[t][p]
      BY <2>2
    <3>2. e \in Held(t, p, 0) /\ 0 \in 0 .. Len(to_client)
      BY <2>1, <3>1 DEF Held
    <3> QED
      BY <2>1, <3>2 DEF OrderInv
  <2>3. CASE \E i \in Queued(p) : e \in completions_to_process[i].watchers
    <3>1. PICK i \in Queued(p) : e \in completions_to_process[i].watchers
      BY <2>3
    <3>2. /\ i \in 1 .. Len(completions_to_process)
          /\ completions_to_process[i].xid = WATCHER_EVENT_XID
          /\ completions_to_process[i].type # "SESSION" /\ completions_to_process[i].path = p
      BY <2>1, <3>1 DEF Queued
    <3> QED
      BY <2>1, <3>1, <3>2 DEF OrderInv
  <2>4. \/ e \in UNION {active[t][p] : t \in Tables}
        \/ e \in UNION {completions_to_process[i].watchers : i \in Queued(p)}
    BY DEF Uncalled
  <2> QED
    BY <2>2, <2>3, <2>4
<1> QED
  BY <1>1, WatchInvariant, PTL

\* A watcher is called for a change that came after the read that left the watch:
\* the last_zxid that send_set_watches names is never behind that read.
THEOREM EventsNotStale == Spec => []NoStaleEvent
<1>1. WatchInv => NoStaleEvent
  BY DEF WatchInv
<1> QED
  BY <1>1, WatchInvariant, PTL
=============================================================================
