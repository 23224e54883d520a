----------------------------- MODULE ZkWatches -----------------------------
(***************************************************************************)
(* Node watches of the ZooKeeper client: a read leaves a watch, its reply  *)
(* activates it in one of the three tables of the handle, an event of the  *)
(* server takes it out again and calls it, and after a reconnect the       *)
(* client tells the new server of all watches it holds (SetWatches).       *)
(*                                                                         *)
(* The three tables are touched by the IO thread only, so its steps are    *)
(* whole handlers here, and ZkSession has the details of the pipeline.     *)
(* Reads are asynchronous.  The server is modelled as the client relies on *)
(* it: watches live and die with the connection, a notification precedes   *)
(* every reply that could show the change, and SetWatches answers with the *)
(* events the client has missed since the zxid it names.                   *)
(***************************************************************************)
EXTENDS Integers, Sequences, FiniteSets, SequencesExt

CONSTANTS
  Paths,              \* the nodes
  Watchers,           \* watcher objects: a function and its context
  DefaultWatcher,     \* the watcher given to zookeeper_init
  MaxReads,           \* bound: reads made
  MaxChanges,         \* bound: changes of the nodes
  MaxFaults,          \* bound: connections lost or failed
  WATCHER_EVENT_XID,
  SET_WATCHES_XID

ASSUME WatchAssumption ==
  /\ IsFiniteSet(Paths)
  /\ DefaultWatcher \notin Watchers
  /\ MaxReads \in Nat /\ MaxChanges \in Nat /\ MaxFaults \in Nat
  /\ WATCHER_EVENT_XID \notin Nat /\ SET_WATCHES_XID \notin Nat
  /\ WATCHER_EVENT_XID # SET_WATCHES_XID

VARIABLES
  \* fields of zhandle_t
  connected,               \* zh->state = ZOO_CONNECTED_STATE
  last_zxid,
  active,                  \* active_node_, _exist_ and _child_watchers
  to_send,
  sent_requests,
  completions_to_process,
  \* the connection, the server and the nodes
  to_server,
  to_client,
  zxid,                    \* the last transaction of the ensemble
  node,                    \* each node: is it there, when was it last changed
  server_watches,          \* the data and child watches of this connection
  \* history and bounds
  seen,                    \* what the application last read of each node
  reads, faults

vars == <<connected, last_zxid, active, to_send, sent_requests,
          completions_to_process, to_server, to_client, zxid, node,
          server_watches, seen, reads, faults>>

Tables == {"node", "exist", "child"}
Kinds == {"data", "exists", "children"}
Aspects == {"data", "children"}
EventTypes == {"CREATED", "DELETED", "CHANGED", "CHILD"}
NoWatcher == "none"

\* What a read returns: the transaction that made what it shows, 0 for no node.
Aspect(kind) == IF kind = "children" THEN "children" ELSE "data"
Value(aspect, p) ==
  IF ~node[p].exists THEN 0
  ELSE IF aspect = "children" THEN node[p].pzxid ELSE node[p].mzxid

\* A watch: the watcher object and, as history, what its read had returned.
Watch(w, aspect, z, v) == [w |-> w, aspect |-> aspect, zxid |-> z, val |-> v]
WatchesOf(table) == UNION {active[table][p] : p \in Paths}
Objects(watches) == {e.w : e \in watches}

Init ==
  /\ connected = FALSE
  /\ last_zxid = 0
  /\ active = [t \in Tables |-> [p \in Paths |-> {}]]
  /\ to_send = <<>>
  /\ sent_requests = <<>>
  /\ completions_to_process = <<>>
  /\ to_server = <<>>
  /\ to_client = <<>>
  /\ zxid = 1
  /\ node \in [Paths -> {[exists |-> b, mzxid |-> 1, pzxid |-> 1] : b \in BOOLEAN}]
  /\ server_watches = [a \in Aspects |-> {}]
  /\ seen = [a \in Aspects |-> [p \in Paths |-> [zxid |-> 0, val |-> 0]]]
  /\ reads = 0
  /\ faults = 0

-----------------------------------------------------------------------------
(* The tables: zk_hashtable.c.                                             *)

\* add_to_list: a watcher object that is in the list (search_watcher compares the
\* function and the context) is not added again.
add_to_list(list, wo) == IF wo.w \in Objects(list) THEN list ELSE list \union {wo}

do_insert_watcher_object(table, p, wo) == [table EXCEPT ![p] = add_to_list(@, wo)]

\* copy_watchers: the objects of one list are added to another.
copy_watchers(from, to) == to \union {e \in from : e.w \notin Objects(to)}

\* The tables whose watchers an event of the server concerns.
EventTables_NoExist(type) ==
  CASE type \in {"CREATED", "CHANGED"} -> {"node"}
    [] type = "CHILD" -> {"child"}
    [] type = "DELETED" -> Tables
EventTables(type) ==
  CASE type \in {"CREATED", "CHANGED"} -> {"node", "exist"}
    [] type = "CHILD" -> {"child"}
    [] type = "DELETED" -> Tables

\* collectWatchers for an event of a node: its watchers, from the tables in order.
collectWatchers(type, p) ==
  LET take(t) == IF t \in EventTables(type) THEN active[t][p] ELSE {}
  IN copy_watchers(take("child"), copy_watchers(take("exist"), take("node")))

\* add_for_event takes them out of their tables.
WithoutWatchers(type, p) ==
  [t \in Tables |-> IF t \in EventTables(type) THEN [active[t] EXCEPT ![p] = {}]
                    ELSE active[t]]

\* collectWatchers for a session event: the default watcher and every watcher
\* object of the tables, once; the tables keep them.
collect_session_watchers ==
  {DefaultWatcher} \union UNION {Objects(WatchesOf(t)) : t \in Tables}

\* The result checkers: the table a reply activates its watch in.
CheckerTable(kind, rc) ==
  CASE kind = "children" /\ rc = "ZOK" -> {"child"}
    [] kind # "children" /\ rc = "ZOK" -> {"node"}
    [] kind = "exists" /\ rc = "ZNONODE" -> {"exist"}
    [] OTHER -> {}

\* activateWatcher, for the reply to a request.  A read with no watcher has no
\* registration.
activateWatcher(req, hdr) ==
  [t \in Tables |->
     IF req.watcher # NoWatcher /\ t \in CheckerTable(req.kind, hdr.rc)
       THEN do_insert_watcher_object(active[t], req.path,
              Watch(req.watcher, Aspect(req.kind), hdr.zxid, hdr.val))
       ELSE active[t]]

-----------------------------------------------------------------------------
(* Reads: zoo_awget, zoo_awexists, zoo_awget_children.  They are accepted  *)
(* whether the session is connected or not.                                *)

Read(kind, p, w) ==
  /\ reads < MaxReads
  /\ reads' = reads + 1
  /\ LET req == [xid |-> reads + 1, kind |-> kind, path |-> p, watcher |-> w]
     IN /\ sent_requests' = Append(sent_requests, req)
        /\ to_send' = Append(to_send, req)
  /\ UNCHANGED <<connected, last_zxid, active, completions_to_process, to_server,
                 to_client, zxid, node, server_watches, seen, faults>>

-----------------------------------------------------------------------------
(* The IO thread.                                                          *)

SessionEvent ==
  [xid |-> WATCHER_EVENT_XID, type |-> "SESSION", at |-> zxid,
   watchers |-> {Watch(w, "data", 0, 0) : w \in collect_session_watchers}]

\* free_completions: a reply is faked for every request.
FakedReplies ==
  [i \in DOMAIN sent_requests |->
     [xid |-> sent_requests[i].xid, rc |-> "ZCONNECTIONLOSS", req |-> sent_requests[i],
      zxid |-> 0, val |-> 0]]

\* send_set_watches: the packet names all watched paths, and goes to the front
\* of to_send.
SetWatches ==
  [xid |-> SET_WATCHES_XID, relativeZxid |-> last_zxid,
   watches |-> [t \in Tables |-> {p \in Paths : active[t][p] # {}}]]

send_set_watches_Back ==
  IF \E t \in Tables : WatchesOf(t) # {} THEN Append(to_send, SetWatches) ELSE to_send
send_set_watches ==
  IF \E t \in Tables : WatchesOf(t) # {} THEN <<SetWatches>> \o to_send ELSE to_send

\* check_events finishes the handshake of a new connection.
SessionEstablished ==
  /\ ~connected
  /\ connected' = TRUE
  /\ to_send' = send_set_watches
  /\ completions_to_process' = Append(completions_to_process, SessionEvent)
  /\ UNCHANGED <<last_zxid, active, sent_requests, to_server, to_client, zxid,
                 node, server_watches, seen, reads, faults>>

\* handle_error: the connection is lost, or could not be made.  An event is queued
\* if there was a session, then the requests fail.
ConnectionLost ==
  /\ faults < MaxFaults
  /\ faults' = faults + 1
  /\ connected' = FALSE
  /\ completions_to_process' =
       completions_to_process \o (IF connected THEN <<SessionEvent>> ELSE <<>>)
                              \o FakedReplies
  /\ to_send' = <<>>
  /\ sent_requests' = <<>>
  /\ to_server' = <<>>
  /\ to_client' = <<>>
  /\ server_watches' = [a \in Aspects |-> {}]
  /\ UNCHANGED <<last_zxid, active, zxid, node, seen, reads>>

\* flush_send_queue sends a packet.
SendPacket ==
  /\ connected
  /\ to_send # <<>>
  /\ to_server' = Append(to_server, Head(to_send))
  /\ to_send' = Tail(to_send)
  /\ UNCHANGED <<connected, last_zxid, active, sent_requests,
                 completions_to_process, to_client, zxid, node, server_watches,
                 seen, reads, faults>>

\* zookeeper_process remembers the zxid of a message, if it has one: the server
\* sends its events with -1.
NewLastZxid_NotKept(hdr) == last_zxid
NewLastZxid(hdr) == IF hdr.zxid > 0 THEN hdr.zxid ELSE last_zxid

\* A notification: its watchers are collected now, and called later.
ReceiveEvent ==
  /\ to_client # <<>>
  /\ LET evt == Head(to_client)
     IN /\ evt.xid = WATCHER_EVENT_XID
        /\ last_zxid' = NewLastZxid(evt)
        /\ active' = WithoutWatchers(evt.type, evt.path)
        /\ completions_to_process' = Append(completions_to_process,
             [xid |-> WATCHER_EVENT_XID, type |-> evt.type, path |-> evt.path, at |-> evt.at,
              watchers |-> collectWatchers(evt.type, evt.path)])
  /\ to_client' = Tail(to_client)
  /\ UNCHANGED <<connected, to_send, sent_requests, to_server, zxid, node,
                 server_watches, seen, reads, faults>>

\* The answer to SetWatches is dropped.
ReceiveSetWatches ==
  /\ to_client # <<>>
  /\ Head(to_client).xid = SET_WATCHES_XID
  /\ last_zxid' = NewLastZxid(Head(to_client))
  /\ to_client' = Tail(to_client)
  /\ UNCHANGED <<connected, active, to_send, sent_requests,
                 completions_to_process, to_server, zxid, node, server_watches,
                 seen, reads, faults>>

\* The reply to the oldest request: its watch is activated, and its completion
\* queued behind the events received before.
ReceiveReply ==
  /\ to_client # <<>>
  /\ sent_requests # <<>>
  /\ LET hdr == Head(to_client)
         cptr == Head(sent_requests)
     IN /\ hdr.xid = cptr.xid
        /\ last_zxid' = NewLastZxid(hdr)
        /\ active' = activateWatcher(cptr, hdr)
        /\ completions_to_process' = Append(completions_to_process,
             [xid |-> hdr.xid, rc |-> hdr.rc, req |-> cptr, zxid |-> hdr.zxid,
              val |-> hdr.val])
  /\ sent_requests' = Tail(sent_requests)
  /\ to_client' = Tail(to_client)
  /\ UNCHANGED <<connected, to_send, to_server, zxid, node, server_watches, seen,
                 reads, faults>>

-----------------------------------------------------------------------------
(* The completion thread: deliverWatchers, or the completion function of a *)
(* read, which shows the application what the node was.                    *)

Deliver ==
  /\ completions_to_process # <<>>
  /\ LET cptr == Head(completions_to_process)
     IN seen' = IF cptr.xid # WATCHER_EVENT_XID /\ cptr.rc # "ZCONNECTIONLOSS"
                  THEN [seen EXCEPT ![Aspect(cptr.req.kind)][cptr.req.path] =
                          [zxid |-> cptr.zxid, val |-> cptr.val]]
                  ELSE seen
  /\ completions_to_process' = Tail(completions_to_process)
  /\ UNCHANGED <<connected, last_zxid, active, to_send, sent_requests, to_server,
                 to_client, zxid, node, server_watches, reads, faults>>

-----------------------------------------------------------------------------
(* The server.                                                             *)

Event(type, p, at) ==
  [xid |-> WATCHER_EVENT_XID, zxid |-> -1, type |-> type, path |-> p, at |-> at]

\* A read is executed: the watch is left where the reply will activate it.
ServerRead ==
  /\ to_server # <<>>
  /\ LET req == Head(to_server)
         found == node[req.path].exists
         leaves == req.watcher # NoWatcher /\ (found \/ req.kind = "exists")
     IN /\ req.xid # SET_WATCHES_XID
        /\ to_client' = Append(to_client,
             [xid |-> req.xid, rc |-> IF found THEN "ZOK" ELSE "ZNONODE",
              zxid |-> zxid, val |-> Value(Aspect(req.kind), req.path)])
        /\ server_watches' = IF leaves
             THEN [server_watches EXCEPT ![Aspect(req.kind)] = @ \union {req.path}]
             ELSE server_watches
  /\ to_server' = Tail(to_server)
  /\ UNCHANGED <<connected, last_zxid, active, to_send, sent_requests,
                 completions_to_process, zxid, node, seen, reads, faults>>

\* SetWatches is executed: an event for every watch that was missed, the others
\* are left again.
MissedData(p, z) == ~node[p].exists \/ node[p].mzxid > z
MissedChild(p, z) == ~node[p].exists \/ node[p].pzxid > z

Missed(table, p, z) ==
  CASE table = "node" -> MissedData(p, z)
    [] table = "exist" -> node[p].exists
    [] table = "child" -> MissedChild(p, z)

MissedPaths(req, table) == {p \in req.watches[table] : Missed(table, p, req.relativeZxid)}

MissedEvent(table, p) ==
  CASE table = "exist" -> Event("CREATED", p, node[p].mzxid)
    [] ~node[p].exists -> Event("DELETED", p, node[p].mzxid)
    [] table = "node" -> Event("CHANGED", p, node[p].mzxid)
    [] table = "child" -> Event("CHILD", p, node[p].pzxid)

MissedEvents(req) ==
  UNION {{MissedEvent(t, p) : p \in MissedPaths(req, t)} : t \in Tables}

ServerSetWatches ==
  /\ to_server # <<>>
  /\ LET req == Head(to_server)
         left(t) == req.watches[t] \ MissedPaths(req, t)
     IN /\ req.xid = SET_WATCHES_XID
        /\ \E order \in SetToSeqs(MissedEvents(req)) :
             to_client' = to_client \o order \o <<[xid |-> SET_WATCHES_XID, zxid |-> zxid]>>
        /\ server_watches' = [server_watches EXCEPT
                                !["data"] = @ \union left("node") \union left("exist"),
                                !["children"] = @ \union left("child")]
  /\ to_server' = Tail(to_server)
  /\ UNCHANGED <<connected, last_zxid, active, to_send, sent_requests,
                 completions_to_process, zxid, node, seen, reads, faults>>

\* A node changes: the watches it concerns are taken, and one event is sent if
\* there was any.
Change(type, p) ==
  LET z == zxid + 1
      taken(k) == IF k = "data" THEN type # "CHILD" ELSE type \in {"CHILD", "DELETED"}
  IN /\ zxid <= MaxChanges
     /\ node[p].exists <=> type # "CREATED"
     /\ zxid' = z
     /\ node' = [node EXCEPT ![p] =
          [exists |-> type # "DELETED",
           mzxid |-> IF type = "CHILD" THEN @.mzxid ELSE z,
           pzxid |-> IF type = "CHANGED" THEN @.pzxid ELSE z]]
     /\ to_client' = IF \E k \in Aspects : taken(k) /\ p \in server_watches[k]
                       THEN Append(to_client, Event(type, p, z)) ELSE to_client
     /\ server_watches' = [k \in Aspects |->
                             IF taken(k) THEN server_watches[k] \ {p} ELSE server_watches[k]]
     /\ UNCHANGED <<connected, last_zxid, active, to_send, sent_requests,
                    completions_to_process, to_server, seen, reads, faults>>

-----------------------------------------------------------------------------

IoStep ==
  \/ SessionEstablished \/ SendPacket \/ ReceiveEvent \/ ReceiveSetWatches
  \/ ReceiveReply

ServerStep == ServerRead \/ ServerSetWatches

Next ==
  \/ \E kind \in Kinds, p \in Paths, w \in Watchers \union {NoWatcher} : Read(kind, p, w)
  \/ IoStep
  \/ ConnectionLost
  \/ Deliver
  \/ ServerStep
  \/ \E type \in EventTypes, p \in Paths : Change(type, p)

Spec == Init /\ [][Next]_vars

-----------------------------------------------------------------------------
(* Properties.                                                             *)

\* "If the client is ever disconnected from the service, the watches do not need
\* to be reset.  The client automatically resets the watches" (zookeeper.h): when
\* the client is connected and nothing is under way, a watch that is still in a
\* table of the handle was left on what the node is now.  No change is missed,
\* whenever the connection was lost.
Quiet == connected /\ to_send = <<>> /\ to_server = <<>> /\ to_client = <<>>
NoMissedChange ==
  Quiet => \A t \in Tables, p \in Paths : \A e \in active[t][p] :
             Value(e.aspect, p) = e.val

\* The application is called with the event before it sees the change: while a
\* watch is waiting to be called, every read completed since it was left has
\* returned what the node was when it was left.
Queued(p) ==
  {i \in DOMAIN completions_to_process :
     LET cptr == completions_to_process[i]
     IN cptr.xid = WATCHER_EVENT_XID /\ cptr.type # "SESSION" /\ cptr.path = p}
Uncalled(p) == (UNION {active[t][p] : t \in Tables})
                 \union (UNION {completions_to_process[i].watchers : i \in Queued(p)})
EventBeforeNewData ==
  \A p \in Paths : \A e \in Uncalled(p) :
     seen[e.aspect][p].zxid >= e.zxid => seen[e.aspect][p].val = e.val

\* A watcher is called for a change that came after the read that left the watch,
\* never for one that read has already shown: last_zxid tells the new server
\* what the client knows.
NoStaleEvent ==
  \A i \in DOMAIN completions_to_process :
     LET cptr == completions_to_process[i]
     IN (cptr.xid = WATCHER_EVENT_XID /\ cptr.type # "SESSION") =>
          \A e \in cptr.watchers : cptr.at > e.zxid
=============================================================================
