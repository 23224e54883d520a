------------------------------- MODULE ZkAuth -------------------------------
(***************************************************************************)
(* Authentication in the ZooKeeper client (zookeeper.c): zoo_add_auth and  *)
(* the list of credentials, the packets that carry them, which go to the   *)
(* front of to_send, their replies, and what a lost connection, refused    *)
(* credentials or an expired session do.  The handle stays open.           *)
(*                                                                         *)
(* Each credential is given by one call of zoo_add_auth, on a thread of    *)
(* its own; ordinary requests share to_send with the auth packets.  A      *)
(* packet goes to the socket in Parts pieces, since a send may take only   *)
(* some of its bytes.  The IO thread is the only one that connects, sends, *)
(* receives and calls completions.  The server is external.                *)
(***************************************************************************)
EXTENDS Integers, Sequences, SequencesExt

CONSTANTS Auths,       \* credentials, one call of zoo_add_auth each
          Requests,    \* other requests, one call each
          SetWatches,  \* the SetWatches packet of a new connection
          Parts,       \* pieces a packet may be sent in
          MaxFaults    \* connections that may be lost

VARIABLES state,       \* zh->state
          auth_h,      \* the credentials, in the order they were added
          pending,     \* credentials whose completion is still to be called
          to_send,     \* packets, the head possibly sent in part
          apc,         \* by credential: where its zoo_add_auth is
          rpc,         \* by request: queued or not
          results,     \* by credential: what its completion was called with
          wire,        \* pieces on the connection that the server has not read
          replies,     \* auth replies that the client has not read
          granted,     \* credentials the server has ever accepted
          served,      \* what the server has read on this connection
          required,    \* credentials known when this connection was established
          overtaken,   \* an auth packet was put in front of a partly sent one
          faults

authVars == <<state, auth_h, pending, to_send, apc, rpc, results, wire, replies,
              granted, served, required, overtaken, faults>>

States == {"0", "CONNECTING", "ASSOCIATING", "CONNECTED", "AUTH_FAILED", "EXPIRED_SESSION"}
Packets == Auths \cup Requests \cup {SetWatches}

ASSUME AuthAssumption ==
  /\ Parts \in Nat \ {0} /\ MaxFaults \in Nat
  /\ Auths \cap Requests = {} /\ SetWatches \notin Auths \cup Requests

\* is_unrecoverable: the states in which do_io ends.
is_unrecoverable == state \in {"AUTH_FAILED", "EXPIRED_SESSION"}

Packet(id) == [id |-> id, curr_offset |-> 0]

AuthInit ==
  /\ state = "0" /\ auth_h = <<>> /\ pending = {} /\ to_send = <<>>
  /\ apc = [a \in Auths |-> "new"] /\ rpc = [r \in Requests |-> "new"]
  /\ results = [a \in Auths |-> <<>>]
  /\ wire = <<>> /\ replies = <<>> /\ granted = {} /\ served = {} /\ required = {}
  /\ overtaken = FALSE /\ faults = 0

-----------------------------------------------------------------------------
(* zoo_add_auth *)

environment == <<wire, replies, granted, served, required, faults>>

CheckState(a) ==
  /\ apc[a] = "new"
  /\ apc' = [apc EXCEPT ![a] = IF is_unrecoverable \/ state = "0" THEN "refused" ELSE "add"]
  /\ UNCHANGED <<state, auth_h, pending, to_send, rpc, results, overtaken, environment>>

\* The credential joins the list, also one whose call tested the state long ago.
AddLast(a) ==
  /\ apc[a] = "add"
  /\ auth_h' = Append(auth_h, a)
  /\ pending' = pending \cup {a}
  /\ apc' = [apc EXCEPT ![a] = "test"]
  /\ UNCHANGED <<state, to_send, rpc, results, overtaken, environment>>

TestConnected(a) ==
  /\ apc[a] = "test"
  /\ apc' = [apc EXCEPT ![a] = IF state \in {"CONNECTED", "ASSOCIATING"} THEN "send" ELSE "done"]
  /\ UNCHANGED <<state, auth_h, pending, to_send, rpc, results, overtaken, environment>>

PartlySent(q) == q # <<>> /\ Head(q).curr_offset > 0

\* The packets go behind the others.
send_info_packet_Back(auths, q) == q \o [i \in DOMAIN auths |-> Packet(auths[i])]

\* send_info_packet puts a packet at the head of to_send; called for some credentials
\* one after the other, it leaves the last one first.
send_info_packet(auths, q) == [i \in DOMAIN auths |-> Packet(Reverse(auths)[i])] \o q

\* send_last_auth_info sends the last credential of the list, which need not be
\* the one that this call added.
SendLast(a) ==
  /\ apc[a] = "send"
  /\ to_send' = send_info_packet(<<Last(auth_h)>>, to_send)
  /\ overtaken' = (overtaken \/ PartlySent(to_send))
  /\ apc' = [apc EXCEPT ![a] = "done"]
  /\ UNCHANGED <<state, auth_h, pending, rpc, results, environment>>

zoo_add_auth(a) == CheckState(a) \/ AddLast(a) \/ TestConnected(a) \/ SendLast(a)

QueueRequest(r) ==
  /\ rpc[r] = "new" /\ ~is_unrecoverable
  /\ rpc' = [rpc EXCEPT ![r] = "queued"]
  /\ to_send' = Append(to_send, Packet(r))
  /\ UNCHANGED <<state, auth_h, pending, apc, results, overtaken, environment>>

-----------------------------------------------------------------------------
(* The IO thread *)

Connect ==
  /\ state \in {"0", "CONNECTING"}
  /\ state' = IF state = "0" THEN "CONNECTING" ELSE "ASSOCIATING"
  /\ UNCHANGED <<auth_h, pending, to_send, apc, rpc, results, overtaken, environment>>

send_set_watches(q) == <<Packet(SetWatches)>> \o q

\* Credentials are not sent again on a new connection.
send_auth_info_None(q) == q

\* send_auth_info pushes every credential to the front, one after the other.
send_auth_info(q) == send_info_packet(auth_h, q)

SessionEstablished ==
  /\ state = "ASSOCIATING"
  /\ state' = "CONNECTED"
  /\ to_send' = send_auth_info(send_set_watches(to_send))
  /\ required' = Range(auth_h)
  /\ UNCHANGED <<auth_h, pending, apc, rpc, results, overtaken,
                 wire, replies, granted, served, faults>>

\* A packet sent in part starts again.
Unsent_Restarts(q) == IF Head(q).curr_offset + 1 = Parts THEN Tail(q) ELSE q

\* One send of flush_send_queue; the head leaves the queue when it is all sent.
Unsent(q) ==
  IF Head(q).curr_offset + 1 = Parts THEN Tail(q)
  ELSE [q EXCEPT ![1].curr_offset = @ + 1]

FlushSendQueue ==
  /\ state = "CONNECTED" /\ to_send # <<>>
  /\ wire' = Append(wire, [id |-> Head(to_send).id, part |-> Head(to_send).curr_offset + 1])
  /\ to_send' = Unsent(to_send)
  /\ UNCHANGED <<state, auth_h, pending, apc, rpc, results, replies, granted, served,
                 required, overtaken, faults>>

\* get_auth_completions empties the list of completions, and each is called.
CallCompletions(rc) ==
  /\ results' = [a \in Auths |-> IF a \in pending THEN Append(results[a], rc) ELSE results[a]]
  /\ pending' = {}

\* handle_error closes the socket and empties to_send.
Disconnect(newState) ==
  /\ state' = newState
  /\ to_send' = <<>> /\ overtaken' = FALSE
  /\ wire' = <<>> /\ replies' = <<>> /\ served' = {} /\ required' = {}

ConnectionLost ==
  /\ state \in {"CONNECTING", "ASSOCIATING", "CONNECTED"}
  /\ faults < MaxFaults
  /\ faults' = faults + 1
  /\ CallCompletions("ZCONNECTIONLOSS")
  /\ Disconnect("0")
  /\ UNCHANGED <<auth_h, apc, rpc, granted>>

\* auth_completion_func with success: the reply completes every pending call.
AuthSucceeded ==
  /\ state = "CONNECTED" /\ replies # <<>> /\ Head(replies) = "ok"
  /\ replies' = Tail(replies)
  /\ CallCompletions("ZOK")
  /\ UNCHANGED <<state, auth_h, to_send, apc, rpc, wire, granted, served, required,
                 overtaken, faults>>

\* The error code of the reply is not passed on.
AuthFailed_Unchecked ==
  /\ state = "CONNECTED" /\ replies # <<>> /\ Head(replies) = "failed"
  /\ CallCompletions("ZOK")
  /\ Disconnect("AUTH_FAILED")
  /\ UNCHANGED <<auth_h, apc, rpc, granted, faults>>

AuthFailed ==
  /\ state = "CONNECTED" /\ replies # <<>> /\ Head(replies) = "failed"
  /\ CallCompletions("ZAUTHFAILED")
  /\ Disconnect("AUTH_FAILED")
  /\ UNCHANGED <<auth_h, apc, rpc, granted, faults>>

\* The server's answer to the handshake names another session.
SessionExpired ==
  /\ state = "ASSOCIATING"
  /\ CallCompletions("ZSESSIONEXPIRED")
  /\ Disconnect("EXPIRED_SESSION")
  /\ UNCHANGED <<auth_h, apc, rpc, granted, faults>>

do_io ==
  \/ Connect \/ SessionEstablished \/ SessionExpired
  \/ FlushSendQueue \/ AuthSucceeded \/ AuthFailed

-----------------------------------------------------------------------------
(* The server *)

\* The first Parts pieces are those of one packet, in order.
WholePacket == /\ Len(wire) >= Parts
               /\ \A i \in 1..Parts : wire[i] = [id |-> wire[1].id, part |-> i]

ServerReads(verdict) ==
  /\ WholePacket
  /\ LET id == wire[1].id
     IN  /\ served' = served \cup {id}
         /\ replies' = IF id \in Auths THEN Append(replies, verdict) ELSE replies
         /\ granted' = IF id \in Auths /\ verdict = "ok" THEN granted \cup {id} ELSE granted
         /\ id \notin Auths => verdict = "ok"
  /\ wire' = SubSeq(wire, Parts + 1, Len(wire))
  /\ UNCHANGED <<state, auth_h, pending, to_send, apc, rpc, results, required, overtaken, faults>>

\* Pieces of two packets in one another: the server gives the connection up.
ServerGivesUp ==
  /\ state = "CONNECTED" /\ Len(wire) >= Parts /\ ~WholePacket
  /\ CallCompletions("ZCONNECTIONLOSS")
  /\ Disconnect("0")
  /\ UNCHANGED <<auth_h, apc, rpc, granted, faults>>

AuthNext ==
  \/ \E a \in Auths : zoo_add_auth(a)
  \/ \E r \in Requests : QueueRequest(r)
  \/ do_io \/ ConnectionLost
  \/ \E v \in {"ok", "failed"} : ServerReads(v)
  \/ ServerGivesUp

AuthSpec == AuthInit /\ [][AuthNext]_authVars

-----------------------------------------------------------------------------
(* Properties *)

\* What completions are told: each is called at most once; ZOK only when the server
\* accepted a credential of this handle, though one reply completes all calls that
\* wait and so a call whose own packet was not answered (auth_completion_func);
\* ZAUTHFAILED or ZSESSIONEXPIRED only when the handle was given up for it.
AuthResultsTrue ==
  /\ \A a \in Auths : Len(results[a]) <= 1
  /\ \A a \in Range(auth_h) \cap pending : results[a] = <<>>
  /\ (\E a \in Auths : results[a] = <<"ZOK">>) => granted # {}
  /\ (\E a \in Auths : results[a] = <<"ZAUTHFAILED">>) => state = "AUTH_FAILED"
  /\ (\E a \in Auths : results[a] = <<"ZSESSIONEXPIRED">>) => state = "EXPIRED_SESSION"

\* On every connection the server has the credentials that were known when it was
\* established before it reads a request or SetWatches, so that requests queued
\* while the client was not connected are not refused for want of them.
AuthBeforeRequests ==
  served \ Auths # {} => required \subseteq served

\* The pieces of each packet follow one another on the connection, unless
\* zoo_add_auth put its packet in front of one that was sent in part: that is the
\* only way to garble the stream.
WholeUnlessOvertaken ==
  ~overtaken =>
    \A i \in 1..Len(wire) - 1 :
      \/ wire[i].part = Parts /\ wire[i + 1].part = 1
      \/ wire[i + 1] = [id |-> wire[i].id, part |-> wire[i].part + 1]

\* A credential that is in the list while the session can be recovered has its
\* completion called, whichever packets the calls sent and however connections are
\* lost, also when authentication fails or the session expires.  The one call that
\* waits for ever is the one that tested the state in time and joined the list
\* after the IO thread had called the completions and ended: zoo_add_auth tests the
\* state before it takes the lock of the list.
AuthCompleted ==
  \A a \in Auths : (a \in pending /\ ~is_unrecoverable) ~> Len(results[a]) = 1
=============================================================================
