------------------------------ MODULE ZkMulti ------------------------------
(***************************************************************************)
(* Multi operations of the ZooKeeper client (zookeeper.c): zoo_amulti and  *)
(* zoo_multi, the paths of their operations under a chroot, the answer of  *)
(* the server, and a connection that is lost before it comes.              *)
(*                                                                         *)
(* One multi is followed from its call to the end.  Paths are sequences of *)
(* characters, because isValidPath and the chroot work on them; the data,  *)
(* versions and ACLs of the operations are left out.  The session may be   *)
(* lost or the handle closed at any step of the call.                      *)
(***************************************************************************)
EXTENDS Integers, Sequences, SequencesExt, FiniteSetsExt

CONSTANTS Chroot,      \* the path a handle may be rooted at
          Paths,       \* paths the application names
          Types,       \* types of operations, "other" is none the client knows
          BufLens,     \* lengths of the buffers for created paths
          MaxOps,      \* operations of the multi
          Nothing,     \* no answer, nothing told, a buffer that is not written
          NoValue,     \* NULL
          HeaderOnly   \* a reply that ends after its header

VARIABLES chroot,          \* zh->chroot, <<>> for NULL
          unrecoverable,   \* is_unrecoverable(zh)
          close_requested,
          mpc,             \* where the multi is
          sync,            \* zoo_multi, or zoo_amulti
          ops, multi_rc,   \* the operations so far, and rc of zoo_amulti
          marshalled,      \* the paths in the request
          badfree,         \* free was given what is not an allocated pointer
          clist,           \* operations whose entry waits for a result
          op_results,      \* the application's array of results
          executed,        \* what the server did: the results of the operations
          answer,          \* the reply the completion thread has to deserialize
          told             \* what the call returned or the completion was given

handleVars == <<chroot, unrecoverable, close_requested>>
requestVars == <<sync, ops, multi_rc, marshalled, badfree>>
multiVars == <<handleVars, mpc, requestVars, clist, op_results, executed, answer, told>>

Control == "^"         \* a character between 0x00 and 0x1f

ASSUME MultiAssumption ==
  /\ MaxOps \in Nat \ {0} /\ BufLens \subseteq Nat
  /\ Chroot \in Seq(STRING) /\ Len(Chroot) > 1 /\ Paths \subseteq Seq(STRING)
  /\ Types \subseteq {"create", "sequence", "delete", "set", "check", "other"}

-----------------------------------------------------------------------------
(* Paths *)

prepend_string(root, path) ==
  IF root = <<>> THEN path ELSE IF Len(path) = 1 THEN root ELSE root \o path

\* The client's name of a server path, as zoo_create and the watchers are given it.
sub_string(root, path) ==
  IF root = <<>> \/ ~IsPrefix(root, path) THEN path
  ELSE IF Len(path) = Len(root) THEN <<"/">> ELSE SubSeq(path, Len(root) + 1, Len(path))

\* sequential: flags has ZOO_SEQUENCE.  Positions count from 0, as in the code.
isValidPath(path, sequential) ==
  LET len       == Len(path)
      at(i)     == IF i < len THEN path[i + 1] ELSE "0"
      NameEnds(i) == (i + 1 = len /\ ~sequential) \/ at(i + 1) = "/"
      Allowed(i) ==
        LET c == at(i)  lastc == at(i - 1)
        IN  /\ ~(c = "/" /\ lastc = "/")
            /\ ~(c = "." /\ lastc = "." /\ at(i - 2) = "/" /\ NameEnds(i))
            /\ ~(c = "." /\ lastc = "/" /\ NameEnds(i))
            /\ c # Control
  IN  /\ len > 0 /\ at(0) = "/"
      /\ len > 1 => /\ at(len - 1) = "/" => sequential
                    /\ \A i \in 1..len - 1 : Allowed(i)

Request_path_init(root, lost, path, sequential) ==
  IF ~isValidPath(prepend_string(root, path), sequential) THEN "ZBADARGUMENTS"
  ELSE IF lost THEN "ZINVALIDSTATE" ELSE "ZOK"

-----------------------------------------------------------------------------
(* zoo_amulti *)

\* What zoo_create_op_init, zoo_delete_op_init, zoo_set_op_init and
\* zoo_check_op_init fill in.
Ops == [type : Types, path : Paths, buflen : BufLens]

Creates == {"create", "sequence"}

MultiInit ==
  /\ chroot \in {<<>>, Chroot} /\ unrecoverable = FALSE /\ close_requested = FALSE
  /\ mpc = "building" /\ sync \in BOOLEAN /\ ops = <<>> /\ multi_rc = "ZOK" /\ marshalled = <<>>
  /\ badfree = FALSE /\ clist = <<>> /\ op_results = <<>>
  /\ executed = Nothing /\ answer = Nothing /\ told = Nothing

\* req.path after CreateRequest_init, DeleteRequest_init, SetDataRequest_init or
\* CheckVersionRequest_init: Request_path_init frees what it prepended when it
\* fails, and once rc < 0 it is not called and req.path is indeterminate.
ReqPath(init) ==
  IF multi_rc # "ZOK" THEN "indeterminate"
  ELSE IF chroot = <<>> THEN "client's" ELSE IF init = "ZOK" THEN "allocated" ELSE "freed"

\* Whether free_duplicate_path may free a pointer it must not.
free_duplicate_path(pointer) ==
  CASE pointer = "indeterminate" -> BOOLEAN
    [] pointer = "freed" -> {TRUE}
    [] OTHER -> {FALSE}

\* What result->value and result->stat point to until the result comes.
Blank(op) == [err |-> Nothing, value |-> IF op.type \in Creates THEN Nothing ELSE NoValue,
              stat |-> IF op.type = "set" THEN Nothing ELSE NoValue]

\* One turn of the loop.
AddOp(op) ==
  /\ mpc = "building" /\ Len(ops) < MaxOps /\ op.type # "other"
  /\ LET init == Request_path_init(chroot, unrecoverable, op.path, op.type = "sequence")
     IN  /\ multi_rc' = IF multi_rc # "ZOK" THEN multi_rc ELSE init
         /\ marshalled' = IF multi_rc' # "ZOK" THEN marshalled
                          ELSE Append(marshalled, prepend_string(chroot, op.path))
         /\ \E bad \in free_duplicate_path(ReqPath(init)) : badfree' = (badfree \/ bad)
  /\ ops' = Append(ops, op)
  /\ op_results' = Append(op_results, Blank(op))
  /\ clist' = Append(clist, Len(ops) + 1)
  /\ UNCHANGED <<handleVars, mpc, sync, executed, answer, told>>

\* The default of the switch returns at once, with the entries and the buffer
\* still allocated.
Unimplemented(op) ==
  /\ mpc = "building" /\ Len(ops) < MaxOps /\ op.type = "other"
  /\ ops' = Append(ops, op) /\ mpc' = "returned" /\ told' = "ZUNIMPLEMENTED"
  /\ UNCHANGED <<handleVars, sync, multi_rc, marshalled, badfree, clist, op_results, executed, answer>>

\* After the loop: the entry of the multi takes clist into sent_requests, unless
\* the handle is being closed.  Every error is returned as ZMARSHALLINGERROR.
QueueMulti ==
  /\ mpc = "building"
  /\ multi_rc' = IF multi_rc = "ZOK" /\ close_requested THEN "ZINVALIDSTATE" ELSE multi_rc
  /\ IF multi_rc' = "ZOK" THEN mpc' = "queued" /\ UNCHANGED told
                    ELSE mpc' = "returned" /\ told' = "ZMARSHALLINGERROR"
  /\ UNCHANGED <<handleVars, sync, ops, marshalled, badfree, clist, op_results, executed, answer>>

-----------------------------------------------------------------------------
(* The answer *)

Result(type, err, path) == [type |-> type, err |-> err, path |-> path]

\* The server executes all of the operations, or refuses one of them and answers
\* the others with ZOK or ZRUNTIMEINCONSISTENCY, which deserialize_multi passes over.
\* The result of a sequential node is its path without the server's suffix: digits
\* that the client hands on and no property tells apart.
Committed == [i \in DOMAIN ops |-> Result(ops[i].type, "ZOK", marshalled[i])]
RefusedAt(k, codes) ==
  [i \in DOMAIN ops |-> Result("error", IF i = k THEN "ZNONODE" ELSE codes[i], <<>>)]

ServerExecutes ==
  /\ mpc = "queued" /\ executed = Nothing
  /\ \/ executed' = Committed
     \/ \E k \in DOMAIN ops, codes \in [DOMAIN ops -> {"ZOK", "ZRUNTIMEINCONSISTENCY"}] :
          executed' = RefusedAt(k, codes)
  /\ UNCHANGED <<handleVars, mpc, requestVars, clist, op_results, answer, told>>

op_result_string_completion(result, r, buflen) ==
  [result EXCEPT !.err = r.err,
                 !.value = IF r.type = "error" THEN NoValue
                           ELSE IF buflen = 0 THEN result.value
                           ELSE SubSeq(r.path, 1, Min({Len(r.path), buflen - 1}))]

op_result_void_completion(result, r) == [result EXCEPT !.err = r.err]

op_result_stat_completion(result, r) ==
  [result EXCEPT !.err = r.err, !.stat = IF r.type = "error" THEN NoValue ELSE "stat"]

Told(i, r) ==
  CASE ops[i].type \in Creates -> op_result_string_completion(op_results[i], r, ops[i].buflen)
    [] ops[i].type = "set" -> op_result_stat_completion(op_results[i], r)
    [] OTHER -> op_result_void_completion(op_results[i], r)

\* The operations that were only rolled back count too.
FirstError_RolledBack(results) ==
  LET errors == {i \in DOMAIN results : results[i].type = "error" /\ results[i].err # "ZOK"}
  IN  IF errors = {} THEN "ZOK" ELSE results[Min(errors)].err

FirstError(results) ==
  LET errors == {i \in DOMAIN results : /\ results[i].type = "error"
                                        /\ results[i].err \notin {"ZOK", "ZRUNTIMEINCONSISTENCY"}}
  IN  IF errors = {} THEN "ZOK" ELSE results[Min(errors)].err

\* The results go to the entries in order, and the last header ends them.
deserialize_multi(results) ==
  /\ op_results' = [j \in DOMAIN op_results |->
                      IF \E i \in DOMAIN results : clist[i] = j
                      THEN Told(j, results[CHOOSE i \in DOMAIN results : clist[i] = j])
                      ELSE op_results[j]]
  /\ clist' = SubSeq(clist, Len(results) + 1, Len(clist))
  /\ told' = FirstError(results) /\ mpc' = "done"

\* A faked reply has only its header.  Every read of the MultiHeader then fails and
\* leaves it as it was, not done and without an error: each entry is told of success,
\* with indeterminate data, until there is no entry for the assertion.
DeserializeNothing ==
  /\ op_results' = [j \in DOMAIN op_results |-> [op_results[j] EXCEPT !.err = "ZOK"]]
  /\ clist' = <<>> /\ mpc' = "aborted" /\ UNCHANGED told

\* The IO thread answers a zoo_multi itself, other replies go to the completion thread.
ReceiveMulti ==
  /\ mpc = "queued" /\ executed # Nothing
  /\ IF sync THEN deserialize_multi(executed) /\ UNCHANGED answer
             ELSE answer' = executed /\ mpc' = "received" /\ UNCHANGED <<clist, op_results, told>>
  /\ UNCHANGED <<handleVars, requestVars, executed>>

\* What handle_error and zookeeper_close pass to free_completions.
Reasons == {"ZCONNECTIONLOSS", "ZSESSIONEXPIRED", "ZCLOSING"}

\* free_completions: the multi that waits is answered with the reason.
FreeMulti(reason) ==
  IF sync
  THEN told' = reason /\ mpc' = "done" /\ UNCHANGED answer
  ELSE answer' = HeaderOnly /\ mpc' = "received" /\ UNCHANGED told

\* The connection is lost, the session expires, or another thread closes the handle.
LoseConnection(reason) ==
  /\ ~unrecoverable /\ ~close_requested
  /\ unrecoverable' = (reason = "ZSESSIONEXPIRED")
  /\ close_requested' = (reason = "ZCLOSING")
  /\ IF mpc = "queued" THEN FreeMulti(reason) ELSE UNCHANGED <<mpc, answer, told>>
  /\ UNCHANGED <<chroot, requestVars, clist, op_results, executed>>

\* process_completions on the completion thread.
CompleteMulti ==
  /\ mpc = "received"
  /\ IF answer = HeaderOnly THEN DeserializeNothing ELSE deserialize_multi(answer)
  /\ UNCHANGED <<handleVars, requestVars, executed, answer>>

MultiNext ==
  \/ \E op \in Ops : AddOp(op) \/ Unimplemented(op)
  \/ QueueMulti \/ ServerExecutes \/ ReceiveMulti \/ CompleteMulti
  \/ \E reason \in Reasons : LoseConnection(reason)

MultiSpec == MultiInit /\ [][MultiNext]_multiVars

-----------------------------------------------------------------------------
(* Properties *)

\* A path by the rules of the server: a name after each slash, neither "." nor "..",
\* and no control character.  The last name of a sequential node is completed by the
\* server, so it may be anything.
ValidPath(path, sequential) ==
  LET slashes == {i \in DOMAIN path : path[i] = "/"}
      End(s)  == Min({i \in slashes : i > s} \cup {Len(path) + 1})
      Name(s) == SubSeq(path, s + 1, End(s) - 1)
  IN  /\ 1 \in slashes /\ \A i \in DOMAIN path : path[i] # Control
      /\ path # <<"/">> =>
           \A s \in slashes : \/ sequential /\ End(s) > Len(path)
                             \/ Name(s) \notin {<<>>, <<".">>, <<".", ".">>}

Accepted == mpc \notin {"building", "returned"}

\* A multi that zoo_amulti accepts was sent whole: a valid path for each operation,
\* which under the chroot stands for the path the application named if that begins
\* with a slash, and no pointer was freed twice or by chance, however the session
\* changed during the call (isValidPath, prepend_string, zoo_amulti).  And if the
\* server's answer comes, rc is the error of the operation it refused, ZOK only for a
\* multi that was committed, and each operation has its own result, its created path
\* cut to its buffer (deserialize_multi).
AcceptedMultiWhole ==
  Accepted =>
    /\ Len(marshalled) = Len(ops) /\ ~badfree
    /\ \A i \in DOMAIN ops :
         /\ ValidPath(marshalled[i], ops[i].type = "sequence")
         /\ (ops[i].path # <<>> /\ ops[i].path[1] = "/") =>
              sub_string(chroot, marshalled[i]) = ops[i].path
    /\ (mpc = "done" /\ told \notin Reasons) =>
         /\ told = IF executed = Committed THEN "ZOK" ELSE "ZNONODE"
         /\ \A i \in DOMAIN ops :
              /\ op_results[i].err = executed[i].err
              /\ (ops[i].type \in Creates /\ told = "ZOK" /\ ops[i].buflen > 0) =>
                   /\ IsPrefix(op_results[i].value, marshalled[i])
                   /\ Len(op_results[i].value) = Min({Len(marshalled[i]), ops[i].buflen - 1})

\* assert(entry) in deserialize_multi (zookeeper.c:1965): whenever the reply of a
\* multi is deserialized there is an entry for each result that is read.
EntryForEachResult == ops # <<>> => mpc # "aborted"
=============================================================================
