-------------------------- MODULE Libraries_proof --------------------------
(***************************************************************************)
(* Proofs about the parts of the program that run without concurrency: the *)
(* multi operations of the ZooKeeper client, for any paths, chroot and     *)
(* number of operations, and the memory pool, for any sizes and any walk   *)
(* of its owner.                                                           *)
(***************************************************************************)
EXTENDS ZkMulti, Pool, NatLemmas

-----------------------------------------------------------------------------
(* Multi operations: paths *)

\* A path that isValidPath accepts is a path by the rules of the server: its
\* look behind each character finds every name that is empty, "." or "..".
LEMMA AcceptedPathsAreValid ==
  ASSUME NEW p \in Seq(STRING), NEW sequential \in BOOLEAN, isValidPath(p, sequential)
  PROVE  ValidPath(p, sequential)
<1> DEFINE len         == Len(p)
           at          == [i \in Int |-> IF i < len THEN p[i + 1] ELSE "0"]
           NameEnds(i) == (i + 1 = len /\ ~sequential) \/ at[i + 1] = "/"
           slashes     == {i \in DOMAIN p : p[i] = "/"}
           End(s)      == Min({i \in slashes : i > s} \cup {Len(p) + 1})
           Name(s)     == SubSeq(p, s + 1, End(s) - 1)
<1>1. /\ len > 0 /\ at[0] = "/"
      /\ len > 1 => (at[len - 1] = "/" => sequential)
  BY DEF isValidPath
<1>2. len \in Nat /\ DOMAIN p = 1..len /\ p[1] = "/"
  BY <1>1
<1>3. \A i \in 0..len - 1 : at[i] = p[i + 1]
  BY <1>2
<1>7. ASSUME NEW i \in 1..len - 1
      PROVE  /\ ~(at[i] = "/" /\ at[i - 1] = "/")
             /\ ~(at[i] = "." /\ at[i - 1] = "." /\ at[i - 2] = "/" /\ NameEnds(i))
             /\ ~(at[i] = "." /\ at[i - 1] = "/" /\ NameEnds(i))
             /\ at[i] # Control
  <2>1. len > 1 /\ i \in Int /\ i - 1 \in Int /\ i - 2 \in Int /\ i + 1 \in Int
    BY <1>2, <1>7
  <2>2. ~(at[i] = "/" /\ at[i - 1] = "/")
    BY <1>7, <2>1 DEF isValidPath
  <2>3. ~(at[i] = "." /\ at[i - 1] = "." /\ at[i - 2] = "/" /\ NameEnds(i))
    BY <1>7, <2>1 DEF isValidPath
  <2>4. ~(at[i] = "." /\ at[i - 1] = "/" /\ NameEnds(i))
    BY <1>7, <2>1 DEF isValidPath
  <2>5. at[i] # Control
    BY <1>7, <2>1 DEF isValidPath
  <2> QED
    BY <2>2, <2>3, <2>4, <2>5
<1> HIDE DEF at
<1>4. 1 \in slashes
  BY <1>1, <1>2
<1>5. ASSUME NEW i \in DOMAIN p PROVE p[i] # Control
  <2>1. CASE i = 1
    BY <1>2, <2>1 DEF Control
  <2>2. CASE i # 1
    <3>1. i - 1 \in 1..len - 1
      BY <1>2, <2>2
    <3>2. at[i - 1] # Control
      BY <1>7, <3>1
    <3> QED
      BY <1>2, <1>3, <3>1, <3>2
  <2> QED
    BY <2>1, <2>2
<1>6. ASSUME p # <<"/">>, NEW s \in slashes, ~(sequential /\ End(s) > Len(p)),
             Name(s) \in {<<>>, <<".">>, <<".", ".">>}
      PROVE  FALSE
  <2>1. len > 1
    BY <1>1, <1>2, <1>6
  <2>2. s \in 1..len /\ p[s] = "/"
    BY <1>2
  <2> DEFINE later == {i \in slashes : i > s} \cup {len + 1}
             e     == End(s)
             name  == Name(s)
  <2>3. e \in later
    <3>1. later \in SUBSET Nat /\ later # {}
      BY <1>2
    <3> QED
      BY <3>1, MinFacts
  <2>4. e \in s + 1..len + 1 /\ (e = len + 1 => ~sequential) /\ (e # len + 1 => p[e] = "/")
    BY <1>2, <1>6, <2>2, <2>3
  <2>5. Len(name) = e - s - 1 /\ \A j \in 1..e - s - 1 : name[j] = p[s + j]
    <3> HIDE DEF e
    <3>1. \A n \in s + 1..len + 1 :
            /\ Len(SubSeq(p, s + 1, n - 1)) = n - s - 1
            /\ \A j \in 1..n - s - 1 : SubSeq(p, s + 1, n - 1)[j] = p[s + j]
      BY <1>2, <2>2, SMTT(20)
    <3> QED
      BY <2>4, <3>1 DEF e
  <2>9. name \in {<<>>, <<".">>, <<".", ".">>}
    BY <1>6
  <2> HIDE DEF e, name
  <2>6. CASE name = <<>>
    <3>1. e = s + 1
      BY <1>2, <2>2, <2>4, <2>5, <2>6
    <3>2. CASE s = len
      BY <1>1, <1>2, <1>3, <2>1, <2>2, <2>4, <3>1, <3>2
    <3>3. CASE s < len
      <4>1. s \in 1..len - 1 /\ at[s] = "/" /\ at[s - 1] = "/"
        BY <1>2, <1>3, <2>2, <2>4, <3>1, <3>3
      <4> QED
        BY <1>7, <4>1
    <3> QED
      BY <1>2, <2>2, <3>2, <3>3
  <2>7. CASE name = <<".">>
    <3>1. e = s + 2 /\ p[s + 1] = "." /\ s \in 1..len - 1
      <4>1. Len(name) = 1 /\ name[1] = "."
        BY <2>7
      <4>2. e = s + 2 /\ s \in 1..len - 1
        <5>1. Len(name) = e - s - 1
          BY <2>5
        <5>2. e \in Int /\ e <= len + 1
          BY <1>2, <2>2, <2>4
        <5>3. e - s - 1 = 1
          BY ONLY <4>1, <5>1
        <5>4. s \in Int /\ s >= 1 /\ len \in Int
          BY <1>2, <2>2
        <5> HIDE DEF len
        <5> QED
          BY ONLY <5>2, <5>3, <5>4
      <4>3. 1 \in 1..e - s - 1
        BY <1>2, <4>2
      <4> QED
        BY <2>5, <4>1, <4>2, <4>3
    <3>2. at[s] = "." /\ at[s - 1] = "/"
      BY <1>2, <1>3, <2>2, <3>1
    <3>3. NameEnds(s)
      BY <1>2, <1>3, <2>4, <3>1
    <3> QED
      BY <1>7, <3>1, <3>2, <3>3
  <2>8. CASE name = <<".", ".">>
    <3>1. e = s + 3 /\ p[s + 1] = "." /\ p[s + 2] = "." /\ s + 1 \in 1..len - 1
      <4>1. Len(name) = 2 /\ name[1] = "." /\ name[2] = "."
        BY <2>8
      <4>2. e = s + 3 /\ s + 1 \in 1..len - 1
        <5>1. Len(name) = e - s - 1
          BY <2>5
        <5>2. e \in Int /\ e <= len + 1
          BY <1>2, <2>2, <2>4
        <5>3. e - s - 1 = 2
          BY ONLY <4>1, <5>1
        <5>4. s \in Int /\ s >= 1 /\ len \in Int
          BY <1>2, <2>2
        <5> HIDE DEF len
        <5> QED
          BY ONLY <5>2, <5>3, <5>4
      <4>3. 1 \in 1..e - s - 1 /\ 2 \in 1..e - s - 1
        BY <1>2, <4>2
      <4> QED
        BY <2>5, <4>1, <4>2, <4>3
    <3>2. at[s + 1] = "." /\ at[(s + 1) - 1] = "." /\ at[(s + 1) - 2] = "/"
      BY <1>2, <1>3, <2>2, <3>1
    <3>3. NameEnds(s + 1)
      BY <1>2, <1>3, <2>4, <3>1
    <3> QED
      BY <1>7, <3>1, <3>2, <3>3
  <2> QED
    BY <2>9, <2>6, <2>7, <2>8
<1> QED
  BY <1>4, <1>5, <1>6 DEF ValidPath

\* The watchers and the results of the client are given the path back that the
\* application named: sub_string undoes prepend_string.
LEMMA SubStringUndoesPrepend ==
  ASSUME NEW root \in Seq(STRING), NEW path \in Seq(STRING), path # <<>>, path[1] = "/"
  PROVE  sub_string(root, prepend_string(root, path)) = path
<1>1. CASE root = <<>>
  BY <1>1 DEF sub_string, prepend_string
<1>2. CASE root # <<>> /\ Len(path) = 1
  <2>1. path = <<"/">>
    BY <1>2
  <2>2. IsPrefix(root, root)
    BY DEF IsPrefix
  <2> QED
    BY <1>2, <2>1, <2>2 DEF sub_string, prepend_string
<1>3. CASE root # <<>> /\ Len(path) # 1
  <2> DEFINE q == root \o path
  <2>1. Len(path) # 0 /\ Len(root) # 0
    BY <1>3
  <2>2. q \in Seq(STRING) /\ Len(q) = Len(root) + Len(path)
    OBVIOUS
  <2>3. IsPrefix(root, q)
    BY <2>2 DEF IsPrefix
  <2>4. SubSeq(q, Len(root) + 1, Len(q)) = path
    BY <2>2
  <2> QED
    BY <1>3, <2>1, <2>2, <2>3, <2>4 DEF sub_string, prepend_string
<1> QED
  BY <1>1, <1>2, <1>3

-----------------------------------------------------------------------------
(* Multi operations: the inductive invariant *)

\* The request is whole as long as rc of zoo_amulti is ZOK.
SentWhole ==
  /\ Len(marshalled) = Len(ops) /\ badfree = FALSE
  /\ \A i \in 1..Len(ops) :
       /\ marshalled[i] = prepend_string(chroot, ops[i].path)
       /\ isValidPath(marshalled[i], ops[i].type = "sequence")

\* One entry and one blank result for each operation.
Prepared ==
  /\ clist = [i \in 1..Len(ops) |-> i]
  /\ op_results = [i \in 1..Len(ops) |-> Blank(ops[i])]

\* What the server can have done with the operations.
Codes == [DOMAIN ops -> {"ZOK", "ZRUNTIMEINCONSISTENCY"}]

ServerAnswered ==
  executed = Committed \/ \E k \in DOMAIN ops, codes \in Codes : executed = RefusedAt(k, codes)

\* rc and the results are those of the server's answer.
ToldAsAnswered ==
  /\ told = IF executed = Committed THEN "ZOK" ELSE "ZNONODE"
  /\ \A i \in DOMAIN ops :
       /\ op_results[i].err = executed[i].err
       /\ (ops[i].type \in Creates /\ told = "ZOK" /\ ops[i].buflen > 0) =>
            /\ IsPrefix(op_results[i].value, marshalled[i])
            /\ Len(op_results[i].value) = Min({Len(marshalled[i]), ops[i].buflen - 1})

MultiInv ==
  /\ chroot \in {<<>>, Chroot}
  /\ ops \in Seq(Ops) /\ marshalled \in Seq(Seq(STRING))
  /\ mpc \in {"building", "returned", "queued", "received", "done", "aborted"}
  /\ mpc # "returned" => \A i \in 1..Len(ops) : ops[i].type # "other"
  /\ Accepted \/ (mpc = "building" /\ multi_rc = "ZOK") => SentWhole
  /\ mpc \in {"building", "queued", "received"} => Prepared
  /\ ~Accepted => executed = Nothing
  /\ executed = Nothing \/ ServerAnswered
  /\ mpc = "received" => answer = HeaderOnly \/ (answer = executed /\ executed # Nothing)
  /\ mpc = "done" => told \in Reasons \/ ToldAsAnswered

LEMMA PrependType ==
  ASSUME NEW root \in Seq(STRING), NEW path \in Seq(STRING)
  PROVE  prepend_string(root, path) \in Seq(STRING)
<1>1. root \o path \in Seq(STRING)
  OBVIOUS
<1> QED
  BY <1>1 DEF prepend_string

LEMMA OpFacts ==
  ASSUME MultiInv, NEW i \in 1..Len(ops)
  PROVE  /\ ops[i] \in Ops /\ ops[i].path \in Seq(STRING) /\ chroot \in Seq(STRING)
         /\ ops[i].buflen \in Nat
         /\ (mpc # "returned" => ops[i].type # "error")
<1>1. ops[i] \in Ops
  BY DEF MultiInv
<1>2. ops[i].type \in Types /\ ops[i].path \in Paths /\ ops[i].buflen \in BufLens
  BY <1>1 DEF Ops
<1>3. chroot \in Seq(STRING)
  <2>1. <<>> \in Seq(STRING)
    OBVIOUS
  <2> QED
    BY <2>1, MultiAssumption DEF MultiInv
<1> QED
  BY <1>1, <1>2, <1>3, MultiAssumption

\* rc is the error of the operation that the server refused.
LEMMA FirstErrorOfAnswer ==
  ASSUME MultiInv, ServerAnswered, mpc # "returned"
  PROVE  FirstError(executed) = IF executed = Committed THEN "ZOK" ELSE "ZNONODE"
<1> DEFINE errors == {i \in DOMAIN executed :
                        /\ executed[i].type = "error"
                        /\ executed[i].err \notin {"ZOK", "ZRUNTIMEINCONSISTENCY"}}
<1>1. CASE executed = Committed
  <2>1. \A i \in DOMAIN executed : executed[i].type = ops[i].type
    BY <1>1 DEF Committed, Result
  <2>2. DOMAIN executed = DOMAIN ops
    BY <1>1 DEF Committed
  <2>3. DOMAIN ops = 1..Len(ops)
    BY DEF MultiInv
  <2>4. errors = {}
    BY <2>1, <2>2, <2>3, OpFacts
  <2> QED
    BY <1>1, <2>4 DEF FirstError
<1>2. CASE executed # Committed
  <2>1. PICK k \in DOMAIN ops, codes \in Codes : executed = RefusedAt(k, codes)
    BY <1>2 DEF ServerAnswered
  <2>2. DOMAIN executed = DOMAIN ops
    BY <2>1 DEF RefusedAt
  <2>3. \A i \in DOMAIN ops :
          executed[i].type = "error" /\ executed[i].err = IF i = k THEN "ZNONODE" ELSE codes[i]
    BY <2>1 DEF RefusedAt, Result
  <2>4. \A i \in DOMAIN ops : codes[i] \in {"ZOK", "ZRUNTIMEINCONSISTENCY"}
    BY DEF Codes
  <2>5. errors = {k}
    BY <2>2, <2>3, <2>4
  <2>6. k \in Nat
    BY DEF MultiInv
  <2>7. Min({k}) = k
    BY <2>6, MinFacts
  <2>8. executed[Min(errors)].err = "ZNONODE"
    BY <2>3, <2>5, <2>7
  <2> HIDE DEF errors
  <2>9. FirstError(executed) = IF errors = {} THEN "ZOK" ELSE executed[Min(errors)].err
    BY DEF FirstError, errors
  <2> QED
    BY <1>2, <2>5, <2>8, <2>9
<1> QED
  BY <1>1, <1>2

\* Entry i is the entry of result i.
LEMMA EntriesInOrder ==
  ASSUME MultiInv, Prepared, ServerAnswered, NEW j \in 1..Len(ops)
  PROVE  /\ j \in DOMAIN op_results /\ op_results[j] = Blank(ops[j])
         /\ \E i \in DOMAIN executed : clist[i] = j
         /\ (CHOOSE i \in DOMAIN executed : clist[i] = j) = j
<1>1. DOMAIN executed = 1..Len(ops)
  BY DEF MultiInv, ServerAnswered, Committed, RefusedAt
<1>2. \A i \in DOMAIN executed : clist[i] = i
  BY <1>1 DEF Prepared
<1>3. j \in DOMAIN op_results /\ op_results[j] = Blank(ops[j])
  BY DEF Prepared
<1> QED
  BY <1>1, <1>2, <1>3

\* deserialize_multi gives each operation its own result.
LEMMA DeserializeAnswer ==
  ASSUME MultiInv, Prepared, SentWhole, ServerAnswered, mpc # "returned",
         deserialize_multi(executed), ops' = ops, marshalled' = marshalled, executed' = executed
  PROVE  ToldAsAnswered'
<1>1. Committed' = Committed
  BY DEF Committed
<1>2. told' = IF executed = Committed THEN "ZOK" ELSE "ZNONODE"
  BY FirstErrorOfAnswer DEF deserialize_multi
<1>3. DOMAIN ops = 1..Len(ops)
  BY DEF MultiInv
<1>4. ASSUME NEW i \in 1..Len(ops)
      PROVE  op_results'[i] = Told(i, executed[i])
  BY EntriesInOrder DEF deserialize_multi
<1>5. ASSUME NEW i \in 1..Len(ops)
      PROVE  op_results'[i].err = executed[i].err
  <2>1. op_results[i] = Blank(ops[i])
    BY EntriesInOrder
  <2> QED
    BY <1>4, <2>1 DEF Told, Blank, op_result_string_completion, op_result_void_completion,
                      op_result_stat_completion
<1>6. ASSUME NEW i \in 1..Len(ops), ops[i].type \in Creates, told' = "ZOK", ops[i].buflen > 0
      PROVE  /\ IsPrefix(op_results'[i].value, marshalled[i])
             /\ Len(op_results'[i].value) = Min({Len(marshalled[i]), ops[i].buflen - 1})
  <2> DEFINE n == Min({Len(marshalled[i]), ops[i].buflen - 1})
  <2>1. executed = Committed
    BY <1>2, <1>6
  <2>2. executed[i] = Result(ops[i].type, "ZOK", marshalled[i])
    BY <1>3, <2>1 DEF Committed
  <2>3. executed[i].type # "error" /\ executed[i].path = marshalled[i]
    BY <1>6, <2>2 DEF Result, Creates
  <2>4. op_results[i] = Blank(ops[i])
    BY EntriesInOrder
  <2>5. op_results'[i].value = SubSeq(marshalled[i], 1, n)
    <3>1. op_results'[i] = op_result_string_completion(op_results[i], executed[i], ops[i].buflen)
      BY <1>4, <1>6 DEF Told, Creates
    <3>2. ops[i].buflen # 0
      BY <1>6
    <3> HIDE DEF n
    <3> QED
      BY <2>3, <2>4, <3>1, <3>2 DEF op_result_string_completion, Blank, n
  <2>6. marshalled[i] \in Seq(STRING)
    BY DEF MultiInv, SentWhole
  <2>7. n \in 0..Len(marshalled[i])
    <3>1. ops[i].buflen \in Nat
      BY OpFacts
    <3>2. {Len(marshalled[i]), ops[i].buflen - 1} \in SUBSET Nat
      BY <1>6, <2>6, <3>1
    <3>3. n \in Nat /\ n <= Len(marshalled[i])
      BY <3>2, MinFacts
    <3> QED
      BY <2>6, <3>3
  <2> HIDE DEF n
  <2>8. Len(SubSeq(marshalled[i], 1, n)) = n /\ IsPrefix(SubSeq(marshalled[i], 1, n), marshalled[i])
    BY <2>6, <2>7 DEF IsPrefix
  <2> QED
    BY <2>5, <2>8 DEF n
<1> QED
  BY <1>1, <1>2, <1>3, <1>5, <1>6 DEF ToldAsAnswered

-----------------------------------------------------------------------------
(* Multi operations: the invariant holds in every state *)

LEMMA MultiInitInv == MultiInit => MultiInv
<1> SUFFICES ASSUME MultiInit PROVE MultiInv
  OBVIOUS
<1>1. SentWhole
  BY DEF MultiInit, SentWhole
<1>2. Prepared
  BY DEF MultiInit, Prepared
<1>3. ops \in Seq(Ops) /\ marshalled \in Seq(Seq(STRING))
  BY DEF MultiInit
<1> QED
  BY <1>1, <1>2, <1>3 DEF MultiInit, MultiInv, Accepted

LEMMA AddOpInv ==
  ASSUME MultiInv, NEW op \in Ops, AddOp(op)
  PROVE  MultiInv'
<1> DEFINE init == Request_path_init(chroot, unrecoverable, op.path, op.type = "sequence")
           n    == Len(ops)
<1>1. /\ mpc = "building" /\ mpc' = "building" /\ op.type # "other"
      /\ chroot' = chroot /\ executed' = executed
      /\ ops' = Append(ops, op)
  BY DEF AddOp, handleVars
<1>2. /\ ops' \in Seq(Ops) /\ Len(ops') = n + 1 /\ n \in Nat
      /\ \A i \in 1..n : ops'[i] = ops[i]
      /\ ops'[n + 1] = op
  BY <1>1 DEF MultiInv
<1>3. op.path \in Seq(STRING) /\ chroot \in Seq(STRING)
  <2>1. <<>> \in Seq(STRING)
    OBVIOUS
  <2>2. op.path \in Paths
    BY DEF Ops
  <2> QED
    BY <2>1, <2>2, MultiAssumption DEF MultiInv
<1>4. marshalled' \in Seq(Seq(STRING))
  <2>1. marshalled' = marshalled \/ marshalled' = Append(marshalled, prepend_string(chroot, op.path))
    BY DEF AddOp
  <2> DEFINE path == prepend_string(chroot, op.path)
  <2>2. path \in Seq(STRING)
    BY <1>3, PrependType
  <2>3. marshalled \in Seq(Seq(STRING))
    BY DEF MultiInv
  <2> HIDE DEF path
  <2>4. Append(marshalled, path) \in Seq(Seq(STRING))
    BY <2>2, <2>3
  <2> QED
    BY <2>1, <2>3, <2>4 DEF path
<1>5. ASSUME multi_rc' = "ZOK" PROVE SentWhole'
  <2>1. multi_rc = "ZOK" /\ init = "ZOK"
    BY <1>5 DEF AddOp
  <2>2. marshalled' = Append(marshalled, prepend_string(chroot, op.path))
    BY <1>5 DEF AddOp
  <2>3. SentWhole
    BY <1>1, <2>1 DEF MultiInv
  <2>4. badfree' = FALSE
    <3>1. PICK bad \in free_duplicate_path(ReqPath(init)) : badfree' = (badfree \/ bad)
      BY DEF AddOp
    <3>2. ReqPath(init) \in {"client's", "allocated"}
      BY <2>1 DEF ReqPath
    <3>3. bad = FALSE
      BY <3>1, <3>2 DEF free_duplicate_path
    <3> QED
      BY <2>3, <3>1, <3>3 DEF SentWhole
  <2>5. isValidPath(prepend_string(chroot, op.path), op.type = "sequence")
    BY <2>1 DEF Request_path_init
  <2>6. /\ Len(marshalled') = n + 1
        /\ \A i \in 1..n : marshalled'[i] = marshalled[i]
        /\ marshalled'[n + 1] = prepend_string(chroot, op.path)
    BY <2>2, <2>3 DEF MultiInv, SentWhole
  <2>7. ASSUME NEW i \in 1..n + 1
        PROVE  /\ marshalled'[i] = prepend_string(chroot, ops'[i].path)
               /\ isValidPath(marshalled'[i], ops'[i].type = "sequence")
    <3>1. CASE i = n + 1
      BY <1>2, <2>5, <2>6, <3>1
    <3>2. CASE i \in 1..n
      <4>1. marshalled'[i] = marshalled[i] /\ ops'[i] = ops[i]
        BY <1>2, <2>6, <3>2
      <4>2. /\ marshalled[i] = prepend_string(chroot, ops[i].path)
            /\ isValidPath(marshalled[i], ops[i].type = "sequence")
        BY <1>2, <2>3, <3>2 DEF SentWhole
      <4> QED
        BY <4>1, <4>2, Zenon
    <3> QED
      BY <1>2, <3>1, <3>2
  <2> QED
    BY <1>1, <1>2, <2>4, <2>6, <2>7 DEF SentWhole
<1>6. Prepared'
  <2>1. Prepared
    BY <1>1 DEF MultiInv
  <2>2. clist' = Append(clist, n + 1) /\ op_results' = Append(op_results, Blank(op))
    BY DEF AddOp
  <2>3. clist' = [i \in 1..n + 1 |-> i]
    BY <1>2, <2>1, <2>2 DEF Prepared
  <2>4. op_results' = [i \in 1..n + 1 |-> Blank(ops'[i])]
    <3>1. Len(op_results) = n /\ \A i \in 1..n : op_results[i] = Blank(ops[i])
      BY <1>2, <2>1 DEF Prepared
    <3>2. \A i \in 1..n : Blank(ops'[i]) = Blank(ops[i])
      BY <1>2
    <3>3. Blank(ops'[n + 1]) = Blank(op)
      BY <1>2, Zenon
    <3> DEFINE S == {op_results[i] : i \in 1..n} \cup {Blank(op)}
    <3>5. op_results \in Seq(S)
      <4>1. op_results \in [1..n -> S]
        BY <1>2, <2>1 DEF Prepared
      <4> HIDE DEF S
      <4> QED
        BY <1>2, <4>1
    <3> HIDE DEF S
    <3>4. op_results' = [i \in 1..n + 1 |-> IF i = n + 1 THEN Blank(op) ELSE op_results[i]]
      <4>1. Blank(op) \in S
        BY DEF S
      <4> QED
        BY <2>2, <3>1, <3>5, <4>1, AppendIs
    <3> QED
      BY <1>2, <3>1, <3>2, <3>3, <3>4
  <2> QED
    BY <1>2, <2>3, <2>4 DEF Prepared
<1>7. \A i \in 1..Len(ops') : ops'[i].type # "other"
  BY <1>1, <1>2 DEF MultiInv
<1>8. executed' = Nothing
  BY <1>1 DEF MultiInv, Accepted
<1> QED
  BY <1>1, <1>2, <1>4, <1>5, <1>6, <1>7, <1>8 DEF MultiInv, Accepted

\* The parts of the invariant that a step leaves alone with the request.
LEMMA SameRequest ==
  ASSUME UNCHANGED <<chroot, ops, marshalled, badfree>>
  PROVE  /\ SentWhole' <=> SentWhole
         /\ Committed' = Committed
         /\ executed' = executed => (ServerAnswered' <=> ServerAnswered)
         /\ UNCHANGED <<clist, op_results>> => (Prepared' <=> Prepared)
         /\ UNCHANGED <<op_results, executed, told>> => (ToldAsAnswered' <=> ToldAsAnswered)
<1>1. Committed' = Committed
  BY DEF Committed
<1>2. executed' = executed => (ServerAnswered' <=> ServerAnswered)
  BY <1>1 DEF ServerAnswered, RefusedAt, Codes
<1> QED
  BY <1>1, <1>2 DEF SentWhole, Prepared, ToldAsAnswered

LEMMA MultiStepInv == MultiInv /\ [MultiNext]_multiVars => MultiInv'
<1> SUFFICES ASSUME MultiInv, [MultiNext]_multiVars PROVE MultiInv'
  OBVIOUS
<1>1. ASSUME NEW op \in Ops, AddOp(op) PROVE MultiInv'
  BY <1>1, AddOpInv
<1>2. ASSUME NEW op \in Ops, Unimplemented(op) PROVE MultiInv'
  <2>1. ops' \in Seq(Ops)
    BY <1>2 DEF Unimplemented, MultiInv
  <2>2. mpc = "building" /\ mpc' = "returned" /\ UNCHANGED <<chroot, marshalled, executed>>
    BY <1>2 DEF Unimplemented, handleVars
  <2>3. executed' = Nothing
    BY <2>2 DEF MultiInv, Accepted
  <2> QED
    BY <2>1, <2>2, <2>3 DEF MultiInv, Accepted
<1>3. CASE QueueMulti
  <2>1. /\ mpc = "building" /\ mpc' \in {"queued", "returned"}
        /\ mpc' = "queued" => multi_rc = "ZOK"
        /\ UNCHANGED <<chroot, ops, marshalled, badfree, clist, op_results, executed>>
    BY <1>3 DEF QueueMulti, handleVars
  <2>2. executed' = Nothing
    BY <2>1 DEF MultiInv, Accepted
  <2> QED
    BY <2>1, <2>2, SameRequest DEF MultiInv, Accepted
<1>4. CASE ServerExecutes
  <2>1. /\ mpc = "queued" /\ mpc' = mpc /\ executed = Nothing
        /\ UNCHANGED <<chroot, ops, marshalled, badfree, clist, op_results>>
    BY <1>4 DEF ServerExecutes, handleVars, requestVars
  <2>2. ServerAnswered'
    BY <1>4, <2>1 DEF ServerExecutes, ServerAnswered, Committed, RefusedAt, Codes
  <2> QED
    BY <2>1, <2>2, SameRequest DEF MultiInv, Accepted
<1>5. CASE ReceiveMulti
  <2>1. /\ mpc = "queued" /\ executed # Nothing /\ executed' = executed
        /\ UNCHANGED <<chroot, ops, marshalled, badfree>>
    BY <1>5 DEF ReceiveMulti, handleVars, requestVars
  <2>2. Prepared /\ SentWhole /\ ServerAnswered
    BY <2>1 DEF MultiInv, Accepted
  <2>3. CASE sync
    <3>1. deserialize_multi(executed)
      BY <1>5, <2>3 DEF ReceiveMulti
    <3>2. ToldAsAnswered'
      BY <2>1, <2>2, <3>1, DeserializeAnswer
    <3>3. mpc' = "done"
      BY <3>1 DEF deserialize_multi
    <3> QED
      BY <2>1, <2>2, <3>2, <3>3, SameRequest DEF MultiInv, Accepted
  <2>4. CASE ~sync
    <3>1. answer' = executed /\ mpc' = "received" /\ UNCHANGED <<clist, op_results>>
      BY <1>5, <2>4 DEF ReceiveMulti
    <3> QED
      BY <2>1, <2>2, <3>1, SameRequest DEF MultiInv, Accepted
  <2> QED
    BY <2>3, <2>4
<1>6. CASE CompleteMulti
  <2>1. mpc = "received" /\ executed' = executed /\ UNCHANGED <<chroot, ops, marshalled, badfree>>
    BY <1>6 DEF CompleteMulti, handleVars, requestVars
  <2>2. CASE answer = HeaderOnly
    <3>1. mpc' = "aborted"
      BY <1>6, <2>2 DEF CompleteMulti, DeserializeNothing
    <3> QED
      BY <2>1, <3>1, SameRequest DEF MultiInv, Accepted
  <2>3. CASE answer # HeaderOnly
    <3>1. answer = executed /\ Prepared /\ SentWhole /\ ServerAnswered
      BY <2>1, <2>3 DEF MultiInv, Accepted
    <3>2. deserialize_multi(executed)
      BY <1>6, <2>3, <3>1 DEF CompleteMulti
    <3>3. ToldAsAnswered'
      BY <2>1, <3>1, <3>2, DeserializeAnswer
    <3>4. mpc' = "done"
      BY <3>2 DEF deserialize_multi
    <3> QED
      BY <2>1, <3>1, <3>3, <3>4, SameRequest DEF MultiInv, Accepted
  <2> QED
    BY <2>2, <2>3
<1>7. ASSUME NEW reason \in Reasons, LoseConnection(reason) PROVE MultiInv'
  <2>1. UNCHANGED <<chroot, ops, multi_rc, marshalled, badfree, clist, op_results, executed>>
    BY <1>7 DEF LoseConnection, requestVars
  <2>2. CASE mpc = "queued"
    <3>1. \/ told' = reason /\ mpc' = "done"
          \/ answer' = HeaderOnly /\ mpc' = "received"
      BY <1>7, <2>2 DEF LoseConnection, FreeMulti
    <3> QED
      BY <2>1, <2>2, <3>1, SameRequest DEF MultiInv, Accepted
  <2>3. CASE mpc # "queued"
    <3>1. UNCHANGED <<mpc, answer, told>>
      BY <1>7, <2>3 DEF LoseConnection
    <3> QED
      BY <2>1, <3>1, SameRequest DEF MultiInv, Accepted
  <2> QED
    BY <2>2, <2>3
<1>8. CASE UNCHANGED multiVars
  BY <1>8, SameRequest DEF multiVars, handleVars, requestVars, MultiInv, Accepted
<1> QED
  BY <1>1, <1>2, <1>3, <1>4, <1>5, <1>6, <1>7, <1>8 DEF MultiNext

\* The invariant says what the property says.
LEMMA MultiInvSuffices == MultiInv => AcceptedMultiWhole
<1> SUFFICES ASSUME MultiInv, Accepted PROVE AcceptedMultiWhole
  BY DEF AcceptedMultiWhole
<1>1. SentWhole /\ DOMAIN ops = 1..Len(ops)
  BY DEF MultiInv
<1>2. ASSUME NEW i \in 1..Len(ops)
      PROVE  /\ ValidPath(marshalled[i], ops[i].type = "sequence")
             /\ (ops[i].path # <<>> /\ ops[i].path[1] = "/") =>
                  sub_string(chroot, marshalled[i]) = ops[i].path
  <2>1. /\ marshalled[i] = prepend_string(chroot, ops[i].path)
        /\ isValidPath(marshalled[i], ops[i].type = "sequence")
    BY <1>1 DEF SentWhole
  <2>2. ops[i].path \in Seq(STRING) /\ chroot \in Seq(STRING)
    BY OpFacts
  <2>3. marshalled[i] \in Seq(STRING)
    BY <2>1, <2>2, PrependType
  <2>4. (ops[i].type = "sequence") \in BOOLEAN
    OBVIOUS
  <2>5. ValidPath(marshalled[i], ops[i].type = "sequence")
    BY <2>1, <2>3, <2>4, AcceptedPathsAreValid
  <2> QED
    BY <2>1, <2>2, <2>5, SubStringUndoesPrepend
<1>3. (mpc = "done" /\ told \notin Reasons) => ToldAsAnswered
  BY DEF MultiInv
<1> QED
  BY <1>1, <1>2, <1>3 DEF AcceptedMultiWhole, SentWhole, ToldAsAnswered

-----------------------------------------------------------------------------

\* A multi that zoo_amulti accepts was sent whole, with a valid path for each
\* operation, and the server's answer is told as it was given, for any paths,
\* chroot and number of operations and wherever the session is lost or closed.
THEOREM MultiWhole == MultiSpec => []AcceptedMultiWhole
<1>1. MultiSpec => []MultiInv
  BY MultiInitInv, MultiStepInv, PTL DEF MultiSpec
<1> QED
  BY <1>1, MultiInvSuffices, PTL

-----------------------------------------------------------------------------
(* The pool: sizes *)

LEMMA AllocSize == alloc_size \in Nat /\ alloc_size >= RequestedSize /\ alloc_size > 0
<1> DEFINE s == IF RequestedSize > MinAllocSize THEN RequestedSize ELSE MinAllocSize
<1>1. s \in Nat \ {0} /\ s >= RequestedSize
  BY PoolAssumption
<1>2. s % MinAlign \in 0..MinAlign - 1
  BY <1>1, PoolAssumption
<1> HIDE DEF s
<1>3. alloc_size = IF s % MinAlign = 0 THEN s ELSE s + MinAlign - (s % MinAlign)
  BY DEF alloc_size, s
<1> QED
  BY <1>1, <1>2, <1>3, PoolAssumption

\* An element takes at least a chunk, and one element exactly one.
LEMMA NumChunks ==
  ASSUME NEW n \in Nat \ {0}
  PROVE  num_chunks(n) \in Nat \ {0} /\ num_chunks(1) = 1
<1> DEFINE a == alloc_size
           R == RequestedSize
           t == n * R
<1>1. a \in Nat \ {0} /\ R \in Nat \ {0} /\ R <= a
  BY AllocSize, PoolAssumption
<1>2. t \in Nat \ {0}
  <2>1. n >= 1 /\ R >= 1 /\ n \in Int /\ R \in Int
    BY <1>1
  <2> HIDE DEF R
  <2> QED
    BY <2>1
<1> HIDE DEF a, R, t
<1>3. t \div a \in Nat /\ t % a \in 0..a - 1 /\ t = a * (t \div a) + (t % a)
  BY <1>1, <1>2
<1>4. t % a = 0 => t \div a # 0
  <2> SUFFICES ASSUME t \div a = 0, t % a = 0 PROVE FALSE
    OBVIOUS
  <2>1. a * (t \div a) = 0
    BY <1>1
  <2> QED
    BY <1>2, <1>3, <2>1
<1>5. num_chunks(n) = t \div a + (IF t % a = 0 THEN 0 ELSE 1)
  BY DEF num_chunks, t, a, R
<1>6. num_chunks(1) = R \div a + (IF R % a = 0 THEN 0 ELSE 1)
  <2>1. 1 * R = R
    BY <1>1
  <2> QED
    BY <2>1 DEF num_chunks, a, R
<1>7. R \div a + (IF R % a = 0 THEN 0 ELSE 1) = 1
  <2>1. CASE R = a
    <3>1. a \div a = 1 /\ a % a = 0
      BY <1>1
    <3> QED
      BY <2>1, <3>1
  <2>2. CASE R < a
    <3>1. R \div a = 0 /\ R % a = R
      BY <1>1, <2>2
    <3> QED
      BY <1>1, <3>1
  <2> QED
    BY <1>1, <2>1, <2>2
<1> QED
  BY <1>3, <1>4, <1>5, <1>6, <1>7

\* The next block has a chunk at least, whatever the limit.
LEMMA GrownSizePositive ==
  ASSUME NEW n \in Nat \ {0}, max_size \in Nat
  PROVE  GrownSize(n) \in Nat \ {0}
<1> DEFINE a == alloc_size
           R == RequestedSize
           m == max_size
<1>1. a \in Nat \ {0} /\ R \in Nat \ {0} /\ R <= a /\ m \in Nat
  BY AllocSize, PoolAssumption
<1>2. CASE m # 0 /\ (n * a) \div R < m
  <2> HIDE DEF a, R, m
  <2>1. n * a \in Nat /\ n * a >= n
    BY <1>1
  <2>2. n * a < m * R
    <3> DEFINE q == (n * a) \div R
    <3>1. q \in Nat /\ n * a = R * q + ((n * a) % R) /\ ((n * a) % R) \in 0..R - 1
      BY <1>1, <2>1
    <3> HIDE DEF q
    <3>2. q + 1 <= m
      BY <1>1, <1>2, <3>1 DEF q
    <3>3. R * (q + 1) <= R * m
      BY <1>1, <3>1, <3>2
    <3>4. R * (q + 1) = R * q + R /\ R * m = m * R
      BY <1>1, <3>1
    <3>5. n * a < R * q + R
      BY <1>1, <2>1, <3>1
    <3> QED
      BY <1>1, <2>1, <3>1, <3>3, <3>4, <3>5
  <2>3. (m * R) \div a \in Nat \ {0}
    <3> DEFINE t == m * R
    <3>1. t \in Nat /\ a <= t
      <4>1. a <= n * a
        BY <1>1
      <4> QED
        BY <1>1, <2>1, <2>2, <4>1
    <3> HIDE DEF t
    <3>2. t \div a \in Nat /\ t % a \in 0..a - 1 /\ t = a * (t \div a) + (t % a)
      BY <1>1, <3>1
    <3>3. t \div a # 0
      <4> SUFFICES ASSUME t \div a = 0 PROVE FALSE
        OBVIOUS
      <4>1. a * (t \div a) = 0
        BY <1>1
      <4> QED
        BY <1>1, <3>1, <3>2, <4>1
    <3> QED
      BY <3>2, <3>3 DEF t
  <2> DEFINE T == {2 * n, (m * R) \div a}
  <2>4. T \in SUBSET (Nat \ {0}) /\ T # {}
    BY <2>3
  <2> HIDE DEF T
  <2>5. Min(T) \in Nat \ {0}
    BY <2>4, MinFacts
  <2>6. GrownSize(n) = Min(T)
    BY <1>2 DEF GrownSize, a, R, m, T
  <2> QED
    BY <2>5, <2>6
<1>3. CASE ~(m # 0 /\ (n * a) \div R < m)
  BY <1>3 DEF GrownSize
<1> QED
  BY <1>2, <1>3

LEMMA BacktrackedSizePositive ==
  next_size \in Nat \ {0} => BacktrackedSize \in Nat \ {0}
  BY DEF BacktrackedSize

-----------------------------------------------------------------------------
(* The pool: free lists *)

NoRepeat(s) == \A i, j \in 1..Len(s) : s[i] = s[j] => i = j

\* q is s with the n chunks from a on inserted behind its first l elements.
InsertedAt(q, s, l, a, n) ==
  /\ q \in Seq(Nat) /\ Len(q) = Len(s) + n
  /\ \A i \in 1..l : q[i] = s[i]
  /\ \A i \in l + 1..l + n : q[i] = a + i - l - 1
  /\ \A i \in l + n + 1..Len(s) + n : q[i] = s[i - n]

\* q is s without the n elements behind its first l elements.
RemovedAt(q, s, l, n) ==
  /\ q \in Seq(Nat) /\ Len(q) = Len(s) - n
  /\ \A i \in 1..l : q[i] = s[i]
  /\ \A i \in l + 1..Len(s) - n : q[i] = s[i + n]

LEMMA ElementFacts ==
  ASSUME NEW T, NEW s \in Seq(T)
  PROVE  /\ \A x \in Range(s) : \E i \in 1..Len(s) : x = s[i]
         /\ Range(s) \subseteq T /\ Len(s) \in Nat
         /\ \A i \in 1..Len(s) : s[i] \in T /\ s[i] \in Range(s)
<1>1. DOMAIN s = 1..Len(s) /\ Len(s) \in Nat /\ \A i \in 1..Len(s) : s[i] \in T
  OBVIOUS
<1>2. \A x \in Range(s) : \E i \in 1..Len(s) : x = s[i]
  BY <1>1 DEF Range
<1>4. \A i \in 1..Len(s) : s[i] \in Range(s)
  BY <1>1 DEF Range
<1>3. Range(s) \subseteq T
  BY <1>1, <1>2
<1> QED
  BY <1>1, <1>2, <1>3, <1>4

\* Sequences are equal when their elements are.
LEMMA SeqExtensional ==
  ASSUME NEW S, NEW s \in Seq(S), NEW t \in Seq(S), Len(s) = Len(t),
         \A i \in 1..Len(s) : s[i] = t[i]
  PROVE  s = t
<1>1. s = [i \in 1..Len(s) |-> s[i]] /\ t = [i \in 1..Len(t) |-> t[i]]
  OBVIOUS
<1> QED
  BY <1>1

\* s with m inserted behind its first l elements.
Spliced(s, l, m) == SubSeq(s, 1, l) \o m \o SubSeq(s, l + 1, Len(s))

IsSplice(q, s, l, m) ==
  /\ Len(q) = Len(s) + Len(m)
  /\ \A i \in 1..l : q[i] = s[i]
  /\ \A i \in l + 1..l + Len(m) : q[i] = m[i - l]
  /\ \A i \in l + Len(m) + 1..Len(s) + Len(m) : q[i] = s[i - Len(m)]

LEMMA Splice ==
  ASSUME NEW S, NEW s \in Seq(S), NEW l \in 0..Len(s), NEW m \in Seq(S)
  PROVE  Spliced(s, l, m) \in Seq(S) /\ IsSplice(Spliced(s, l, m), s, l, m)
<1> DEFINE u == SubSeq(s, 1, l)
           v == SubSeq(s, l + 1, Len(s))
<1>1. /\ u \in Seq(S) /\ Len(u) = l
      /\ \A i \in 1..l : u[i] = s[i]
  OBVIOUS
<1>2. /\ v \in Seq(S) /\ Len(v) = Len(s) - l
      /\ \A i \in 1..Len(s) - l : v[i] = s[l + i]
  OBVIOUS
<1> HIDE DEF u, v
<1> DEFINE um == u \o m
<1>3. /\ um \in Seq(S) /\ Len(um) = l + Len(m)
      /\ \A i \in 1..l : um[i] = u[i]
      /\ \A i \in l + 1..l + Len(m) : um[i] = m[i - l]
  BY <1>1
<1> HIDE DEF um
<1> DEFINE w == um \o v
<1>4. /\ w \in Seq(S) /\ Len(w) = Len(um) + Len(v)
      /\ \A i \in 1..Len(um) : w[i] = um[i]
      /\ \A i \in Len(um) + 1..Len(um) + Len(v) : w[i] = v[i - Len(um)]
  <2>1. um \in Seq(S) /\ v \in Seq(S)
    BY <1>2, <1>3
  <2> QED
    BY ONLY <2>1
<1> HIDE DEF w
<1>5. Len(w) = Len(s) + Len(m)
  BY <1>2, <1>3, <1>4
<1>6. ASSUME NEW i \in 1..l PROVE w[i] = s[i]
  <2>1. i \in 1..Len(um)
    BY <1>3
  <2>2. w[i] = um[i] /\ um[i] = u[i] /\ u[i] = s[i]
    BY <1>1, <1>3, <1>4, <2>1
  <2> QED
    BY <2>2
<1>7. ASSUME NEW i \in l + 1..l + Len(m) PROVE w[i] = m[i - l]
  <2>1. i \in 1..Len(um)
    <3>1. l \in Nat /\ Len(m) \in Nat /\ Len(um) = l + Len(m)
      BY <1>1, <1>3
    <3> QED
      BY ONLY <3>1, i \in l + 1..l + Len(m)
  <2>2. w[i] = um[i] /\ um[i] = m[i - l]
    BY <1>3, <1>4, <2>1
  <2> QED
    BY <2>2
<1>8. ASSUME NEW i \in l + Len(m) + 1..Len(s) + Len(m) PROVE w[i] = s[i - Len(m)]
  <2>1. i \in Len(um) + 1..Len(um) + Len(v) /\ i - Len(um) \in 1..Len(s) - l
    BY <1>2, <1>3
  <2>2. w[i] = v[i - Len(um)]
    BY <1>4, <2>1
  <2>3. v[i - Len(um)] = s[l + (i - Len(um))]
    BY <1>2, <2>1
  <2>4. l + (i - Len(um)) = i - Len(m)
    BY <1>3
  <2> QED
    BY <2>2, <2>3, <2>4
<1>9. w = Spliced(s, l, m)
  BY DEF w, um, u, v, Spliced
<1> QED
  BY <1>4, <1>5, <1>6, <1>7, <1>8, <1>9 DEF IsSplice

LEMMA SegregateFacts ==
  ASSUME NEW a \in Nat, NEW n \in Nat
  PROVE  /\ segregate(a, n) \in Seq(Nat) /\ Len(segregate(a, n)) = n
         /\ \A i \in 1..n : segregate(a, n)[i] = a + i - 1
<1>1. \A i \in 1..n : a + i - 1 \in Nat
  OBVIOUS
<1> QED
  BY <1>1 DEF segregate

LEMMA InsertedFacts ==
  ASSUME NEW s \in Seq(Nat), NEW q, NEW l \in 0..Len(s), NEW a \in Nat, NEW n \in Nat,
         InsertedAt(q, s, l, a, n)
  PROVE  /\ Range(q) = Range(s) \cup a..a + n - 1
         /\ (NoRepeat(s) /\ Range(s) \cap a..a + n - 1 = {}) => NoRepeat(q)
         /\ (/\ Ascending(s)
             /\ \A i \in 1..l : s[i] < a
             /\ \A i \in l + 1..Len(s) : s[i] > a + n - 1) => Ascending(q)
<1> DEFINE back(k) == IF k <= l THEN k ELSE k - n
<1>1. q \in Seq(Nat) /\ Len(q) = Len(s) + n /\ Len(s) \in Nat /\ l \in Nat /\ l <= Len(s)
  BY DEF InsertedAt
<1>2. ASSUME NEW k \in 1..Len(q), k \in l + 1..l + n
      PROVE  q[k] = a + k - l - 1 /\ q[k] \in a..a + n - 1
  BY <1>1, <1>2 DEF InsertedAt
<1>3. ASSUME NEW k \in 1..Len(q), k \notin l + 1..l + n
      PROVE  back(k) \in 1..Len(s) /\ q[k] = s[back(k)] /\ (back(k) <= l <=> k <= l)
  <2>1. CASE k <= l
    <3>1. k \in 1..l
      BY <2>1
    <3> QED
      BY <1>1, <3>1 DEF InsertedAt
  <2>2. CASE k > l
    <3>1. k \in l + n + 1..Len(s) + n
      BY <1>1, <1>3, <2>2
    <3>2. q[k] = s[k - n]
      BY <3>1 DEF InsertedAt
    <3>3. k - n \in 1..Len(s) /\ k - n > l
      BY <1>1, <3>1
    <3>4. k \in Nat /\ l \in Nat /\ back(k) = k - n
      <4>1. k \in Nat /\ l \in Nat
        BY <1>1
      <4> QED
        BY ONLY <2>2, <4>1
    <3> QED
      BY ONLY <2>2, <3>2, <3>3, <3>4
  <2> QED
    BY <1>1, <2>1, <2>2
<1>4. /\ \A x \in Range(s) : \E i \in 1..Len(s) : x = s[i]
      /\ \A x \in Range(q) : \E i \in 1..Len(q) : x = q[i]
      /\ \A i \in 1..Len(s) : s[i] \in Nat /\ s[i] \in Range(s)
      /\ \A i \in 1..Len(q) : q[i] \in Range(q)
  <2>1. s \in Seq(Nat) /\ q \in Seq(Nat)
    BY <1>1
  <2> QED
    BY <2>1, ElementFacts
<1>5. ASSUME NEW x \in Range(q) PROVE x \in Range(s) \cup a..a + n - 1
  <2>1. PICK k \in 1..Len(q) : x = q[k]
    BY <1>4
  <2>2. CASE k \in l + 1..l + n
    BY <1>2, <2>1, <2>2
  <2>3. CASE k \notin l + 1..l + n
    <3>1. back(k) \in 1..Len(s) /\ x = s[back(k)]
      BY <1>3, <2>1, <2>3
    <3> HIDE DEF back
    <3> QED
      BY <1>4, <3>1
  <2> QED
    BY <2>2, <2>3
<1>6. ASSUME NEW x \in Range(s) PROVE x \in Range(q)
  <2>1. PICK i \in 1..Len(s) : x = s[i]
    BY <1>4
  <2> DEFINE k == IF i <= l THEN i ELSE i + n
  <2>2. k \in 1..Len(q) /\ k \notin l + 1..l + n /\ back(k) = i
    BY <1>1, <2>1, SMTT(20)
  <2>3. q[k] = x
    BY <1>3, <2>1, <2>2
  <2> HIDE DEF k
  <2> QED
    BY <1>4, <2>2, <2>3
<1>7. ASSUME NEW x \in a..a + n - 1 PROVE x \in Range(q)
  <2> DEFINE i == l + 1 + x - a
  <2>1. i \in l + 1..l + n /\ i \in 1..Len(q) /\ a + i - l - 1 = x
    BY <1>1
  <2> HIDE DEF i
  <2>2. q[i] = x
    BY <1>2, <2>1
  <2> QED
    BY <1>4, <2>1, <2>2
<1>8. ASSUME NoRepeat(s), Range(s) \cap a..a + n - 1 = {} PROVE NoRepeat(q)
  <2> SUFFICES ASSUME NEW i \in 1..Len(q), NEW j \in 1..Len(q), q[i] = q[j], i # j PROVE FALSE
    BY DEF NoRepeat
  <2>1. \A k \in 1..Len(s) : s[k] \notin a..a + n - 1
    BY <1>4, <1>8
  <2>2. CASE i \in l + 1..l + n /\ j \in l + 1..l + n
    BY <1>1, <1>2, <2>2
  <2>3. CASE i \notin l + 1..l + n /\ j \notin l + 1..l + n
    <3>1. back(i) \in 1..Len(s) /\ back(j) \in 1..Len(s) /\ s[back(i)] = s[back(j)]
      BY <1>3, <2>3
    <3>2. back(i) = back(j)
      BY <1>8, <3>1 DEF NoRepeat
    <3> QED
      BY <1>1, <2>3, <3>2
  <2>4. CASE i \in l + 1..l + n /\ j \notin l + 1..l + n
    <3>1. back(j) \in 1..Len(s) /\ q[j] = s[back(j)] /\ q[i] \in a..a + n - 1
      BY <1>2, <1>3, <2>4
    <3> QED
      BY <2>1, <3>1
  <2>5. CASE i \notin l + 1..l + n /\ j \in l + 1..l + n
    <3>1. back(i) \in 1..Len(s) /\ q[i] = s[back(i)] /\ q[j] \in a..a + n - 1
      BY <1>2, <1>3, <2>5
    <3> QED
      BY <2>1, <3>1
  <2> QED
    BY <2>2, <2>3, <2>4, <2>5
<1>9. ASSUME Ascending(s), \A i \in 1..l : s[i] < a, \A i \in l + 1..Len(s) : s[i] > a + n - 1
      PROVE  Ascending(q)
  <2> SUFFICES ASSUME NEW i \in 1..Len(q), NEW j \in 1..Len(q), i < j PROVE q[i] < q[j]
    BY DEF Ascending
  <2>1. ASSUME NEW k \in 1..Len(q), k <= l
        PROVE  q[k] \in Nat /\ q[k] < a /\ q[k] = s[k] /\ k \in 1..Len(s)
    <3>1. k \in 1..l /\ k \in 1..Len(s) /\ back(k) = k /\ k \notin l + 1..l + n
      BY <1>1, <2>1
    <3>2. q[k] = s[k]
      BY <1>3, <3>1
    <3> QED
      BY <1>4, <1>9, <3>1, <3>2
  <2>2. ASSUME NEW k \in 1..Len(q), k > l + n
        PROVE  q[k] \in Nat /\ q[k] > a + n - 1 /\ q[k] = s[k - n] /\ k - n \in l + 1..Len(s)
    <3>1. k - n \in l + 1..Len(s) /\ k - n \in 1..Len(s) /\ back(k) = k - n /\ k \notin l + 1..l + n
      BY <1>1, <2>2
    <3>2. q[k] = s[k - n]
      BY <1>3, <3>1
    <3> QED
      BY <1>4, <1>9, <3>1, <3>2
  <2>3. CASE j <= l
    <3>1. i <= l
      BY <1>1, <2>3
    <3> QED
      BY <1>9, <2>1, <2>3, <3>1 DEF Ascending
  <2>4. CASE i <= l /\ j \in l + 1..l + n
    <3>1. q[i] < a /\ q[i] \in Nat /\ q[j] \in a..a + n - 1
      BY <1>2, <2>1, <2>4
    <3> QED
      BY <3>1
  <2>5. CASE i <= l /\ j > l + n
    <3>1. q[i] < a /\ q[i] \in Nat
      BY <2>1, <2>5
    <3>2. q[i] = s[i] /\ q[j] = s[j - n] /\ i \in 1..Len(s) /\ j - n \in l + 1..Len(s)
      BY <2>1, <2>2, <2>5
    <3>3. i < j - n /\ j - n \in 1..Len(s)
      <4>1. /\ i \in Int /\ j \in Int /\ n \in Nat /\ l \in Nat /\ Len(s) \in Nat
            /\ j - n \in l + 1..Len(s)
        BY <1>1, <3>2
      <4> QED
        BY ONLY <2>5, <4>1
    <3> QED
      BY <1>9, <3>2, <3>3 DEF Ascending
  <2>6. CASE i \in l + 1..l + n /\ j \in l + 1..l + n
    BY <1>1, <1>2, <2>6
  <2>7. CASE i \in l + 1..l + n /\ j > l + n
    <3>1. q[i] \in a..a + n - 1 /\ q[j] \in Nat /\ q[j] > a + n - 1
      BY <1>2, <2>2, <2>7
    <3> QED
      BY <3>1
  <2>8. CASE i > l + n
    <3>1. j > l + n
      BY <1>1, <2>8
    <3>2. q[i] = s[i - n] /\ q[j] = s[j - n] /\ i - n \in l + 1..Len(s) /\ j - n \in l + 1..Len(s)
      BY <2>2, <2>8, <3>1
    <3>3. i - n < j - n /\ i - n \in 1..Len(s) /\ j - n \in 1..Len(s)
      <4>1. /\ i \in Int /\ j \in Int /\ n \in Nat /\ l \in Nat /\ Len(s) \in Nat /\ i < j
            /\ i - n \in l + 1..Len(s) /\ j - n \in l + 1..Len(s)
        BY <1>1, <3>2
      <4> QED
        BY ONLY <4>1
    <3> QED
      BY <1>9, <3>2, <3>3 DEF Ascending
  <2> QED
    BY <1>1, <2>3, <2>4, <2>5, <2>6, <2>7, <2>8
<1> QED
  BY <1>5, <1>6, <1>7, <1>8, <1>9

LEMMA InsertedNoRepeat ==
  ASSUME NEW s \in Seq(Nat), NEW q, NEW l \in 0..Len(s), NEW a \in Nat, NEW n \in Nat,
         InsertedAt(q, s, l, a, n), Range(s) \cap a..a + n - 1 = {}
  PROVE  Range(q) = Range(s) \cup a..a + n - 1 /\ (NoRepeat(s) => NoRepeat(q))
<1>1. /\ Range(q) = Range(s) \cup a..a + n - 1
      /\ (NoRepeat(s) /\ Range(s) \cap a..a + n - 1 = {}) => NoRepeat(q)
  BY InsertedFacts
<1> QED
  BY <1>1

LEMMA InsertedAscending ==
  ASSUME NEW s \in Seq(Nat), NEW q, NEW l \in 0..Len(s), NEW a \in Nat, NEW n \in Nat,
         InsertedAt(q, s, l, a, n), Ascending(s),
         \A i \in 1..l : s[i] < a, \A i \in l + 1..Len(s) : s[i] > a + n - 1
  PROVE  Ascending(q)
  BY InsertedFacts

LEMMA RemovedFacts ==
  ASSUME NEW s \in Seq(Nat), NEW q, NEW n \in Nat, NEW l \in 0..Len(s), l + n <= Len(s),
         RemovedAt(q, s, l, n), NoRepeat(s)
  PROVE  /\ Range(q) = Range(s) \ {s[i] : i \in l + 1..l + n}
         /\ NoRepeat(q)
         /\ Ascending(s) => Ascending(q)
<1>1. /\ q \in Seq(Nat) /\ Len(q) = Len(s) - n /\ Len(s) \in Nat
      /\ \A i \in 1..l : q[i] = s[i]
      /\ \A i \in l + 1..Len(s) - n : q[i] = s[i + n]
  BY DEF RemovedAt
<1> DEFINE from(k) == IF k <= l THEN k ELSE k + n
<1>2. ASSUME NEW k \in 1..Len(q)
      PROVE  from(k) \in 1..Len(s) /\ from(k) \notin l + 1..l + n /\ q[k] = s[from(k)]
  <2>1. CASE k <= l
    <3>1. k \in 1..l /\ from(k) = k
      BY <2>1
    <3>2. q[k] = s[k]
      BY <1>1, <3>1
    <3>3. k \in Nat /\ l \in 0..Len(s) /\ Len(s) \in Nat /\ n \in Nat
      BY <1>1, <3>1
    <3>4. k \in 1..Len(s) /\ k \notin l + 1..l + n
      BY ONLY <3>1, <3>3
    <3> QED
      BY <3>1, <3>2, <3>4
  <2>2. CASE k > l
    <3>1. k \in l + 1..Len(s) - n
      BY <1>1, <2>2
    <3>2. q[k] = s[k + n]
      BY <1>1, <3>1
    <3> QED
      BY <1>1, <2>2, <3>2
  <2> QED
    BY <1>1, <2>1, <2>2
<1>3. /\ \A x \in Range(s) : \E i \in 1..Len(s) : x = s[i]
      /\ \A x \in Range(q) : \E i \in 1..Len(q) : x = q[i]
      /\ \A i \in 1..Len(s) : s[i] \in Nat /\ s[i] \in Range(s)
      /\ \A i \in 1..Len(q) : q[i] \in Range(q)
  <2>1. s \in Seq(Nat) /\ q \in Seq(Nat)
    BY <1>1
  <2> QED
    BY <2>1, ElementFacts
<1>4. \A i, j \in 1..Len(s) : s[i] = s[j] => i = j
  BY DEF NoRepeat
<1>5. ASSUME NEW x \in Range(q) PROVE x \in Range(s) \ {s[i] : i \in l + 1..l + n}
  <2>1. PICK k \in 1..Len(q) : x = q[k]
    BY <1>3
  <2>2. from(k) \in 1..Len(s) /\ from(k) \notin l + 1..l + n /\ x = s[from(k)]
    BY <1>2, <2>1
  <2> HIDE DEF from
  <2>3. \A i \in l + 1..l + n : s[i] # x
    <3> SUFFICES ASSUME NEW i \in l + 1..l + n, s[i] = x PROVE FALSE
      OBVIOUS
    <3>1. i \in 1..Len(s)
      BY <1>1
    <3> QED
      BY <1>4, <2>2, <3>1
  <2> QED
    BY <1>3, <2>2, <2>3
<1>6. ASSUME NEW x \in Range(s) \ {s[i] : i \in l + 1..l + n} PROVE x \in Range(q)
  <2>1. PICK i \in 1..Len(s) : x = s[i]
    BY <1>3
  <2>2. i \notin l + 1..l + n
    BY <2>1
  <2>3. CASE i <= l
    <3>1. q[i] = x /\ i \in 1..Len(q)
      <4>1. i \in 1..l
        BY <2>1, <2>3
      <4>2. i \in 1..Len(q)
        BY <1>1, <4>1
      <4> QED
        BY <1>1, <2>1, <4>1, <4>2
    <3> QED
      BY <1>3, <3>1
  <2>4. CASE i > l + n
    <3>1. i - n \in l + 1..Len(s) - n /\ (i - n) + n = i
      BY <1>1, <2>1, <2>4
    <3>2. q[i - n] = x /\ i - n \in 1..Len(q)
      BY <1>1, <2>1, <3>1
    <3> QED
      BY <1>3, <3>2
  <2> QED
    BY <1>1, <2>2, <2>3, <2>4
<1>7. NoRepeat(q)
  <2> SUFFICES ASSUME NEW i \in 1..Len(q), NEW j \in 1..Len(q), q[i] = q[j] PROVE i = j
    BY DEF NoRepeat
  <2>1. from(i) = from(j)
    BY <1>2, <1>4
  <2>2. i \in Int /\ j \in Int /\ n \in Nat /\ l \in Nat
    BY <1>1
  <2> QED
    BY ONLY <2>1, <2>2
<1>8. ASSUME Ascending(s) PROVE Ascending(q)
  <2> SUFFICES ASSUME NEW i \in 1..Len(q), NEW j \in 1..Len(q), i < j PROVE q[i] < q[j]
    BY DEF Ascending
  <2>1. from(i) < from(j)
    <3>1. i \in Int /\ j \in Int /\ n \in Nat /\ l \in Nat
      BY <1>1
    <3> QED
      BY ONLY <3>1, i < j
  <2>2. s[from(i)] < s[from(j)]
    BY <1>2, <1>8, <2>1 DEF Ascending
  <2> QED
    BY <1>2, <2>2
<1> QED
  BY <1>5, <1>6, <1>7, <1>8

LEMMA AddBlockFacts ==
  ASSUME NEW s \in Seq(Nat), NEW a \in Nat, NEW n \in Nat
  PROVE  /\ add_block(s, a, n) \in Seq(Nat)
         /\ Range(add_block(s, a, n)) = Range(s) \cup a..a + n - 1
         /\ (NoRepeat(s) /\ Range(s) \cap a..a + n - 1 = {}) => NoRepeat(add_block(s, a, n))
<1> DEFINE m == segregate(a, n)
           q == m \o s
<1>1. m \in Seq(Nat) /\ Len(m) = n /\ \A i \in 1..n : m[i] = a + i - 1
  BY SegregateFacts
<1> HIDE DEF m
<1>2. /\ q \in Seq(Nat) /\ Len(q) = Len(s) + n
      /\ \A i \in 1..n : q[i] = m[i]
      /\ \A i \in n + 1..Len(s) + n : q[i] = s[i - n]
  <2>1. m \in Seq(Nat) /\ Len(m) = n /\ s \in Seq(Nat) /\ n \in Nat
    BY <1>1
  <2>2. /\ q \in Seq(Nat) /\ Len(q) = Len(m) + Len(s)
        /\ \A i \in 1..Len(m) : q[i] = m[i]
        /\ \A i \in Len(m) + 1..Len(m) + Len(s) : q[i] = s[i - Len(m)]
    BY ONLY <2>1, ConcatIs, ZenonT(20)
  <2> HIDE DEF q
  <2> QED
    BY ONLY <2>1, <2>2
<1>3. q = add_block(s, a, n)
  BY DEF add_block, m
<1> HIDE DEF q
<1>4. InsertedAt(q, s, 0, a, n)
  BY <1>1, <1>2 DEF InsertedAt
<1>5. 0 \in 0..Len(s)
  OBVIOUS
<1>6. /\ Range(q) = Range(s) \cup a..a + n - 1
      /\ (NoRepeat(s) /\ Range(s) \cap a..a + n - 1 = {}) => NoRepeat(q)
  BY <1>4, <1>5, InsertedFacts
<1> QED
  BY <1>2, <1>3, <1>6

\* The place of address p: what is before it is not larger, what follows is.
LEMMA FindPrev ==
  ASSUME NEW s \in Seq(Nat), NEW p \in Nat
  PROVE  /\ find_prev(s, p) \in 0..Len(s)
         /\ find_prev(s, p) = Len(s) \/ s[find_prev(s, p) + 1] > p
         /\ \A i \in 1..find_prev(s, p) : s[i] <= p
<1> DEFINE T == {i \in 0..Len(s) : i = Len(s) \/ s[i + 1] > p}
           l == Min(T)
<1>1. T \in SUBSET Nat /\ T # {}
  OBVIOUS
<1>2. l \in T /\ \A y \in T : l <= y
  BY <1>1, MinFacts
<1>3. find_prev(s, p) = l
  BY DEF find_prev
<1> HIDE DEF l
<1>4. ASSUME NEW i \in 1..l PROVE s[i] <= p
  <2>1. i - 1 \in 0..Len(s) /\ i - 1 # Len(s) /\ (i - 1) + 1 = i /\ i - 1 < l
    BY <1>2
  <2>2. i - 1 \notin T
    <3> HIDE DEF T
    <3>1. l \in Int /\ i \in Int
      BY <1>1, <1>2
    <3> QED
      BY <1>2, <2>1, <3>1
  <2>3. ~(s[i] > p)
    BY <2>1, <2>2
  <2>4. s[i] \in Nat
    BY <1>2
  <2> QED
    BY <2>3, <2>4
<1> QED
  BY <1>2, <1>3, <1>4

LEMMA AddOrderedFacts ==
  ASSUME NEW s \in Seq(Nat), NEW a \in Nat, NEW n \in Nat \ {0},
         Range(s) \cap a..a + n - 1 = {}
  PROVE  LET q == add_ordered_block(s, a, n) IN
         /\ q \in Seq(Nat)
         /\ Range(q) = Range(s) \cup a..a + n - 1
         /\ NoRepeat(s) => NoRepeat(q)
         /\ Ascending(s) => Ascending(q)
<1> DEFINE l == find_prev(s, a)
           m == segregate(a, n)
           q == Spliced(s, l, m)
<1>1. /\ l \in 0..Len(s) /\ (l = Len(s) \/ s[l + 1] > a)
      /\ \A i \in 1..l : s[i] <= a
  BY FindPrev
<1>2. m \in Seq(Nat) /\ Len(m) = n /\ \A i \in 1..n : m[i] = a + i - 1
  BY SegregateFacts
<1> HIDE DEF l, m
<1>4. q = add_ordered_block(s, a, n)
  BY DEF add_ordered_block, l, m, Spliced
<1>11. q = Spliced(s, l, m)
  OBVIOUS
<1> HIDE DEF q
<1>3. /\ q \in Seq(Nat) /\ Len(q) = Len(s) + Len(m)
      /\ \A i \in 1..l : q[i] = s[i]
      /\ \A i \in l + 1..l + Len(m) : q[i] = m[i - l]
      /\ \A i \in l + Len(m) + 1..Len(s) + Len(m) : q[i] = s[i - Len(m)]
  <2>1. l \in 0..Len(s) /\ m \in Seq(Nat) /\ s \in Seq(Nat)
    BY <1>1, <1>2
  <2>2. Spliced(s, l, m) \in Seq(Nat) /\ IsSplice(Spliced(s, l, m), s, l, m)
    BY ONLY <2>1, Splice
  <2> QED
    BY ONLY <1>11, <2>2 DEF IsSplice
<1>5. InsertedAt(q, s, l, a, n)
  <2>1. ASSUME NEW i \in l + 1..l + n PROVE q[i] = a + i - l - 1
    <3>1. i - l \in 1..n
      BY <1>1
    <3>2. q[i] = m[i - l] /\ m[i - l] = a + (i - l) - 1
      BY <1>2, <1>3, <3>1
    <3> QED
      BY <1>1, <3>2
  <2> QED
    BY <1>2, <1>3, <2>1 DEF InsertedAt
<1>6. \A i \in 1..Len(s) : s[i] \in Nat /\ s[i] \notin a..a + n - 1
  BY ElementFacts
<1>7. ASSUME Ascending(s)
      PROVE  (\A i \in 1..l : s[i] < a) /\ (\A i \in l + 1..Len(s) : s[i] > a + n - 1)
  <2>1. ASSUME NEW i \in 1..l PROVE s[i] < a
    <3>1. i \in 1..Len(s) /\ s[i] <= a
      BY <1>1
    <3> QED
      BY <1>6, <3>1
  <2>2. ASSUME NEW i \in l + 1..Len(s) PROVE s[i] > a + n - 1
    <3>1. i \in 1..Len(s) /\ l + 1 \in 1..Len(s) /\ s[l + 1] > a
      BY <1>1
    <3>2. i = l + 1 \/ s[l + 1] < s[i]
      BY <1>1, <1>7, <3>1 DEF Ascending
    <3>3. s[i] \in Nat /\ s[i] \notin a..a + n - 1 /\ s[l + 1] \in Nat
      BY <1>6, <3>1
    <3> QED
      BY <3>1, <3>2, <3>3
  <2> QED
    BY <2>1, <2>2
<1>8. l \in 0..Len(s)
  BY <1>1
<1>9. /\ Range(q) = Range(s) \cup a..a + n - 1
      /\ NoRepeat(s) => NoRepeat(q)
  BY <1>5, <1>8, InsertedNoRepeat
<1>10. ASSUME Ascending(s) PROVE Ascending(q)
  BY <1>5, <1>7, <1>8, <1>10, InsertedAscending
<1> QED
  BY <1>3, <1>4, <1>9, <1>10

LEMMA OrderedFreeIs ==
  ASSUME NEW s \in Seq(Nat), NEW a \in Nat
  PROVE  ordered_free(s, a) = add_ordered_block(s, a, 1)
<1>1. segregate(a, 1) = <<a>>
  <2>1. segregate(a, 1) \in Seq(Nat) /\ Len(segregate(a, 1)) = 1 /\ segregate(a, 1)[1] = a
    <3>1. 1 \in Nat /\ 1 \in 1..1 /\ a + 1 - 1 = a
      OBVIOUS
    <3> QED
      BY <3>1, SegregateFacts
  <2>2. <<a>> \in Seq(Nat) /\ Len(<<a>>) = 1 /\ <<a>>[1] = a
    OBVIOUS
  <2> QED
    BY <2>1, <2>2, SeqExtensional
<1>2. (find_prev(s, a) + 1) - 1 = find_prev(s, a)
  BY FindPrev
<1> QED
  BY <1>1, <1>2 DEF ordered_free, add_ordered_block, InsertAt

LEMMA TailFacts ==
  ASSUME NEW s \in Seq(Nat), s # <<>>, NoRepeat(s)
  PROVE  /\ Head(s) \in Range(s) /\ Head(s) \in Nat /\ Tail(s) \in Seq(Nat)
         /\ Range(Tail(s)) = Range(s) \ {Head(s)}
         /\ NoRepeat(Tail(s))
         /\ Ascending(s) => Ascending(Tail(s))
<1> DEFINE q == Tail(s)
<1>1. /\ Len(s) \in Nat \ {0} /\ q \in Seq(Nat) /\ Len(q) = Len(s) - 1 /\ Head(s) = s[1]
      /\ \A i \in 1..Len(s) - 1 : q[i] = s[i + 1]
  OBVIOUS
<1>2. s[1] \in Nat /\ s[1] \in Range(s)
  BY <1>1, ElementFacts
<1> HIDE DEF q
<1>3. RemovedAt(q, s, 0, 1)
  BY <1>1 DEF RemovedAt
<1>4. {s[i] : i \in 0 + 1..0 + 1} = {Head(s)}
  BY <1>1
<1>5. 0 \in 0..Len(s) /\ 0 + 1 <= Len(s) /\ 1 \in Nat /\ q \in Seq(Nat)
  BY <1>1
<1>6. /\ Range(q) = Range(s) \ {s[i] : i \in 0 + 1..0 + 1} /\ NoRepeat(q)
      /\ Ascending(s) => Ascending(q)
  BY <1>3, <1>5, RemovedFacts
<1> QED
  BY <1>1, <1>2, <1>4, <1>6 DEF q

LEMMA WithoutFacts ==
  ASSUME NEW s \in Seq(Nat), NEW n \in Nat, NEW l \in 0..Len(s), l + n <= Len(s), NoRepeat(s)
  PROVE  LET q == Without(s, l, n) IN
         /\ q \in Seq(Nat)
         /\ Range(q) = Range(s) \ {s[i] : i \in l + 1..l + n}
         /\ NoRepeat(q)
         /\ Ascending(s) => Ascending(q)
<1> DEFINE u == SubSeq(s, 1, l)
           v == SubSeq(s, l + n + 1, Len(s))
           q == u \o v
<1>1. u \in Seq(Nat) /\ Len(u) = l /\ \A i \in 1..l : u[i] = s[i]
  OBVIOUS
<1>2. /\ v \in Seq(Nat) /\ Len(v) = Len(s) - n - l
      /\ \A i \in 1..Len(s) - n - l : v[i] = s[l + n + i]
  OBVIOUS
<1>3. q = Without(s, l, n)
  BY DEF Without
<1> HIDE DEF u, v
<1>4. /\ q \in Seq(Nat) /\ Len(q) = Len(u) + Len(v)
      /\ \A i \in 1..Len(u) : q[i] = u[i]
      /\ \A i \in Len(u) + 1..Len(u) + Len(v) : q[i] = v[i - Len(u)]
  <2>1. u \in Seq(Nat) /\ v \in Seq(Nat)
    BY <1>1, <1>2
  <2> QED
    BY ONLY <2>1
<1> HIDE DEF q
<1>5. RemovedAt(q, s, l, n)
  <2>1. ASSUME NEW i \in l + 1..Len(s) - n PROVE q[i] = s[i + n]
    <3>1. i \in Len(u) + 1..Len(u) + Len(v) /\ i - l \in 1..Len(s) - n - l
      BY <1>1, <1>2
    <3>2. q[i] = v[i - l]
      BY <1>1, <1>4, <3>1
    <3>3. v[i - l] = s[l + n + (i - l)]
      BY <1>2, <3>1
    <3>4. l + n + (i - l) = i + n
      OBVIOUS
    <3> QED
      BY <3>2, <3>3, <3>4
  <2>2. Len(q) = Len(s) - n /\ \A i \in 1..l : q[i] = s[i]
    BY <1>1, <1>2, <1>4
  <2> QED
    BY <1>4, <2>1, <2>2 DEF RemovedAt
<1> QED
  BY <1>3, <1>4, <1>5, RemovedFacts

-----------------------------------------------------------------------------
(* The pool: the account of the chunks, over sets.  F is the free chunks, *)
(* H the allocations, B the blocks.                                       *)

Blocks      == [begin : Nat, chunks : Nat \ {0}]
Allocations == [at : Nat, n : Nat \ {0}]

Accounted(F, H, B) ==
  /\ F \subseteq Nat /\ H \subseteq Allocations /\ B \subseteq Blocks
  /\ \A b, c \in B : b # c => Footprint(b) \cap Footprint(c) = {}
  /\ \A h \in H : \E b \in B : HeldChunks(h) \subseteq Chunks(b)
  /\ \A g, h \in H : g # h => HeldChunks(g) \cap HeldChunks(h) = {}
  /\ \A h \in H : HeldChunks(h) \cap F = {}
  /\ \A x \in F : \E b \in B : x \in Chunks(b)
  /\ \A b \in B : \A x \in Chunks(b) : x \in F \/ \E h \in H : x \in HeldChunks(h)

LEMMA HeldFacts ==
  ASSUME NEW h \in Allocations
  PROVE  /\ h.at \in Nat /\ h.n \in Nat \ {0} /\ num_chunks(h.n) \in Nat \ {0}
         /\ HeldChunks(h) \subseteq Nat /\ h.at \in HeldChunks(h)
         /\ h.n = 1 => HeldChunks(h) = {h.at}
<1>1. h.at \in Nat /\ h.n \in Nat \ {0}
  BY DEF Allocations
<1>2. num_chunks(h.n) \in Nat \ {0} /\ num_chunks(1) = 1
  BY <1>1, NumChunks
<1> QED
  BY <1>1, <1>2 DEF HeldChunks

LEMMA HeldIs ==
  ASSUME NEW a \in Nat, NEW n \in Nat \ {0}
  PROVE  /\ Held(a, n) \in Allocations /\ Held(a, n).at = a /\ Held(a, n).n = n
         /\ HeldChunks(Held(a, n)) = a..a + num_chunks(n) - 1
         /\ HeldChunks(Held(a, 1)) = {a}
<1>1. num_chunks(1) = 1
  BY NumChunks
<1> QED
  BY <1>1 DEF Held, Allocations, HeldChunks

LEMMA BlockFacts ==
  ASSUME NEW b \in Blocks
  PROVE  /\ b.begin \in Nat /\ b.chunks \in Nat \ {0} /\ BlockEnd(b) = b.begin + b.chunks
         /\ Chunks(b) = b.begin..BlockEnd(b) - 1 /\ Footprint(b) = b.begin..BlockEnd(b)
         /\ Chunks(b) \subseteq Nat /\ Chunks(b) \subseteq Footprint(b)
         /\ b.begin \in Chunks(b) /\ BlockEnd(b) \in Footprint(b)
  BY DEF Blocks, BlockEnd, Chunks, Footprint, Header

\* The blocks keep apart because of their headers: contiguous free chunks are
\* all in one block.
LEMMA RunInOneBlock ==
  ASSUME NEW F, NEW H, NEW B, Accounted(F, H, B),
         NEW a \in Nat, NEW k \in Nat \ {0}, a..a + k - 1 \subseteq F
  PROVE  \E b \in B : a..a + k - 1 \subseteq Chunks(b)
<1>1. a \in F
  OBVIOUS
<1>2. PICK b \in B : a \in Chunks(b)
  BY <1>1 DEF Accounted
<1>3. b \in Blocks
  BY DEF Accounted
<1>4. CASE a + k - 1 < BlockEnd(b)
  BY <1>2, <1>3, <1>4, BlockFacts, SMTT(20)
<1>5. CASE ~(a + k - 1 < BlockEnd(b))
  <2>1. BlockEnd(b) \in a..a + k - 1 /\ BlockEnd(b) \notin Chunks(b) /\ BlockEnd(b) \in Footprint(b)
    <3> DEFINE e == BlockEnd(b)
    <3>0. /\ b.begin \in Nat /\ b.chunks \in Nat /\ e = b.begin + b.chunks
          /\ Chunks(b) = b.begin..e - 1 /\ e \in Footprint(b)
      BY <1>3, BlockFacts
    <3> HIDE DEF e
    <3>1. e \in Nat /\ a < e
      BY <1>2, <3>0
    <3>2. ~(a + k - 1 < e)
      BY <1>5 DEF e
    <3>3. e \in a..a + k - 1 /\ e \notin Chunks(b)
      BY <3>0, <3>1, <3>2
    <3> QED
      BY <3>0, <3>3 DEF e
  <2>2. BlockEnd(b) \in F
    BY <2>1
  <2>3. PICK c \in B : BlockEnd(b) \in Chunks(c)
    BY <2>2 DEF Accounted
  <2>4. c # b /\ c \in Blocks
    BY <2>1, <2>3 DEF Accounted
  <2>5. BlockEnd(b) \in Footprint(c)
    BY <2>3, <2>4, BlockFacts
  <2> QED
    BY <2>1, <2>4, <2>5 DEF Accounted
<1> QED
  BY <1>4, <1>5

LEMMA Take ==
  ASSUME NEW F, NEW H, NEW B, Accounted(F, H, B),
         NEW a \in Nat, NEW n \in Nat \ {0}, a..a + num_chunks(n) - 1 \subseteq F
  PROVE  Accounted(F \ (a..a + num_chunks(n) - 1), H \cup {Held(a, n)}, B)
<1> DEFINE C == a..a + num_chunks(n) - 1
           x0 == Held(a, n)
<1>1. HeldChunks(x0) = C /\ x0 \in Allocations
  BY HeldIs
<1>2. PICK b \in B : C \subseteq Chunks(b)
  <2>1. num_chunks(n) \in Nat \ {0}
    BY NumChunks
  <2> QED
    BY <2>1, RunInOneBlock
<1>3. C \subseteq F
  OBVIOUS
<1> HIDE DEF C, x0
<1>4. Accounted(F \ C, H \cup {x0}, B)
  BY <1>1, <1>2, <1>3 DEF Accounted
<1> QED
  BY <1>4 DEF C, x0

LEMMA Return ==
  ASSUME NEW F, NEW H, NEW B, Accounted(F, H, B), NEW h \in H
  PROVE  /\ Accounted(F \cup HeldChunks(h), H \ {h}, B)
         /\ HeldChunks(h) \cap F = {} /\ h \in Allocations
<1>1. h \in Allocations /\ HeldChunks(h) \subseteq Nat /\ HeldChunks(h) \cap F = {}
  BY HeldFacts DEF Accounted
<1>2. \A x \in HeldChunks(h) : \E b \in B : x \in Chunks(b)
  BY DEF Accounted
<1>3. \A g \in H \ {h} : HeldChunks(g) \cap (F \cup HeldChunks(h)) = {}
  BY DEF Accounted
<1> QED
  BY <1>1, <1>2, <1>3 DEF Accounted

LEMMA Grow ==
  ASSUME NEW F, NEW H, NEW B, Accounted(F, H, B), NEW b \in Blocks,
         \A c \in B : Footprint(b) \cap Footprint(c) = {}
  PROVE  /\ Accounted(F \cup Chunks(b), H, B \cup {b})
         /\ F \cap Chunks(b) = {}
<1>1. \A c \in B : Chunks(b) \cap Chunks(c) = {} /\ Chunks(c) \subseteq Footprint(c)
  BY BlockFacts DEF Accounted
<1>2. Chunks(b) \subseteq Nat
  BY BlockFacts
<1>3. F \cap Chunks(b) = {}
  BY <1>1 DEF Accounted
<1>4. \A h \in H : HeldChunks(h) \cap Chunks(b) = {}
  BY <1>1 DEF Accounted
<1>5. \A h \in H : HeldChunks(h) \cap (F \cup Chunks(b)) = {}
  BY <1>4 DEF Accounted
<1>6. \A c, d \in B \cup {b} : c # d => Footprint(c) \cap Footprint(d) = {}
  BY DEF Accounted
<1>7. \A h \in H : \E c \in B \cup {b} : HeldChunks(h) \subseteq Chunks(c)
  BY DEF Accounted
<1> QED
  BY <1>2, <1>3, <1>5, <1>6, <1>7 DEF Accounted

\* The blocks K are kept; every chunk of the others is free.
LEMMA Shrink ==
  ASSUME NEW F, NEW H, NEW B, Accounted(F, H, B), NEW K \in SUBSET B,
         \A b \in B \ K : Chunks(b) \subseteq F
  PROVE  Accounted({x \in F : \E b \in K : x \in Chunks(b)}, H, K)
<1> DEFINE G == {x \in F : \E b \in K : x \in Chunks(b)}
<1>1. ASSUME NEW h \in H PROVE \E b \in K : HeldChunks(h) \subseteq Chunks(b)
  <2>1. PICK b \in B : HeldChunks(h) \subseteq Chunks(b)
    BY DEF Accounted
  <2>2. h.at \in HeldChunks(h) /\ HeldChunks(h) \cap F = {}
    BY HeldFacts DEF Accounted
  <2> QED
    BY <2>1, <2>2
<1>2. \A h \in H : HeldChunks(h) \cap G = {}
  BY DEF Accounted
<1>3. \A b \in K : \A x \in Chunks(b) : x \in G \/ \E h \in H : x \in HeldChunks(h)
  BY DEF Accounted
<1>4. \A x \in G : \E b \in K : x \in Chunks(b)
  OBVIOUS
<1>5. G \subseteq Nat /\ H \subseteq Allocations /\ K \subseteq Blocks
  BY DEF Accounted
<1>6. \A b, c \in K : b # c => Footprint(b) \cap Footprint(c) = {}
  BY DEF Accounted
<1>7. \A g, h \in H : g # h => HeldChunks(g) \cap HeldChunks(h) = {}
  BY DEF Accounted
<1> HIDE DEF G
<1>8. Accounted(G, H, K)
  BY <1>1, <1>2, <1>3, <1>4, <1>5, <1>6, <1>7, Zenon DEF Accounted
<1> QED
  BY <1>8 DEF G

-----------------------------------------------------------------------------
(* The pool: the list of blocks *)

LEMMA InsertOrderedFacts ==
  ASSUME NEW b \in Blocks, list \in Seq(Blocks),
         \A c \in Range(list) : c.begin # b.begin
  PROVE  /\ InsertOrdered(b) \in Seq(Blocks)
         /\ Range(InsertOrdered(b)) = Range(list) \cup {b}
         /\ InOrder(list) => InOrder(InsertOrdered(b))
<1> DEFINE T == {j \in 0..Len(list) : j = Len(list) \/ list[j + 1].begin > b.begin}
           l == Min(T)
           q == InsertOrdered(b)
<1>1. T \in SUBSET Nat /\ T # {} /\ Len(list) \in Nat
  OBVIOUS
<1>2. l \in T /\ \A y \in T : l <= y
  BY <1>1, MinFacts
<1>3. l \in 0..Len(list) /\ (l + 1) - 1 = l
  BY <1>2
<1>4. q = Spliced(list, l, <<b>>)
  BY <1>3 DEF InsertOrdered, InsertAt, Spliced
<1> HIDE DEF l, q
<1>5. <<b>> \in Seq(Blocks) /\ Len(<<b>>) = 1 /\ <<b>>[1] = b
  OBVIOUS
<1>6. q \in Seq(Blocks) /\ IsSplice(q, list, l, <<b>>)
  BY <1>3, <1>4, <1>5, Splice
<1>7. /\ Len(q) = Len(list) + 1
      /\ \A i \in 1..l : q[i] = list[i]
      /\ q[l + 1] = b
      /\ \A i \in l + 2..Len(list) + 1 : q[i] = list[i - 1]
  <2>1. /\ Len(q) = Len(list) + 1
        /\ \A i \in 1..l : q[i] = list[i]
        /\ \A i \in l + 1..l + 1 : q[i] = <<b>>[i - l]
        /\ \A i \in l + 1 + 1..Len(list) + 1 : q[i] = list[i - 1]
    BY <1>5, <1>6 DEF IsSplice
  <2>2. l + 1 \in l + 1..l + 1 /\ (l + 1) - l = 1 /\ l + 1 + 1 = l + 2
    BY <1>3
  <2> QED
    BY <1>5, <2>1, <2>2
<1>8. /\ \A x \in Range(list) : \E i \in 1..Len(list) : x = list[i]
      /\ \A i \in 1..Len(list) : list[i] \in Blocks /\ list[i] \in Range(list)
  BY ElementFacts
<1>9. /\ \A x \in Range(q) : \E i \in 1..Len(q) : x = q[i]
      /\ \A i \in 1..Len(q) : q[i] \in Blocks /\ q[i] \in Range(q)
  BY <1>6, ElementFacts
<1>10. ASSUME NEW x \in Range(q) PROVE x \in Range(list) \cup {b}
  <2>1. PICK i \in 1..Len(q) : x = q[i]
    BY <1>9
  <2>2. CASE i <= l
    <3>1. i \in 1..l /\ i \in 1..Len(list)
      BY <1>3, <2>2
    <3> QED
      BY <1>7, <1>8, <2>1, <3>1
  <2>3. CASE i = l + 1
    BY <1>7, <2>1, <2>3
  <2>4. CASE i > l + 1
    <3>1. i \in l + 2..Len(list) + 1 /\ i - 1 \in 1..Len(list)
      BY <1>1, <1>3, <1>7, <2>4
    <3> QED
      BY <1>7, <1>8, <2>1, <3>1
  <2> QED
    BY <1>3, <2>2, <2>3, <2>4
<1>11. ASSUME NEW x \in Range(list) PROVE x \in Range(q)
  <2>1. PICK i \in 1..Len(list) : x = list[i]
    BY <1>8
  <2>2. CASE i <= l
    <3>1. i \in 1..l /\ i \in 1..Len(q)
      BY <1>1, <1>3, <1>7, <2>2
    <3> QED
      BY <1>7, <1>9, <2>1, <3>1
  <2>3. CASE i > l
    <3>1. i + 1 \in l + 2..Len(list) + 1 /\ (i + 1) - 1 = i /\ i + 1 \in 1..Len(q)
      BY <1>1, <1>3, <1>7, <2>3
    <3> QED
      BY <1>7, <1>9, <2>1, <3>1
  <2> QED
    BY <1>3, <2>2, <2>3
<1>12. b \in Range(q)
  <2>1. l + 1 \in 1..Len(q)
    BY <1>1, <1>3, <1>7
  <2> QED
    BY <1>7, <1>9, <2>1
<1>13. ASSUME InOrder(list) PROVE InOrder(q)
  <2> SUFFICES ASSUME NEW i \in 1..Len(q), NEW j \in 1..Len(q), i < j PROVE q[i].begin < q[j].begin
    BY DEF InOrder
  <2>1. \A k \in 1..Len(list) : list[k].begin \in Nat /\ list[k].begin # b.begin
    BY <1>8, BlockFacts
  <2>2. b.begin \in Nat
    BY BlockFacts
  <2>3. ASSUME NEW k \in 1..l PROVE list[k].begin < b.begin
    <3>1. k - 1 \in 0..Len(list) /\ k - 1 # Len(list) /\ (k - 1) + 1 = k /\ k - 1 < l /\ k \in 1..Len(list)
      BY <1>1, <1>3
    <3>2. k - 1 \notin T
      <4> HIDE DEF T
      <4> QED
        BY <1>2, <1>3, <3>1
    <3>3. ~(list[k].begin > b.begin)
      BY <3>1, <3>2
    <3> QED
      BY <2>1, <2>2, <3>1, <3>3
  <2>4. ASSUME NEW k \in l + 1..Len(list) PROVE list[k].begin > b.begin
    <3>1. l + 1 \in 1..Len(list) /\ k \in 1..Len(list) /\ l # Len(list)
      BY <1>1, <1>3
    <3>2. list[l + 1].begin > b.begin
      BY <1>2, <3>1
    <3>3. k = l + 1 \/ list[l + 1].begin < list[k].begin
      BY <1>13, <3>1 DEF InOrder
    <3> QED
      BY <2>1, <2>2, <3>1, <3>2, <3>3
  <2>5. CASE j <= l
    <3>1. i \in 1..l /\ j \in 1..l /\ i \in 1..Len(list) /\ j \in 1..Len(list)
      BY <1>1, <1>3, <2>5
    <3> QED
      BY <1>7, <1>13, <3>1 DEF InOrder
  <2>6. CASE j = l + 1
    <3>1. i \in 1..l
      BY <1>3, <2>6
    <3> QED
      BY <1>7, <2>3, <2>6, <3>1
  <2>7. CASE j > l + 1
    <3>1. j \in l + 2..Len(list) + 1 /\ j - 1 \in l + 1..Len(list) /\ j - 1 \in 1..Len(list)
      BY <1>1, <1>3, <1>7, <2>7
    <3>2. q[j] = list[j - 1]
      BY <1>7, <3>1
    <3>3. CASE i <= l
      <4>1. i \in 1..l /\ i \in 1..Len(list) /\ i < j - 1
        BY <1>1, <1>3, <2>7, <3>3
      <4> QED
        BY <1>7, <1>13, <3>1, <3>2, <4>1 DEF InOrder
    <3>4. CASE i = l + 1
      BY <1>7, <2>4, <3>1, <3>2, <3>4, <2>1, <2>2
    <3>5. CASE i > l + 1
      <4>1. i \in l + 2..Len(list) + 1 /\ i - 1 \in 1..Len(list) /\ i - 1 < j - 1
        BY <1>1, <1>3, <1>7, <3>5
      <4> QED
        BY <1>7, <1>13, <3>1, <3>2, <4>1 DEF InOrder
    <3> QED
      BY <1>3, <3>3, <3>4, <3>5
  <2> QED
    BY <1>3, <2>5, <2>6, <2>7
<1> QED
  BY <1>6, <1>10, <1>11, <1>12, <1>13 DEF q

\* malloc_n finds n chunks whose addresses follow one another.
LEMMA Contiguous ==
  ASSUME NEW s \in Seq(Nat), NEW n \in Nat \ {0}, NEW i \in 0..Len(s), try_malloc_n(s, i, n)
  PROVE  /\ i + n <= Len(s) /\ s[i + 1] \in Range(s) /\ s[i + 1] \in Nat
         /\ {s[j] : j \in i + 1..i + n} = s[i + 1]..s[i + 1] + n - 1
<1>1. i + n <= Len(s) /\ Len(s) \in Nat /\ \A j \in i + 1..i + n - 1 : s[j + 1] = s[j] + 1
  BY DEF try_malloc_n
<1>2. s[i + 1] \in Range(s) /\ s[i + 1] \in Nat
  BY <1>1, ElementFacts
<1> DEFINE a == s[i + 1]
           S == {k \in Nat : k < n => s[i + 1 + k] = a + k}
<1>3. 0 \in S
  BY <1>2
<1>4. ASSUME NEW k \in Nat, k \in S PROVE k + 1 \in S
  <2> SUFFICES ASSUME k + 1 < n PROVE s[i + 1 + (k + 1)] = a + (k + 1)
    OBVIOUS
  <2>1. i + 1 + k \in i + 1..i + n - 1 /\ i + 1 + (k + 1) = (i + 1 + k) + 1 /\ k < n
    BY <1>1
  <2>2. s[(i + 1 + k) + 1] = s[i + 1 + k] + 1
    BY <1>1, <2>1
  <2>3. s[i + 1 + k] = a + k
    BY <1>4, <2>1
  <2> HIDE DEF a
  <2>4. a \in Nat
    BY <1>2 DEF a
  <2> QED
    BY <2>1, <2>2, <2>3, <2>4
<1> HIDE DEF S
<1>5. Nat \subseteq S
  BY <1>3, <1>4, InductionInSets
<1>6. ASSUME NEW j \in i + 1..i + n PROVE s[j] = a + (j - i - 1) /\ j - i - 1 \in 0..n - 1
  <2>1. j - i - 1 \in Nat /\ j - i - 1 < n /\ i + 1 + (j - i - 1) = j
    OBVIOUS
  <2>2. j - i - 1 \in S
    BY <1>5, <2>1
  <2> QED
    BY <2>1, <2>2 DEF S
<1> HIDE DEF a
<1>7. a \in Nat
  BY <1>2 DEF a
<1>8. ASSUME NEW x \in a..a + n - 1 PROVE \E j \in i + 1..i + n : x = s[j]
  <2>1. x - a + i + 1 \in i + 1..i + n /\ a + ((x - a + i + 1) - i - 1) = x
    BY <1>7
  <2> QED
    BY <1>6, <2>1
<1>9. {s[j] : j \in i + 1..i + n} = a..a + n - 1
  <2>1. ASSUME NEW j \in i + 1..i + n PROVE s[j] \in a..a + n - 1
    BY <1>6, <1>7
  <2> QED
    BY <1>8, <2>1
<1> QED
  BY <1>1, <1>2, <1>9 DEF a

-----------------------------------------------------------------------------
(* The pool: the walk of release_memory *)

WalkStart == [passed |-> <<>>, ahead |-> first, kept |-> <<>>]

ReleaseStep(W, s) ==
  IF s = {} THEN WalkStart ELSE ReleaseBlock(W[s \ {Max(s)}], list[Max(s)])

\* The walk over the first n blocks, as the fold runs it.
LEMMA ReleaseWalkExists ==
  ASSUME NEW n \in Nat
  PROVE  \E W : W = [s \in SUBSET (1..n) |-> ReleaseStep(W, s)]
<1> DEFINE S == {m \in Nat : \E W : W = [s \in SUBSET (1..m) |-> ReleaseStep(W, s)]}
<1>1. 0 \in S
  <2> DEFINE W == [s \in SUBSET (1..0) |-> WalkStart]
  <2>1. \A s \in SUBSET (1..0) : s = {}
    OBVIOUS
  <2>2. W = [s \in SUBSET (1..0) |-> ReleaseStep(W, s)]
    BY <2>1 DEF ReleaseStep
  <2> QED
    BY <2>2
<1>2. ASSUME NEW m \in Nat, m \in S PROVE m + 1 \in S
  <2>1. PICK V : V = [s \in SUBSET (1..m) |-> ReleaseStep(V, s)]
    BY <1>2
  <2> DEFINE W == [s \in SUBSET (1..m + 1) |->
                     IF m + 1 \in s THEN ReleaseBlock(V[s \ {m + 1}], list[m + 1]) ELSE V[s]]
  <2>2. ASSUME NEW s \in SUBSET (1..m) PROVE W[s] = V[s]
    <3>1. s \in SUBSET (1..m + 1) /\ m + 1 \notin s
      OBVIOUS
    <3> QED
      BY <3>1
  <2>3. ASSUME NEW s \in SUBSET (1..m + 1) PROVE W[s] = ReleaseStep(W, s)
    <3>1. CASE m + 1 \in s
      <4>1. Max(s) = m + 1
        <5>1. s \in SUBSET Nat /\ \A y \in s : y <= m + 1
          OBVIOUS
        <5> QED
          BY <3>1, <5>1, MaxFacts
      <4>2. s \ {m + 1} \in SUBSET (1..m)
        OBVIOUS
      <4>3. W[s] = ReleaseBlock(V[s \ {m + 1}], list[m + 1])
        BY <3>1
      <4>4. W[s \ {m + 1}] = V[s \ {m + 1}]
        BY <2>2, <4>2
      <4> HIDE DEF W
      <4> QED
        BY <3>1, <4>1, <4>3, <4>4 DEF ReleaseStep
    <3>2. CASE m + 1 \notin s
      <4>1. s \in SUBSET (1..m)
        BY <3>2
      <4>2. W[s] = V[s] /\ V[s] = ReleaseStep(V, s)
        BY <2>1, <2>2, <4>1
      <4> HIDE DEF W
      <4>3. CASE s = {}
        BY <4>2, <4>3 DEF ReleaseStep
      <4>4. CASE s # {}
        <5>1. s \ {Max(s)} \in SUBSET (1..m)
          BY <4>1
        <5>2. W[s \ {Max(s)}] = V[s \ {Max(s)}]
          BY <2>2, <5>1
        <5> QED
          BY <4>2, <4>4, <5>2 DEF ReleaseStep
      <4> QED
        BY <4>3, <4>4
    <3> QED
      BY <3>1, <3>2
  <2>4. W = [s \in SUBSET (1..m + 1) |-> W[s]]
    OBVIOUS
  <2> HIDE DEF W
  <2>5. W = [s \in SUBSET (1..m + 1) |-> ReleaseStep(W, s)]
    BY <2>3, <2>4
  <2> QED
    BY <2>5
<1> HIDE DEF S
<1>3. Nat \subseteq S
  BY <1>1, <1>2, InductionInSets
<1> QED
  BY <1>3 DEF S

LEMMA ReleaseWalk ==
  ASSUME list \in Seq(Blocks)
  PROVE  \E W : /\ W[0] = WalkStart
                /\ \A i \in 1..Len(list) : W[i] = ReleaseBlock(W[i - 1], list[i])
                /\ FoldLeft(ReleaseBlock, WalkStart, list) = W[Len(list)]
<1> DEFINE n == Len(list)
           V == CHOOSE V : V = [s \in SUBSET (1..n) |-> ReleaseStep(V, s)]
           W == [i \in 0..n |-> V[1..i]]
<1>1. n \in Nat /\ DOMAIN list = 1..n
  OBVIOUS
<1>2. V = [s \in SUBSET (1..n) |-> ReleaseStep(V, s)]
  BY <1>1, ReleaseWalkExists
<1>3. FoldLeft(ReleaseBlock, WalkStart, list) = V[1..n]
  <2>1. DOMAIN list = 1..n
    BY <1>1
  <2> QED
    BY <2>1 DEF FoldLeft, MapThenFoldSet, ReleaseStep
<1> HIDE DEF V, n
<1>4. \A s \in SUBSET (1..n) : V[s] = ReleaseStep(V, s)
  BY <1>2
<1>5. W[0] = WalkStart
  <2>1. 1..0 = {} /\ {} \in SUBSET (1..n) /\ 0 \in 0..n
    BY <1>1
  <2>2. V[{}] = WalkStart
    BY <1>4, <2>1 DEF ReleaseStep
  <2> QED
    BY <2>1, <2>2
<1>6. ASSUME NEW i \in 1..n PROVE W[i] = ReleaseBlock(W[i - 1], list[i])
  <2>1. 1..i \in SUBSET (1..n) /\ 1..i # {} /\ (1..i) \ {i} = 1..i - 1 /\ i \in 0..n /\ i - 1 \in 0..n
    <3>1. n \in Nat /\ i \in 1..n
      BY <1>1
    <3>2. i \in 0..n /\ i - 1 \in 0..n /\ i \in 1..i
      BY ONLY <3>1
    <3>3. 1..i \subseteq 1..n
      BY ONLY <3>1
    <3>4. (1..i) \ {i} = 1..i - 1
      BY ONLY <3>1
    <3> QED
      BY ONLY <3>2, <3>3, <3>4
  <2>2. Max(1..i) = i
    <3>1. 1..i \in SUBSET Nat /\ i \in 1..i /\ \A y \in 1..i : y <= i
      OBVIOUS
    <3> QED
      BY <3>1, MaxFacts
  <2>3. V[1..i] = ReleaseBlock(V[1..i - 1], list[i])
    BY <1>4, <2>1, <2>2 DEF ReleaseStep
  <2> QED
    BY <2>1, <2>3
<1>7. W[n] = V[1..n]
  BY <1>1
<1> HIDE DEF W
<1> QED
  BY <1>3, <1>5, <1>6, <1>7 DEF n

LEMMA PrefixFacts ==
  ASSUME NEW s \in Seq(Nat), NEW k \in 0..Len(s)
  PROVE  LET p == SubSeq(s, 1, k) IN
         /\ p \in Seq(Nat) /\ Len(p) = k /\ \A i \in 1..k : p[i] = s[i]
         /\ Range(p) = {s[i] : i \in 1..k}
         /\ Ascending(s) => Ascending(p)
<1> DEFINE p == SubSeq(s, 1, k)
<1>1. p \in Seq(Nat) /\ Len(p) = k /\ \A i \in 1..k : p[i] = s[i]
  OBVIOUS
<1> HIDE DEF p
<1>2. Range(p) = {s[i] : i \in 1..k}
  <2>1. /\ \A x \in Range(p) : \E i \in 1..Len(p) : x = p[i]
        /\ \A i \in 1..Len(p) : p[i] \in Range(p)
    BY <1>1, ElementFacts
  <2> QED
    BY <1>1, <2>1
<1>3. ASSUME Ascending(s) PROVE Ascending(p)
  <2> SUFFICES ASSUME NEW i \in 1..Len(p), NEW j \in 1..Len(p), i < j PROVE p[i] < p[j]
    BY DEF Ascending
  <2>1. i \in 1..k /\ j \in 1..k /\ i \in 1..Len(s) /\ j \in 1..Len(s)
    BY <1>1
  <2> QED
    BY <1>1, <1>3, <2>1 DEF Ascending
<1> QED
  BY <1>1, <1>2, <1>3 DEF p

LEMMA SuffixFacts ==
  ASSUME NEW s \in Seq(Nat), NEW k \in 0..Len(s)
  PROVE  LET p == SubSeq(s, k + 1, Len(s)) IN
         /\ p \in Seq(Nat) /\ Len(p) = Len(s) - k
         /\ \A i \in 1..Len(s) - k : p[i] = s[k + i]
         /\ Range(p) = {s[i] : i \in k + 1..Len(s)}
         /\ Ascending(s) => Ascending(p)
<1> DEFINE p == SubSeq(s, k + 1, Len(s))
<1>1. p \in Seq(Nat) /\ Len(p) = Len(s) - k /\ \A i \in 1..Len(s) - k : p[i] = s[k + i]
  OBVIOUS
<1> HIDE DEF p
<1>2. Range(p) = {s[i] : i \in k + 1..Len(s)}
  <2>1. /\ \A x \in Range(p) : \E i \in 1..Len(p) : x = p[i]
        /\ \A i \in 1..Len(p) : p[i] \in Range(p)
    BY <1>1, ElementFacts
  <2>2. ASSUME NEW i \in k + 1..Len(s) PROVE s[i] \in Range(p)
    <3>1. i - k \in 1..Len(p) /\ i - k \in 1..Len(s) - k /\ k + (i - k) = i
      BY <1>1, SMTT(20)
    <3>2. p[i - k] = s[k + (i - k)]
      BY <1>1, <3>1
    <3>3. p[i - k] \in Range(p)
      BY <2>1, <3>1
    <3> QED
      BY <3>1, <3>2, <3>3
  <2>3. ASSUME NEW x \in Range(p) PROVE x \in {s[i] : i \in k + 1..Len(s)}
    <3>1. PICK i \in 1..Len(p) : x = p[i]
      BY <2>1
    <3>2. i \in 1..Len(s) - k /\ k + i \in k + 1..Len(s)
      BY <1>1
    <3>3. x = s[k + i]
      BY <1>1, <3>1, <3>2
    <3> QED
      BY <3>2, <3>3
  <2> QED
    BY <2>2, <2>3
<1>3. ASSUME Ascending(s) PROVE Ascending(p)
  <2> SUFFICES ASSUME NEW i \in 1..Len(p), NEW j \in 1..Len(p), i < j PROVE p[i] < p[j]
    BY DEF Ascending
  <2>1. /\ i \in 1..Len(s) - k /\ j \in 1..Len(s) - k
        /\ k + i \in 1..Len(s) /\ k + j \in 1..Len(s) /\ k + i < k + j
    <3>1. i \in 1..Len(s) - k /\ j \in 1..Len(s) - k /\ k \in 0..Len(s) /\ Len(s) \in Nat
      BY <1>1
    <3> QED
      BY ONLY <3>1, i < j
  <2>2. p[i] = s[k + i] /\ p[j] = s[k + j]
    BY <1>1, <2>1
  <2> QED
    BY <1>3, <2>1, <2>2 DEF Ascending
<1> QED
  BY <1>1, <1>2, <1>3 DEF p

LEMMA ConcatFacts ==
  ASSUME NEW s \in Seq(Nat), NEW t \in Seq(Nat)
  PROVE  /\ s \o t \in Seq(Nat)
         /\ Range(s \o t) = Range(s) \cup Range(t)
         /\ (/\ Ascending(s) /\ Ascending(t)
             /\ \A x \in Range(s), y \in Range(t) : x < y) => Ascending(s \o t)
<1> DEFINE p == s \o t
<1>1. /\ p \in Seq(Nat) /\ Len(p) = Len(s) + Len(t) /\ Len(s) \in Nat /\ Len(t) \in Nat
      /\ \A i \in 1..Len(s) : p[i] = s[i]
      /\ \A i \in Len(s) + 1..Len(s) + Len(t) : p[i] = t[i - Len(s)]
  BY ConcatIs
<1> HIDE DEF p
<1>2. /\ \A x \in Range(p) : \E i \in 1..Len(p) : x = p[i]
      /\ \A i \in 1..Len(p) : p[i] \in Range(p)
      /\ \A x \in Range(s) : \E i \in 1..Len(s) : x = s[i]
      /\ \A i \in 1..Len(s) : s[i] \in Range(s)
      /\ \A x \in Range(t) : \E i \in 1..Len(t) : x = t[i]
      /\ \A i \in 1..Len(t) : t[i] \in Range(t)
  BY <1>1, ElementFacts
<1>3. ASSUME NEW i \in 1..Len(p)
      PROVE  \/ i \in 1..Len(s) /\ p[i] = s[i]
             \/ i > Len(s) /\ i - Len(s) \in 1..Len(t) /\ p[i] = t[i - Len(s)]
  <2>1. CASE i <= Len(s)
    BY <1>1, <2>1
  <2>2. CASE i > Len(s)
    <3>1. i \in Len(s) + 1..Len(s) + Len(t) /\ i - Len(s) \in 1..Len(t)
      BY <1>1, <2>2
    <3> QED
      BY <1>1, <2>2, <3>1
  <2> QED
    BY <1>1, <2>1, <2>2
<1>4. ASSUME NEW x \in Range(p) PROVE x \in Range(s) \cup Range(t)
  <2>1. PICK i \in 1..Len(p) : x = p[i]
    BY <1>2
  <2>2. CASE i \in 1..Len(s) /\ p[i] = s[i]
    BY <1>2, <2>1, <2>2
  <2>3. CASE i - Len(s) \in 1..Len(t) /\ p[i] = t[i - Len(s)]
    BY <1>2, <2>1, <2>3
  <2> QED
    BY <1>3, <2>2, <2>3
<1>5. ASSUME NEW x \in Range(s) PROVE x \in Range(p)
  <2>1. PICK i \in 1..Len(s) : x = s[i]
    BY <1>2
  <2>2. i \in 1..Len(p) /\ p[i] = x
    BY <1>1, <2>1
  <2> QED
    BY <1>2, <2>2
<1>6. ASSUME NEW x \in Range(t) PROVE x \in Range(p)
  <2>1. PICK i \in 1..Len(t) : x = t[i]
    BY <1>2
  <2>2. i + Len(s) \in Len(s) + 1..Len(s) + Len(t) /\ i + Len(s) \in 1..Len(p) /\ (i + Len(s)) - Len(s) = i
    BY <1>1
  <2>3. p[i + Len(s)] = x
    BY <1>1, <2>1, <2>2
  <2> QED
    BY <1>2, <2>2, <2>3
<1>7. ASSUME Ascending(s), Ascending(t), \A x \in Range(s), y \in Range(t) : x < y
      PROVE  Ascending(p)
  <2> SUFFICES ASSUME NEW i \in 1..Len(p), NEW j \in 1..Len(p), i < j PROVE p[i] < p[j]
    BY DEF Ascending
  <2>1. CASE j \in 1..Len(s) /\ p[j] = s[j]
    <3>1. i \in 1..Len(s)
      BY <1>1, <2>1
    <3> QED
      BY <1>1, <1>7, <2>1, <3>1 DEF Ascending
  <2>2. CASE j > Len(s) /\ j - Len(s) \in 1..Len(t) /\ p[j] = t[j - Len(s)]
    <3>1. CASE i \in 1..Len(s) /\ p[i] = s[i]
      BY <1>2, <1>7, <2>2, <3>1
    <3>2. CASE i > Len(s) /\ i - Len(s) \in 1..Len(t) /\ p[i] = t[i - Len(s)]
      <4>1. i - Len(s) < j - Len(s)
        BY <1>1
      <4> QED
        BY <1>7, <2>2, <3>2, <4>1 DEF Ascending
    <3> QED
      BY <1>3, <3>1, <3>2
  <2> QED
    BY <1>3, <2>1, <2>2
<1> QED
  BY <1>1, <1>4, <1>5, <1>6, <1>7 DEF p

\* An ascending list that starts no earlier than a and has a..a + n - 1 starts with it.
LEMMA RunAhead ==
  ASSUME NEW s \in Seq(Nat), Ascending(s), NEW a \in Nat, NEW n \in Nat,
         \A x \in Range(s) : x >= a, a..a + n - 1 \subseteq Range(s)
  PROVE  n <= Len(s) /\ \A i \in 1..n : s[i] = a + i - 1
<1> DEFINE S == {k \in Nat : \A i \in 1..n : i <= k => i <= Len(s) /\ s[i] = a + i - 1}
<1>1. /\ \A x \in Range(s) : \E i \in 1..Len(s) : x = s[i]
      /\ \A i \in 1..Len(s) : s[i] \in Nat /\ s[i] \in Range(s)
      /\ Len(s) \in Nat
  BY ElementFacts
<1>2. 0 \in S
  OBVIOUS
<1>3. ASSUME NEW k \in Nat, k \in S PROVE k + 1 \in S
  <2> SUFFICES ASSUME NEW i \in 1..n, i <= k + 1 PROVE i <= Len(s) /\ s[i] = a + i - 1
    OBVIOUS
  <2>1. CASE i <= k
    BY <1>3, <2>1
  <2>2. CASE i = k + 1
    <3>1. a + k \in Range(s)
      BY <2>2
    <3>2. PICK m \in 1..Len(s) : a + k = s[m]
      BY <1>1, <3>1
    <3>3. m > k
      <4> SUFFICES ASSUME m <= k PROVE FALSE
        BY <1>1
      <4>1. m \in 1..n
        BY <2>2
      <4>2. s[m] = a + m - 1
        BY <1>3, <4>1
      <4> QED
        BY <3>2, <4>2
    <3>4. k + 1 \in 1..Len(s) /\ s[k + 1] \in Nat
      BY <1>1, <3>3
    <3>5. s[k + 1] <= a + k
      <4>1. m = k + 1 \/ s[k + 1] < s[m]
        BY <1>1, <3>3, <3>4 DEF Ascending
      <4> QED
        BY <3>2, <3>4, <4>1
    <3>6. s[k + 1] >= a + k
      <4>1. CASE k = 0
        BY <1>1, <3>4, <4>1
      <4>2. CASE k # 0
        <5>1. k \in 1..n /\ k \in 1..Len(s) /\ k < k + 1
          BY <1>1, <2>2, <3>4, <4>2
        <5>2. s[k] = a + k - 1
          BY <1>3, <5>1
        <5>3. s[k] < s[k + 1]
          BY <3>4, <5>1 DEF Ascending
        <5> QED
          BY <3>4, <5>1, <5>2, <5>3
      <4> QED
        BY <4>1, <4>2
    <3>7. s[k + 1] = a + k
      BY <3>4, <3>5, <3>6
    <3> QED
      BY <1>1, <2>2, <3>4, <3>7
  <2> QED
    BY <2>1, <2>2
<1> HIDE DEF S
<1>4. n \in S
  BY <1>2, <1>3, InductionInSets
<1>5. \A i \in 1..n : i <= Len(s) /\ s[i] = a + i - 1
  BY <1>4 DEF S
<1>6. n <= Len(s)
  <2>1. CASE n = 0
    BY <1>1, <2>1
  <2>2. CASE n # 0
    <3>1. n \in 1..n
      BY <2>2
    <3> QED
      BY <1>5, <3>1
  <2> QED
    BY <2>1, <2>2
<1> QED
  BY <1>5, <1>6

\* The test of release_memory finds out whether all the chunks of b are free.
LEMMA AllFreeIs ==
  ASSUME NEW s \in Seq(Nat), Ascending(s), NEW b \in Blocks, \A x \in Range(s) : x >= b.begin
  PROVE  /\ AllFree(s, b) <=> Chunks(b) \subseteq Range(s)
         /\ AllFree(s, b) => /\ b.chunks <= Len(s)
                             /\ Chunks(b) = {s[i] : i \in 1..b.chunks}
<1> DEFINE n == b.chunks
           a == b.begin
           p == SubSeq(s, 1, n)
           g == segregate(a, n)
<1>1. n \in Nat \ {0} /\ a \in Nat /\ Chunks(b) = a..a + n - 1
  BY DEF Blocks, Chunks
<1>2. g \in Seq(Nat) /\ Len(g) = n /\ \A i \in 1..n : g[i] = a + i - 1
  BY <1>1, SegregateFacts
<1> HIDE DEF g, p
<1>3. ASSUME n <= Len(s)
      PROVE  p \in Seq(Nat) /\ Len(p) = n /\ \A i \in 1..n : p[i] = s[i]
  <2>1. n \in 0..Len(s)
    BY <1>1, <1>3
  <2> QED
    BY <2>1, PrefixFacts DEF p
<1>4. AllFree(s, b) <=> n <= Len(s) /\ p = g
  BY DEF AllFree, p, g
<1> HIDE DEF n, a
<1>5. \A i \in 1..Len(s) : s[i] \in Range(s)
  BY ElementFacts
<1>6. ASSUME AllFree(s, b)
      PROVE  n <= Len(s) /\ Chunks(b) = {s[i] : i \in 1..n} /\ Chunks(b) \subseteq Range(s)
  <2>1. n <= Len(s) /\ \A i \in 1..n : s[i] = a + i - 1
    BY <1>2, <1>3, <1>4, <1>6
  <2>2. ASSUME NEW x \in a..a + n - 1 PROVE x \in {s[i] : i \in 1..n}
    <3>1. x - a + 1 \in 1..n /\ a + (x - a + 1) - 1 = x
      BY <1>1
    <3> QED
      BY <2>1, <3>1
  <2>3. \A i \in 1..n : s[i] \in a..a + n - 1
    BY <1>1, <2>1
  <2>4. \A i \in 1..n : s[i] \in Range(s)
    BY <1>1, <1>5, <2>1
  <2>5. a..a + n - 1 = {s[i] : i \in 1..n}
    BY <2>2, <2>3
  <2>6. Chunks(b) = {s[i] : i \in 1..n}
    BY <1>1, <2>5
  <2>7. Chunks(b) \subseteq Range(s)
    BY ONLY <2>4, <2>6
  <2> QED
    BY <2>1, <2>6, <2>7
<1>7. ASSUME Chunks(b) \subseteq Range(s) PROVE AllFree(s, b)
  <2>0. \A x \in Range(s) : x >= a
    BY DEF a
  <2>1. n <= Len(s) /\ \A i \in 1..n : s[i] = a + i - 1
    BY <1>1, <1>7, <2>0, RunAhead
  <2>2. p = g
    BY <1>2, <1>3, <2>1, SeqExtensional
  <2> QED
    BY <1>4, <2>1, <2>2
<1> QED
  BY <1>6, <1>7 DEF n

LEMMA AppendBlock ==
  ASSUME NEW L \in Seq(Blocks), NEW b \in Blocks
  PROVE  /\ Append(L, b) \in Seq(Blocks)
         /\ Range(Append(L, b)) = Range(L) \cup {b}
         /\ (InOrder(L) /\ \A c \in Range(L) : c.begin < b.begin) => InOrder(Append(L, b))
<1> DEFINE q == Append(L, b)
<1>1. /\ q \in Seq(Blocks) /\ Len(q) = Len(L) + 1 /\ Len(L) \in Nat /\ q[Len(L) + 1] = b
      /\ \A i \in 1..Len(L) : q[i] = L[i]
  OBVIOUS
<1> HIDE DEF q
<1>2. /\ \A x \in Range(q) : \E i \in 1..Len(q) : x = q[i]
      /\ \A i \in 1..Len(q) : q[i] \in Range(q)
  BY <1>1, ElementFacts
<1>3. /\ \A x \in Range(L) : \E i \in 1..Len(L) : x = L[i]
      /\ \A i \in 1..Len(L) : L[i] \in Range(L)
  BY <1>1, ElementFacts
<1>4. ASSUME NEW i \in 1..Len(q) PROVE i = Len(L) + 1 \/ i \in 1..Len(L)
  BY <1>1
<1>5. \A x \in Range(q) : x \in Range(L) \cup {b}
  BY <1>1, <1>2, <1>3, <1>4
<1>6. b \in Range(q)
  <2>1. Len(L) + 1 \in 1..Len(q)
    BY <1>1
  <2> QED
    BY <1>1, <1>2, <2>1
<1>7. ASSUME NEW x \in Range(L) PROVE x \in Range(q)
  <2>1. PICK i \in 1..Len(L) : x = L[i]
    BY <1>3
  <2>2. i \in 1..Len(q) /\ q[i] = x
    BY <1>1, <2>1
  <2> QED
    BY <1>2, <2>2
<1>8. ASSUME InOrder(L), \A c \in Range(L) : c.begin < b.begin PROVE InOrder(q)
  <2> SUFFICES ASSUME NEW i \in 1..Len(q), NEW j \in 1..Len(q), i < j PROVE q[i].begin < q[j].begin
    BY DEF InOrder
  <2>1. i \in 1..Len(L)
    BY <1>1
  <2>2. CASE j = Len(L) + 1
    BY <1>1, <1>3, <1>8, <2>1, <2>2
  <2>3. CASE j \in 1..Len(L)
    BY <1>1, <1>8, <2>1, <2>3 DEF InOrder
  <2> QED
    BY <1>4, <2>2, <2>3
<1> QED
  BY <1>1, <1>5, <1>6, <1>7, <1>8 DEF q

\* What one block does to the walk: v is the walk behind it, w the walk before.
AfterBlock(v, w, b) ==
  /\ v.passed \in Seq(Nat) /\ v.ahead \in Seq(Nat) /\ v.kept \in Seq(Blocks)
  /\ Ascending(v.ahead) /\ Range(v.ahead) = Range(w.ahead) \ Chunks(b)
  /\ Chunks(b) \subseteq Range(w.ahead) => v.kept = w.kept /\ v.passed = w.passed
  /\ ~(Chunks(b) \subseteq Range(w.ahead)) =>
       /\ v.kept = Append(w.kept, b)
       /\ Range(v.passed) = Range(w.passed) \cup (Range(w.ahead) \cap Chunks(b))
  /\ (Ascending(w.passed) /\ \A x \in Range(w.passed) : x < b.begin) => Ascending(v.passed)

Walk(w) == w \in [passed : Seq(Nat), ahead : Seq(Nat), kept : Seq(Blocks)]

LEMMA ReleaseBlockFacts ==
  ASSUME NEW w, Walk(w), Ascending(w.ahead), NEW b \in Blocks,
         \A x \in Range(w.ahead) : x >= b.begin
  PROVE  AfterBlock(ReleaseBlock(w, b), w, b)
<1> DEFINE n == b.chunks
           s == w.ahead
           whole == AllFree(s, b)
           T == {j \in 1..Len(s) : j = Len(s) \/ s[j + 1] >= BlockEnd(b)}
           inside == Min(T)
           v == ReleaseBlock(w, b)
<1>1. /\ w.passed \in Seq(Nat) /\ s \in Seq(Nat) /\ w.kept \in Seq(Blocks) /\ Len(s) \in Nat
      /\ w = [passed |-> w.passed, ahead |-> w.ahead, kept |-> w.kept]
  BY DEF Walk
<1>2. /\ b.begin \in Nat /\ n \in Nat \ {0} /\ BlockEnd(b) = b.begin + n
      /\ Chunks(b) = b.begin..BlockEnd(b) - 1 /\ b.begin \in Chunks(b)
  BY BlockFacts
<1>3. /\ whole <=> Chunks(b) \subseteq Range(s)
      /\ whole => n <= Len(s) /\ Chunks(b) = {s[i] : i \in 1..n}
  BY <1>1, AllFreeIs
<1>10. /\ BlockEnd(b) \in Nat
       /\ \A x \in Nat : x >= BlockEnd(b) => x \notin Chunks(b)
       /\ \A x \in Nat : x >= b.begin /\ x \notin Chunks(b) => x >= BlockEnd(b)
  BY <1>2
<1>4. /\ \A x \in Range(s) : \E i \in 1..Len(s) : x = s[i]
      /\ \A i \in 1..Len(s) : s[i] \in Nat /\ s[i] \in Range(s) /\ s[i] >= b.begin
  <2>1. /\ \A x \in Range(s) : \E i \in 1..Len(s) : x = s[i]
        /\ \A i \in 1..Len(s) : s[i] \in Nat /\ s[i] \in Range(s)
    BY <1>1, ElementFacts
  <2> QED
    BY <2>1
<1>5. Append(w.kept, b) \in Seq(Blocks)
  BY <1>1
<1>6. CASE s = <<>>
  <2>1. v = [w EXCEPT !.kept = Append(@, b)]
    BY <1>6 DEF ReleaseBlock
  <2>2. v.passed = w.passed /\ v.ahead = w.ahead /\ v.kept = Append(w.kept, b)
    BY <1>1, <2>1
  <2>3. Range(s) = {}
    BY <1>4, <1>6
  <2>4. ~(Chunks(b) \subseteq Range(s))
    BY <1>2, <2>3
  <2> HIDE DEF v
  <2> QED
    BY <1>1, <1>5, <2>2, <2>3, <2>4 DEF AfterBlock, v
<1>7. CASE s # <<>> /\ whole
  <2>1. v = [w EXCEPT !.ahead = SubSeq(@, n + 1, Len(@))]
    BY <1>7 DEF ReleaseBlock
  <2>2. v.passed = w.passed /\ v.ahead = SubSeq(s, n + 1, Len(s)) /\ v.kept = w.kept
    BY <1>1, <2>1
  <2> HIDE DEF v
  <2>3. n \in 0..Len(s)
    BY <1>1, <1>2, <1>3, <1>7
  <2>4. /\ v.ahead \in Seq(Nat) /\ Ascending(v.ahead)
        /\ Range(v.ahead) = {s[i] : i \in n + 1..Len(s)}
    BY <1>1, <2>2, <2>3, SuffixFacts
  <2>5. {s[i] : i \in n + 1..Len(s)} = Range(s) \ Chunks(b)
    <3> HIDE DEF s, n
    <3>1. Chunks(b) = {s[i] : i \in 1..n} /\ Ascending(s)
      BY <1>3, <1>7 DEF s
    <3>2. ASSUME NEW i \in n + 1..Len(s) PROVE s[i] \in Range(s) \ Chunks(b)
      <4>1. i \in 1..Len(s)
        BY <2>3
      <4>2. ASSUME NEW j \in 1..n PROVE s[j] # s[i]
        <5>1. j \in 1..Len(s) /\ j < i
          BY <2>3
        <5>2. s[j] < s[i]
          BY <3>1, <4>1, <5>1 DEF Ascending
        <5> QED
          BY <1>4, <4>1, <5>1, <5>2
      <4> QED
        BY <1>4, <3>1, <4>1, <4>2
    <3>3. ASSUME NEW x \in Range(s) \ Chunks(b) PROVE x \in {s[i] : i \in n + 1..Len(s)}
      <4>1. PICK i \in 1..Len(s) : x = s[i]
        BY <1>4
      <4>2. i \notin 1..n
        BY <3>1, <4>1
      <4>3. i \in n + 1..Len(s)
        BY <2>3, <4>1, <4>2
      <4> QED
        BY <4>1, <4>3
    <3> QED
      BY <3>2, <3>3
  <2>6. Chunks(b) \subseteq Range(s)
    BY <1>3, <1>7
  <2> QED
    BY <1>1, <2>2, <2>4, <2>5, <2>6 DEF AfterBlock, v
<1>8. CASE s # <<>> /\ ~whole /\ Head(s) \in Chunks(b)
  <2>1. v = [passed |-> w.passed \o SubSeq(s, 1, inside),
             ahead  |-> SubSeq(s, inside + 1, Len(s)),
             kept   |-> Append(w.kept, b)]
    BY <1>8 DEF ReleaseBlock
  <2> DEFINE p == SubSeq(s, 1, inside)
  <2>2. /\ v.passed = w.passed \o p /\ v.ahead = SubSeq(s, inside + 1, Len(s))
        /\ v.kept = Append(w.kept, b)
    <3> HIDE DEF v, inside, s
    <3> QED
      BY <2>1
  <2>3. Len(s) \in 1..Len(s) /\ s[1] \in Chunks(b)
    BY <1>1, <1>8
  <2>4. inside \in T /\ \A y \in T : inside <= y
    <3>1. T \in SUBSET Nat /\ T # {}
      BY <2>3
    <3> HIDE DEF T
    <3> QED
      BY <3>1, MinFacts
  <2> HIDE DEF v, inside, p
  <2>5. inside \in 1..Len(s) /\ inside \in 0..Len(s)
    BY <2>4
  <2>6. ASSUME NEW i \in 1..inside PROVE s[i] \in Chunks(b)
    <3>1. CASE i = 1
      BY <2>3, <3>1
    <3>2. CASE i # 1
      <4>1. i - 1 \in 1..Len(s) /\ i - 1 # Len(s) /\ (i - 1) + 1 = i /\ i - 1 < inside /\ i \in 1..Len(s)
        BY <1>1, <2>5, <3>2
      <4>2. i - 1 \notin T
        <5> HIDE DEF T
        <5>1. inside \in Int
          BY <2>5
        <5> QED
          BY <2>4, <4>1, <5>1
      <4>3. ~(s[i] >= BlockEnd(b))
        BY <4>1, <4>2
      <4> QED
        BY <1>2, <1>4, <4>1, <4>3, SMTT(20)
    <3> QED
      BY <3>1, <3>2
  <2>7. ASSUME NEW i \in inside + 1..Len(s) PROVE s[i] \notin Chunks(b)
    <3>1. inside + 1 \in 1..Len(s) /\ i \in 1..Len(s) /\ inside # Len(s)
      BY <1>1, <2>5
    <3>2. s[inside + 1] >= BlockEnd(b)
      BY <2>4, <3>1
    <3>3. i = inside + 1 \/ s[inside + 1] < s[i]
      BY <2>5, <3>1 DEF Ascending
    <3>4. s[i] \in Nat /\ s[inside + 1] \in Nat
      BY <1>4, <3>1
    <3>5. s[i] >= BlockEnd(b)
      BY <1>10, <3>2, <3>3, <3>4
    <3> QED
      BY <1>10, <3>4, <3>5
  <2>8. p \in Seq(Nat) /\ Range(p) = {s[i] : i \in 1..inside} /\ Ascending(p)
    BY <1>1, <2>5, PrefixFacts DEF p
  <2>9. /\ v.ahead \in Seq(Nat) /\ Ascending(v.ahead)
        /\ Range(v.ahead) = {s[i] : i \in inside + 1..Len(s)}
    BY <1>1, <2>2, <2>5, SuffixFacts
  <2>10. \A i \in 1..Len(s) : i \in 1..inside \/ i \in inside + 1..Len(s)
    BY <2>5
  <2>11. Range(p) = Range(s) \cap Chunks(b)
    <3>1. \A i \in 1..inside : i \in 1..Len(s)
      BY <2>5
    <3>2. \A x \in Range(p) : x \in Range(s) \cap Chunks(b)
      BY <1>4, <2>6, <2>8, <3>1
    <3>3. \A x \in Range(s) \cap Chunks(b) : x \in Range(p)
      BY <1>4, <2>7, <2>8, <2>10
    <3> QED
      BY <3>2, <3>3
  <2>12. Range(v.ahead) = Range(s) \ Chunks(b)
    <3>1. \A i \in inside + 1..Len(s) : i \in 1..Len(s)
      BY <2>5
    <3>2. \A x \in Range(v.ahead) : x \in Range(s) \ Chunks(b)
      BY <1>4, <2>7, <2>9, <3>1
    <3>3. \A x \in Range(s) \ Chunks(b) : x \in Range(v.ahead)
      BY <1>4, <2>6, <2>9, <2>10
    <3> QED
      BY <3>2, <3>3
  <2>13. v.passed \in Seq(Nat) /\ Range(v.passed) = Range(w.passed) \cup Range(p)
    BY <1>1, <2>2, <2>8, ConcatFacts
  <2>14. ASSUME Ascending(w.passed), \A x \in Range(w.passed) : x < b.begin
         PROVE  Ascending(v.passed)
    <3>1. Range(w.passed) \subseteq Nat
      BY <1>1, ElementFacts
    <3>2. \A x \in Range(w.passed), y \in Range(p) : x < y
      BY <1>2, <2>11, <2>14, <3>1
    <3> QED
      BY <1>1, <2>2, <2>8, <2>14, <3>2, ConcatFacts
  <2>15. ~(Chunks(b) \subseteq Range(s))
    BY <1>3, <1>8
  <2> QED
    BY <1>1, <1>5, <2>2, <2>9, <2>11, <2>12, <2>13, <2>14, <2>15 DEF AfterBlock, v
<1>9. CASE s # <<>> /\ ~whole /\ Head(s) \notin Chunks(b)
  <2>1. v = [w EXCEPT !.kept = Append(@, b)]
    BY <1>9 DEF ReleaseBlock
  <2>2. v.passed = w.passed /\ v.ahead = w.ahead /\ v.kept = Append(w.kept, b)
    BY <1>1, <2>1
  <2>3. ~(Chunks(b) \subseteq Range(s))
    BY <1>3, <1>9
  <2>4. ASSUME NEW x \in Range(s) PROVE x \notin Chunks(b)
    <3>1. 1 \in 1..Len(s) /\ Head(s) = s[1]
      BY <1>1, <1>9
    <3>2. s[1] >= BlockEnd(b)
      BY <1>4, <1>9, <1>10, <3>1
    <3>3. PICK i \in 1..Len(s) : x = s[i]
      BY <1>4
    <3>4. i = 1 \/ s[1] < s[i]
      BY <3>1, <3>3 DEF Ascending
    <3>5. x \in Nat /\ s[1] \in Nat
      BY <1>4, <3>1, <3>3
    <3>6. x >= BlockEnd(b)
      BY <1>10, <3>2, <3>3, <3>4, <3>5
    <3> QED
      BY <1>10, <3>5, <3>6
  <2>5. Range(s) \cap Chunks(b) = {} /\ Range(s) \ Chunks(b) = Range(s)
    BY <2>4
  <2> HIDE DEF v
  <2> QED
    BY <1>1, <1>5, <2>2, <2>3, <2>5 DEF AfterBlock, v
<1> QED
  BY <1>6, <1>7, <1>8, <1>9

\* The blocks of an ordered list follow one another.
LEMMA BlocksFollow ==
  ASSUME list \in Seq(Blocks), InOrder(list),
         \A b, c \in Range(list) : b # c => Footprint(b) \cap Footprint(c) = {},
         NEW j \in 1..Len(list), NEW k \in 1..Len(list), j < k
  PROVE  \A x \in Chunks(list[j]) : x < list[k].begin
<1> DEFINE b == list[j]
           c == list[k]
<1>1. b \in Blocks /\ c \in Blocks /\ b \in Range(list) /\ c \in Range(list)
  BY ElementFacts
<1>2. b.begin < c.begin
  BY DEF InOrder
<1> HIDE DEF b, c
<1>3. /\ b.begin \in Nat /\ BlockEnd(b) \in Nat /\ Footprint(b) = b.begin..BlockEnd(b)
      /\ Chunks(b) = b.begin..BlockEnd(b) - 1
  BY ONLY <1>1 DEF Blocks, BlockEnd, Footprint, Chunks, Header
<1>4. c.begin \in Nat /\ c.begin \in Footprint(c)
  BY <1>1, BlockFacts
<1>5. b # c
  BY <1>2, <1>3
<1>6. c.begin \notin b.begin..BlockEnd(b)
  BY <1>1, <1>3, <1>4, <1>5
<1>7. BlockEnd(b) < c.begin
  BY <1>2, <1>3, <1>4, <1>6
<1>8. \A x \in Chunks(b) : x < c.begin
  BY <1>3, <1>4, <1>7
<1> QED
  BY <1>8 DEF b, c

\* The walk over the first i blocks: what is left of the free list, the blocks
\* that stay, and their free chunks.
Walked(w, i) ==
  /\ Walk(w) /\ Ascending(w.ahead) /\ Ascending(w.passed) /\ InOrder(w.kept)
  /\ Range(w.ahead) = {x \in Range(first) : \A j \in 1..i : x \notin Chunks(list[j])}
  /\ Range(w.kept) = {list[j] : j \in {j \in 1..i : ~(Chunks(list[j]) \subseteq Range(first))}}
  /\ Range(w.passed) = {x \in Range(first) : \E b \in Range(w.kept) : x \in Chunks(b)}

LEMMA EmptyFacts ==
  ASSUME NEW T
  PROVE  <<>> \in Seq(T) /\ Range(<<>>) = {} /\ Ascending(<<>>) /\ InOrder(<<>>) /\ NoRepeat(<<>>)
<1>1. <<>> \in Seq(T) /\ Len(<<>>) = 0 /\ DOMAIN <<>> = {}
  OBVIOUS
<1>2. 1..0 = {}
  OBVIOUS
<1> QED
  BY <1>1, <1>2 DEF Range, Ascending, InOrder, NoRepeat

LEMMA WalkBegins ==
  ASSUME first \in Seq(Nat), Ascending(first)
  PROVE  Walked(WalkStart, 0)
<1>1. WalkStart.passed = <<>> /\ WalkStart.ahead = first /\ WalkStart.kept = <<>>
  BY DEF WalkStart
<1>2. <<>> \in Seq(Nat) /\ <<>> \in Seq(Blocks) /\ Range(<<>>) = {} /\ Ascending(<<>>) /\ InOrder(<<>>)
  BY EmptyFacts
<1>3. Walk(WalkStart)
  BY <1>2 DEF Walk, WalkStart
<1>4. 1..0 = {}
  OBVIOUS
<1>5. Range(first) = {x \in Range(first) : \A j \in 1..0 : x \notin Chunks(list[j])}
  BY <1>4
<1>6. {} = {list[j] : j \in {j \in 1..0 : ~(Chunks(list[j]) \subseteq Range(first))}}
  BY <1>4
<1> QED
  BY <1>1, <1>2, <1>3, <1>5, <1>6 DEF Walked

LEMMA WalkGoesOn ==
  ASSUME first \in Seq(Nat), list \in Seq(Blocks), InOrder(list), NEW H,
         Accounted(Range(first), H, Range(list)),
         NEW i \in 1..Len(list), NEW w, Walked(w, i - 1)
  PROVE  Walked(ReleaseBlock(w, list[i]), i)
<1> DEFINE b == list[i]
           F == Range(first)
           v == ReleaseBlock(w, b)
           Whole(j) == Chunks(list[j]) \subseteq F
<1>1. /\ Walk(w) /\ Ascending(w.ahead) /\ Ascending(w.passed) /\ InOrder(w.kept)
      /\ Range(w.ahead) = {x \in F : \A j \in 1..i - 1 : x \notin Chunks(list[j])}
      /\ Range(w.kept) = {list[j] : j \in {j \in 1..i - 1 : ~Whole(j)}}
      /\ Range(w.passed) = {x \in F : \E c \in Range(w.kept) : x \in Chunks(c)}
  BY DEF Walked
<1>2. /\ \A x \in Range(list) : \E j \in 1..Len(list) : x = list[j]
      /\ \A j \in 1..Len(list) : list[j] \in Blocks /\ list[j] \in Range(list)
      /\ Len(list) \in Nat
  BY ElementFacts
<1>3. b \in Blocks /\ b.begin \in Nat
  BY <1>2, BlockFacts
<1>4. \A c, d \in Range(list) : c # d => Footprint(c) \cap Footprint(d) = {}
  BY DEF Accounted
<1>5. \A j, k \in 1..Len(list) : j < k => \A x \in Chunks(list[j]) : x < list[k].begin
  BY <1>4, BlocksFollow
<1>6. F \subseteq Nat /\ \A x \in F : \E j \in 1..Len(list) : x \in Chunks(list[j])
  BY <1>2 DEF Accounted
<1>7. 1..i = (1..i - 1) \cup {i} /\ \A j \in 1..i - 1 : j \in 1..Len(list) /\ j < i
  BY <1>2
<1>8. \A j \in 1..Len(list) : Chunks(list[j]) \subseteq Nat /\ list[j].begin \in Chunks(list[j])
                              /\ \A x \in Chunks(list[j]) : x >= list[j].begin
  <2>1. ASSUME NEW c \in Blocks
        PROVE  Chunks(c) \subseteq Nat /\ c.begin \in Chunks(c) /\ \A x \in Chunks(c) : x >= c.begin
    BY DEF Blocks, Chunks
  <2> QED
    BY <1>2, <2>1
<1>9. ASSUME NEW x \in Range(w.ahead) PROVE x >= b.begin
  <2>1. PICK j \in 1..Len(list) : x \in Chunks(list[j])
    BY <1>1, <1>6
  <2>2. j \notin 1..i - 1
    BY <1>1, <2>1
  <2>3. j = i \/ i < j
    BY <2>2
  <2>4. CASE j = i
    BY <1>8, <2>1, <2>4
  <2>5. CASE i < j
    <3>1. b.begin \in Chunks(b) /\ x >= list[j].begin /\ x \in Nat /\ list[j].begin \in Nat
      BY <1>8, <2>1
    <3>2. b.begin < list[j].begin
      BY <1>5, <2>5, <3>1
    <3> QED
      BY <1>3, <3>1, <3>2
  <2> QED
    BY <2>3, <2>4, <2>5
<1>10. AfterBlock(v, w, b)
  <2> HIDE DEF b
  <2> QED
    BY <1>1, <1>3, <1>9, ReleaseBlockFacts
<1>11. ASSUME NEW j \in 1..i - 1, NEW x \in Chunks(list[j])
       PROVE  x < b.begin /\ x \in Nat /\ x \notin Chunks(b)
  <2>1. x < b.begin /\ x \in Nat
    BY <1>5, <1>7, <1>8
  <2>2. \A y \in Chunks(b) : y >= b.begin /\ y \in Nat
    BY <1>8
  <2> QED
    BY <1>3, <2>1, <2>2
<1>12. Chunks(b) \subseteq Range(w.ahead) <=> Whole(i)
  BY <1>1, <1>11
<1>13. F \cap Chunks(b) = Range(w.ahead) \cap Chunks(b)
  BY <1>1, <1>11
<1>14. \A x \in Range(w.passed) : x < b.begin
  BY <1>1, <1>11
<1>15. \A c \in Range(w.kept) : c.begin < b.begin
  <2>1. ASSUME NEW j \in 1..i - 1 PROVE list[j].begin < b.begin
    BY <1>5, <1>7, <1>8
  <2> QED
    BY <1>1, <2>1
<1> HIDE DEF v
<1>16. Range(v.ahead) = {x \in F : \A j \in 1..i : x \notin Chunks(list[j])}
  <2>1. Range(v.ahead) = Range(w.ahead) \ Chunks(b)
    BY <1>10 DEF AfterBlock
  <2>2. \A x : (\A j \in 1..i : x \notin Chunks(list[j]))
               <=> (\A j \in 1..i - 1 : x \notin Chunks(list[j])) /\ x \notin Chunks(b)
    BY <1>7
  <2> QED
    BY <1>1, <2>1, <2>2
<1>17. Walk(v) /\ Ascending(v.ahead) /\ Ascending(v.passed)
  <2>1. v.passed \in Seq(Nat) /\ v.ahead \in Seq(Nat) /\ v.kept \in Seq(Blocks) /\ Ascending(v.ahead)
    BY <1>10 DEF AfterBlock
  <2>2. Ascending(v.passed)
    BY <1>1, <1>10, <1>14 DEF AfterBlock
  <2>3. v = [passed |-> v.passed, ahead |-> v.ahead, kept |-> v.kept]
    BY <1>1 DEF v, ReleaseBlock, Walk
  <2> QED
    BY <2>1, <2>2, <2>3 DEF Walk
<1>18. ASSUME Whole(i) PROVE Walked(v, i)
  <2>1. v.kept = w.kept /\ v.passed = w.passed
    BY <1>10, <1>12, <1>18 DEF AfterBlock
  <2>2. {j \in 1..i : ~Whole(j)} = {j \in 1..i - 1 : ~Whole(j)}
    BY <1>7, <1>18
  <2>3. /\ InOrder(v.kept)
        /\ Range(v.kept) = {list[j] : j \in {j \in 1..i : ~Whole(j)}}
        /\ Range(v.passed) = {x \in F : \E c \in Range(v.kept) : x \in Chunks(c)}
    BY <1>1, <2>1, <2>2
  <2> QED
    BY <1>16, <1>17, <2>3 DEF Walked
<1>19. ASSUME ~Whole(i) PROVE Walked(v, i)
  <2>1. /\ v.kept = Append(w.kept, b)
        /\ Range(v.passed) = Range(w.passed) \cup (Range(w.ahead) \cap Chunks(b))
    BY <1>10, <1>12, <1>19 DEF AfterBlock
  <2>2. Range(v.kept) = Range(w.kept) \cup {b} /\ InOrder(v.kept)
    <3>1. w.kept \in Seq(Blocks)
      BY <1>1 DEF Walk
    <3> HIDE DEF b
    <3> QED
      BY <1>1, <1>3, <1>15, <2>1, <3>1, AppendBlock
  <2>3. {j \in 1..i : ~Whole(j)} = {j \in 1..i - 1 : ~Whole(j)} \cup {i}
    BY <1>7, <1>19
  <2>4. Range(v.kept) = {list[j] : j \in {j \in 1..i : ~Whole(j)}}
    BY <1>1, <2>2, <2>3
  <2>5. Range(v.passed) = {x \in F : \E c \in Range(v.kept) : x \in Chunks(c)}
    BY <1>1, <1>13, <2>1, <2>2
  <2> QED
    BY <1>16, <1>17, <2>2, <2>4, <2>5 DEF Walked
<1>20. Walked(v, i)
  BY <1>18, <1>19
<1> QED
  BY <1>20 DEF v

\* What release_memory leaves: the blocks that are not wholly free, and their
\* free chunks.
LEMMA ReleaseFacts ==
  ASSUME first \in Seq(Nat), list \in Seq(Blocks), Ascending(first), InOrder(list), NEW H,
         Accounted(Range(first), H, Range(list)), release_memory
  PROVE  /\ first' \in Seq(Nat) /\ list' \in Seq(Blocks) /\ Ascending(first') /\ InOrder(list')
         /\ Range(list') = {b \in Range(list) : ~(Chunks(b) \subseteq Range(first))}
         /\ Range(first') = {x \in Range(first) : \E b \in Range(list') : x \in Chunks(b)}
<1> DEFINE n == Len(list)
           F == Range(first)
<1>1. PICK W : /\ W[0] = WalkStart
               /\ \A i \in 1..n : W[i] = ReleaseBlock(W[i - 1], list[i])
               /\ FoldLeft(ReleaseBlock, WalkStart, list) = W[n]
  BY ReleaseWalk
<1>2. /\ \A x \in Range(list) : \E j \in 1..n : x = list[j]
      /\ \A j \in 1..n : list[j] \in Range(list)
      /\ n \in Nat
  BY ElementFacts
<1> HIDE DEF n
<1> DEFINE S == {i \in Nat : i <= n => Walked(W[i], i)}
<1>3. 0 \in S
  BY <1>1, WalkBegins
<1>4. ASSUME NEW i \in Nat, i \in S PROVE i + 1 \in S
  <2> SUFFICES ASSUME i + 1 <= n PROVE Walked(W[i + 1], i + 1)
    OBVIOUS
  <2>1. i + 1 \in 1..n /\ (i + 1) - 1 = i /\ i <= n
    BY <1>2
  <2>2. Walked(W[i], (i + 1) - 1)
    BY <1>4, <2>1
  <2>3. W[i + 1] = ReleaseBlock(W[i], list[i + 1])
    BY <1>1, <2>1
  <2>4. i + 1 \in 1..Len(list)
    BY <2>1 DEF n
  <2>5. Walked(ReleaseBlock(W[i], list[i + 1]), i + 1)
    BY <2>2, <2>4, WalkGoesOn
  <2> QED
    BY <2>3, <2>5
<1> HIDE DEF S
<1>5. n \in S
  BY <1>2, <1>3, <1>4, InductionInSets
<1> DEFINE w == W[n]
<1>6. Walked(w, n)
  BY <1>2, <1>5 DEF S
<1>7. first' = w.passed \o w.ahead /\ list' = w.kept
  BY <1>1 DEF release_memory, WalkStart
<1> HIDE DEF w
<1>8. w.passed \in Seq(Nat) /\ w.ahead \in Seq(Nat) /\ w.kept \in Seq(Blocks)
  BY <1>6 DEF Walked, Walk
<1>9. Range(w.ahead) = {}
  <2>1. \A x \in F : \E j \in 1..n : x \in Chunks(list[j])
    BY <1>2 DEF Accounted
  <2> QED
    BY <1>6, <2>1 DEF Walked
<1>10. /\ first' \in Seq(Nat) /\ Range(first') = Range(w.passed) /\ Ascending(first')
  <2>1. \A x \in Range(w.passed), y \in Range(w.ahead) : x < y
    BY <1>9
  <2>2. Ascending(w.passed) /\ Ascending(w.ahead)
    BY <1>6 DEF Walked
  <2> DEFINE p == w.passed
             a == w.ahead
  <2>3. p \in Seq(Nat) /\ a \in Seq(Nat) /\ Ascending(p) /\ Ascending(a)
        /\ \A x \in Range(p), y \in Range(a) : x < y
    BY <1>8, <2>1, <2>2
  <2> HIDE DEF p, a
  <2>4. p \o a \in Seq(Nat) /\ Range(p \o a) = Range(p) \cup Range(a) /\ Ascending(p \o a)
    BY ONLY <2>3, ConcatFacts
  <2> QED
    BY <1>7, <1>9, <2>4 DEF p, a
<1>11. Range(w.kept) = {b \in Range(list) : ~(Chunks(b) \subseteq F)}
  <2>1. Range(w.kept) = {list[j] : j \in {j \in 1..n : ~(Chunks(list[j]) \subseteq F)}}
    BY <1>6 DEF Walked
  <2> QED
    BY <1>2, <2>1
<1> QED
  BY <1>6, <1>7, <1>8, <1>10, <1>11 DEF Walked

-----------------------------------------------------------------------------
(* The pool: the walk of ~object_pool *)

DestroyStart == [freed |-> first, destroyed |-> <<>>]

DestroyStep(W, s, chunks) ==
  IF s = {} THEN DestroyStart ELSE DestroyChunk(W[s \ {Max(s)}], chunks[Max(s)])

\* The walk over the first n chunks, as the fold runs it.
LEMMA DestroyWalkExists ==
  ASSUME NEW chunks, NEW n \in Nat
  PROVE  \E W : W = [s \in SUBSET (1..n) |-> DestroyStep(W, s, chunks)]
<1> DEFINE S == {m \in Nat : \E W : W = [s \in SUBSET (1..m) |-> DestroyStep(W, s, chunks)]}
<1>1. 0 \in S
  <2> DEFINE W == [s \in SUBSET (1..0) |-> DestroyStart]
  <2>1. \A s \in SUBSET (1..0) : s = {}
    OBVIOUS
  <2>2. W = [s \in SUBSET (1..0) |-> DestroyStep(W, s, chunks)]
    BY <2>1 DEF DestroyStep
  <2> QED
    BY <2>2
<1>2. ASSUME NEW m \in Nat, m \in S PROVE m + 1 \in S
  <2>1. PICK V : V = [s \in SUBSET (1..m) |-> DestroyStep(V, s, chunks)]
    BY <1>2
  <2> DEFINE W == [s \in SUBSET (1..m + 1) |->
                     IF m + 1 \in s THEN DestroyChunk(V[s \ {m + 1}], chunks[m + 1]) ELSE V[s]]
  <2>2. ASSUME NEW s \in SUBSET (1..m) PROVE W[s] = V[s]
    <3>1. s \in SUBSET (1..m + 1) /\ m + 1 \notin s
      OBVIOUS
    <3> QED
      BY <3>1
  <2>3. ASSUME NEW s \in SUBSET (1..m + 1) PROVE W[s] = DestroyStep(W, s, chunks)
    <3>1. CASE m + 1 \in s
      <4>1. Max(s) = m + 1
        <5>1. s \in SUBSET Nat /\ \A y \in s : y <= m + 1
          OBVIOUS
        <5> QED
          BY <3>1, <5>1, MaxFacts
      <4>2. s \ {m + 1} \in SUBSET (1..m)
        OBVIOUS
      <4>3. W[s] = DestroyChunk(V[s \ {m + 1}], chunks[m + 1])
        BY <3>1
      <4>4. W[s \ {m + 1}] = V[s \ {m + 1}]
        BY <2>2, <4>2
      <4> HIDE DEF W
      <4> QED
        BY <3>1, <4>1, <4>3, <4>4 DEF DestroyStep
    <3>2. CASE m + 1 \notin s
      <4>1. s \in SUBSET (1..m)
        BY <3>2
      <4>2. W[s] = V[s] /\ V[s] = DestroyStep(V, s, chunks)
        BY <2>1, <2>2, <4>1
      <4> HIDE DEF W
      <4>3. CASE s = {}
        BY <4>2, <4>3 DEF DestroyStep
      <4>4. CASE s # {}
        <5>1. s \ {Max(s)} \in SUBSET (1..m)
          BY <4>1
        <5>2. W[s \ {Max(s)}] = V[s \ {Max(s)}]
          BY <2>2, <5>1
        <5> QED
          BY <4>2, <4>4, <5>2 DEF DestroyStep
      <4> QED
        BY <4>3, <4>4
    <3> QED
      BY <3>1, <3>2
  <2>4. W = [s \in SUBSET (1..m + 1) |-> W[s]]
    OBVIOUS
  <2> HIDE DEF W
  <2>5. W = [s \in SUBSET (1..m + 1) |-> DestroyStep(W, s, chunks)]
    BY <2>3, <2>4
  <2> QED
    BY <2>5
<1> HIDE DEF S
<1>3. Nat \subseteq S
  BY <1>1, <1>2, InductionInSets
<1> QED
  BY <1>3 DEF S

LEMMA DestroyWalk ==
  ASSUME NEW chunks \in Seq(Nat)
  PROVE  \E W : /\ W[0] = DestroyStart
                /\ \A i \in 1..Len(chunks) : W[i] = DestroyChunk(W[i - 1], chunks[i])
                /\ FoldLeft(DestroyChunk, DestroyStart, chunks) = W[Len(chunks)]
<1> DEFINE n == Len(chunks)
           V == CHOOSE V : V = [s \in SUBSET (1..n) |-> DestroyStep(V, s, chunks)]
           W == [i \in 0..n |-> V[1..i]]
<1>1. n \in Nat /\ DOMAIN chunks = 1..n
  OBVIOUS
<1>2. V = [s \in SUBSET (1..n) |-> DestroyStep(V, s, chunks)]
  BY <1>1, DestroyWalkExists
<1>3. FoldLeft(DestroyChunk, DestroyStart, chunks) = V[1..n]
  <2>1. DOMAIN chunks = 1..n
    BY <1>1
  <2> QED
    BY <2>1 DEF FoldLeft, MapThenFoldSet, DestroyStep
<1> HIDE DEF V, n
<1>4. \A s \in SUBSET (1..n) : V[s] = DestroyStep(V, s, chunks)
  BY <1>2
<1>5. W[0] = DestroyStart
  <2>1. 1..0 = {} /\ {} \in SUBSET (1..n) /\ 0 \in 0..n
    BY <1>1
  <2>2. V[{}] = DestroyStart
    BY <1>4, <2>1 DEF DestroyStep
  <2> QED
    BY <2>1, <2>2
<1>6. ASSUME NEW i \in 1..n PROVE W[i] = DestroyChunk(W[i - 1], chunks[i])
  <2>1. 1..i \in SUBSET (1..n) /\ 1..i # {} /\ (1..i) \ {i} = 1..i - 1 /\ i \in 0..n /\ i - 1 \in 0..n
    <3>1. n \in Nat /\ i \in 1..n
      BY <1>1
    <3>2. i \in 0..n /\ i - 1 \in 0..n /\ i \in 1..i
      BY ONLY <3>1
    <3>3. 1..i \subseteq 1..n
      BY ONLY <3>1
    <3>4. (1..i) \ {i} = 1..i - 1
      BY ONLY <3>1
    <3> QED
      BY ONLY <3>2, <3>3, <3>4
  <2>2. Max(1..i) = i
    <3>1. 1..i \in SUBSET Nat /\ i \in 1..i /\ \A y \in 1..i : y <= i
      OBVIOUS
    <3> QED
      BY <3>1, MaxFacts
  <2>3. V[1..i] = DestroyChunk(V[1..i - 1], chunks[i])
    BY <1>4, <2>1, <2>2 DEF DestroyStep
  <2> QED
    BY <2>1, <2>3
<1>7. W[n] = V[1..n]
  BY <1>1
<1> HIDE DEF W
<1> QED
  BY <1>3, <1>5, <1>6, <1>7 DEF n

FlattenStep(f, s, i) == IF i = 1 THEN s[i] ELSE f[i - 1] \o s[i]

LEMMA FlattenExists ==
  ASSUME NEW s, NEW n \in Nat
  PROVE  \E f : f = [i \in 1..n |-> FlattenStep(f, s, i)]
<1> DEFINE S == {m \in Nat : \E f : f = [i \in 1..m |-> FlattenStep(f, s, i)]}
<1>1. 0 \in S
  <2>1. 1..0 = {}
    OBVIOUS
  <2> DEFINE f == [i \in {} |-> 0]
  <2>2. f = [i \in 1..0 |-> FlattenStep(f, s, i)]
    BY <2>1
  <2> QED
    BY <2>2
<1>2. ASSUME NEW m \in Nat, m \in S PROVE m + 1 \in S
  <2>1. PICK g : g = [i \in 1..m |-> FlattenStep(g, s, i)]
    BY <1>2
  <2> DEFINE f == [i \in 1..m + 1 |-> IF i \in 1..m THEN g[i] ELSE FlattenStep(g, s, i)]
  <2>2. \A i \in 1..m : f[i] = g[i]
    OBVIOUS
  <2>3. ASSUME NEW i \in 1..m + 1 PROVE f[i] = FlattenStep(f, s, i)
    <3>1. f[i] = FlattenStep(g, s, i)
      BY <2>1
    <3>2. i = 1 \/ f[i - 1] = g[i - 1]
      <4>1. i = 1 \/ i - 1 \in 1..m
        OBVIOUS
      <4> QED
        BY <2>2, <4>1
    <3> HIDE DEF f
    <3> QED
      BY <3>1, <3>2 DEF FlattenStep
  <2>4. f = [i \in 1..m + 1 |-> f[i]]
    OBVIOUS
  <2> HIDE DEF f
  <2>5. f = [i \in 1..m + 1 |-> FlattenStep(f, s, i)]
    BY <2>3, <2>4
  <2> QED
    BY <2>5
<1> HIDE DEF S
<1>3. Nat \subseteq S
  BY <1>1, <1>2, InductionInSets
<1> QED
  BY <1>3 DEF S

LEMMA SegregateSet ==
  ASSUME NEW b \in Blocks
  PROVE  LET g == segregate(b.begin, b.chunks) IN
         g \in Seq(Nat) /\ Range(g) = Chunks(b) /\ Ascending(g)
<1> DEFINE g == segregate(b.begin, b.chunks)
           a == b.begin
           n == b.chunks
<1>1. a \in Nat /\ n \in Nat /\ Chunks(b) = a..a + n - 1
  BY DEF Blocks, Chunks
<1>2. g \in Seq(Nat) /\ Len(g) = n /\ \A i \in 1..n : g[i] = a + i - 1
  BY <1>1, SegregateFacts
<1> HIDE DEF g, a, n
<1>3. /\ \A x \in Range(g) : \E i \in 1..n : x = g[i]
      /\ \A i \in 1..n : g[i] \in Range(g)
  BY <1>2, ElementFacts
<1>4. Ascending(g)
  BY <1>1, <1>2 DEF Ascending
<1>5. \A x \in Range(g) : x \in a..a + n - 1
  BY <1>1, <1>2, <1>3
<1>6. ASSUME NEW x \in a..a + n - 1 PROVE x \in Range(g)
  <2>1. x - a + 1 \in 1..n /\ a + (x - a + 1) - 1 = x
    BY <1>1
  <2> QED
    BY <1>2, <1>3, <2>1
<1>7. Range(g) = Chunks(b)
  BY <1>1, <1>5, <1>6
<1> QED
  BY <1>2, <1>4, <1>7 DEF g

\* The chunks of all the blocks, in order of their addresses.
LEMMA AllChunksFacts ==
  ASSUME list \in Seq(Blocks), InOrder(list),
         \A b, c \in Range(list) : b # c => Footprint(b) \cap Footprint(c) = {}
  PROVE  /\ AllChunks \in Seq(Nat) /\ Ascending(AllChunks)
         /\ Range(AllChunks) = UNION {Chunks(b) : b \in Range(list)}
<1> DEFINE n == Len(list)
           s == [i \in 1..n |-> segregate(list[i].begin, list[i].chunks)]
           f == CHOOSE f : f = [i \in 1..n |-> FlattenStep(f, s, i)]
<1>1. /\ \A x \in Range(list) : \E j \in 1..n : x = list[j]
      /\ \A j \in 1..n : list[j] \in Blocks /\ list[j] \in Range(list)
      /\ n \in Nat
  BY ElementFacts
<1>2. Len(s) = n /\ \A i \in 1..n : s[i] = segregate(list[i].begin, list[i].chunks)
  BY <1>1
<1>3. AllChunks = IF n = 0 THEN s ELSE f[n]
  <2>1. AllChunks = FlattenSeq(s)
    BY DEF AllChunks
  <2> HIDE DEF s, n
  <2>2. FlattenSeq(s) = IF n = 0 THEN s ELSE f[n]
    BY <1>2 DEF FlattenSeq, FlattenStep
  <2> QED
    BY <2>1, <2>2
<1>4. s = <<>> \/ n # 0
  OBVIOUS
<1> HIDE DEF s, n
<1>5. f = [i \in 1..n |-> FlattenStep(f, s, i)]
  <2>0. n \in Nat
    BY <1>1
  <2>1. \E g : g = [i \in 1..n |-> FlattenStep(g, s, i)]
    BY ONLY <2>0, FlattenExists, ZenonT(20)
  <2> QED
    BY <2>1
<1> HIDE DEF f
<1>6. CASE n = 0
  <2>1. AllChunks = <<>> /\ Range(list) = {}
    BY <1>1, <1>3, <1>4, <1>6
  <2> QED
    BY <2>1, EmptyFacts
<1>7. CASE n # 0
  <2> DEFINE Upto(i) == {x \in Nat : \E j \in 1..i : x \in Chunks(list[j])}
             Done(i) == f[i] \in Seq(Nat) /\ Ascending(f[i]) /\ Range(f[i]) = Upto(i)
             S == {i \in Nat : i + 1 <= n => Done(i + 1)}
  <2>1. ASSUME NEW i \in 1..n
        PROVE  /\ s[i] \in Seq(Nat) /\ Ascending(s[i]) /\ Range(s[i]) = Chunks(list[i])
               /\ Chunks(list[i]) \subseteq Nat /\ \A x \in Chunks(list[i]) : x >= list[i].begin
               /\ list[i].begin \in Nat
    <3> DEFINE b == list[i]
    <3>1. b \in Blocks /\ s[i] = segregate(b.begin, b.chunks)
      BY <1>1, <1>2
    <3> HIDE DEF b
    <3>2. s[i] \in Seq(Nat) /\ Ascending(s[i]) /\ Range(s[i]) = Chunks(b)
      BY <3>1, SegregateSet
    <3>3. Chunks(b) \subseteq Nat /\ b.begin \in Nat /\ \A x \in Chunks(b) : x >= b.begin
      BY <3>1 DEF Blocks, Chunks
    <3> QED
      BY <3>2, <3>3 DEF b
  <2>2. 0 \in S
    <3>1. 1 \in 1..n /\ 1..1 = {1}
      BY <1>1, <1>7
    <3>2. f[1] = s[1]
      BY <1>5, <3>1 DEF FlattenStep
    <3>3. Upto(1) = Chunks(list[1])
      BY <2>1, <3>1
    <3>4. Done(1)
      BY <2>1, <3>1, <3>2, <3>3
    <3> HIDE DEF Done
    <3>5. Done(0 + 1) /\ 0 \in Nat
      BY <3>4
    <3> QED
      BY <3>5
  <2>3. ASSUME NEW i \in Nat, i \in S PROVE i + 1 \in S
    <3> SUFFICES ASSUME (i + 1) + 1 <= n PROVE Done((i + 1) + 1)
      OBVIOUS
    <3> DEFINE k == i + 1
               m == k + 1
    <3>1. k \in 1..n /\ m \in 1..n /\ m # 1 /\ m - 1 = k /\ 1..m = (1..k) \cup {m} /\ k <= n
      BY <1>1
    <3>2. Done(k)
      BY <2>3, <3>1
    <3> HIDE DEF k
    <3> HIDE DEF m
    <3>3. f[m] = f[k] \o s[m]
      BY <1>5, <3>1 DEF FlattenStep
    <3>4. ASSUME NEW x \in Range(f[k]), NEW y \in Range(s[m]) PROVE x < y
      <4>1. PICK j \in 1..k : x \in Chunks(list[j])
        BY <3>2
      <4>2. j \in 1..Len(list) /\ m \in 1..Len(list) /\ j < m
        BY <3>1 DEF n, m
      <4>3. x < list[m].begin
        BY <4>1, <4>2, BlocksFollow
      <4>4. y \in Nat /\ y >= list[m].begin /\ list[m].begin \in Nat /\ x \in Nat
        BY <2>1, <3>1, <3>2
      <4> QED
        BY <4>3, <4>4
    <3>5. f[k] \in Seq(Nat) /\ s[m] \in Seq(Nat) /\ Ascending(f[k]) /\ Ascending(s[m])
      BY <2>1, <3>1, <3>2
    <3>6. f[m] \in Seq(Nat) /\ Ascending(f[m]) /\ Range(f[m]) = Range(f[k]) \cup Range(s[m])
      BY <3>3, <3>4, <3>5, ConcatFacts
    <3>7. Upto(m) = Upto(k) \cup Chunks(list[m])
      BY <2>1, <3>1
    <3>8. Done(m)
      BY <2>1, <3>1, <3>2, <3>6, <3>7
    <3> QED
      BY <3>8 DEF k, m
  <2> HIDE DEF S
  <2>4. Nat \subseteq S
    BY <2>2, <2>3, InductionInSets
  <2>5. Done(n)
    <3>1. n - 1 \in Nat /\ (n - 1) + 1 = n
      BY <1>1, <1>7
    <3>2. n - 1 \in S
      BY <2>4, <3>1
    <3> QED
      BY <1>1, <3>1, <3>2 DEF S
  <2>6. Upto(n) = UNION {Chunks(b) : b \in Range(list)}
    <3>1. \A b \in Range(list) : Chunks(b) \subseteq Nat
      BY <1>1, <2>1
    <3> QED
      BY <1>1, <3>1
  <2> QED
    BY <1>3, <1>7, <2>5, <2>6
<1> QED
  BY <1>6, <1>7

LEMMA AppendNumber ==
  ASSUME NEW L \in Seq(Nat), NEW b \in Nat
  PROVE  /\ Append(L, b) \in Seq(Nat)
         /\ Range(Append(L, b)) = Range(L) \cup {b}
         /\ (Ascending(L) /\ \A c \in Range(L) : c < b) => Ascending(Append(L, b))
<1> DEFINE q == Append(L, b)
<1>1. /\ q \in Seq(Nat) /\ Len(q) = Len(L) + 1 /\ Len(L) \in Nat /\ q[Len(L) + 1] = b
      /\ \A i \in 1..Len(L) : q[i] = L[i]
  OBVIOUS
<1> HIDE DEF q
<1>2. /\ \A x \in Range(q) : \E i \in 1..Len(q) : x = q[i]
      /\ \A i \in 1..Len(q) : q[i] \in Range(q)
  BY <1>1, ElementFacts
<1>3. /\ \A x \in Range(L) : \E i \in 1..Len(L) : x = L[i]
      /\ \A i \in 1..Len(L) : L[i] \in Range(L)
  BY <1>1, ElementFacts
<1>4. ASSUME NEW i \in 1..Len(q) PROVE i = Len(L) + 1 \/ i \in 1..Len(L)
  BY <1>1
<1>5. \A x \in Range(q) : x \in Range(L) \cup {b}
  BY <1>1, <1>2, <1>3, <1>4
<1>6. b \in Range(q)
  <2>1. Len(L) + 1 \in 1..Len(q)
    BY <1>1
  <2> QED
    BY <1>1, <1>2, <2>1
<1>7. ASSUME NEW x \in Range(L) PROVE x \in Range(q)
  <2>1. PICK i \in 1..Len(L) : x = L[i]
    BY <1>3
  <2>2. i \in 1..Len(q) /\ q[i] = x
    BY <1>1, <2>1
  <2> QED
    BY <1>2, <2>2
<1>8. ASSUME Ascending(L), \A c \in Range(L) : c < b PROVE Ascending(q)
  <2> SUFFICES ASSUME NEW i \in 1..Len(q), NEW j \in 1..Len(q), i < j PROVE q[i] < q[j]
    BY DEF Ascending
  <2>1. i \in 1..Len(L)
    BY <1>1
  <2>2. CASE j = Len(L) + 1
    BY <1>1, <1>3, <1>8, <2>1, <2>2
  <2>3. CASE j \in 1..Len(L)
    BY <1>1, <1>8, <2>1, <2>3 DEF Ascending
  <2> QED
    BY <1>4, <2>2, <2>3
<1> QED
  BY <1>1, <1>5, <1>6, <1>7, <1>8 DEF q

\* The walk over the first i of the chunks c: the free list from the next free
\* chunk on, and what was destroyed.
Destroyed(w, c, i) ==
  /\ w \in [freed : Seq(Nat), destroyed : Seq(Nat)]
  /\ Ascending(w.freed) /\ Ascending(w.destroyed)
  /\ Range(w.freed) = {x \in Range(first) : \A j \in 1..i : x # c[j]}
  /\ Range(w.destroyed) = {c[j] : j \in 1..i} \ Range(first)

LEMMA AscendingNoRepeat ==
  ASSUME NEW s \in Seq(Nat), Ascending(s)
  PROVE  NoRepeat(s)
<1>1. \A i \in 1..Len(s) : s[i] \in Nat
  BY ElementFacts
<1> QED
  BY <1>1 DEF Ascending, NoRepeat

LEMMA DestroyGoesOn ==
  ASSUME first \in Seq(Nat), NEW c \in Seq(Nat), Ascending(c), Range(first) \subseteq Range(c),
         NEW i \in 1..Len(c), NEW w, Destroyed(w, c, i - 1)
  PROVE  Destroyed(DestroyChunk(w, c[i]), c, i)
<1> DEFINE x == c[i]
           F == Range(first)
           v == DestroyChunk(w, x)
<1>1. /\ w.freed \in Seq(Nat) /\ w.destroyed \in Seq(Nat)
      /\ w = [freed |-> w.freed, destroyed |-> w.destroyed]
      /\ Ascending(w.freed) /\ Ascending(w.destroyed)
      /\ Range(w.freed) = {y \in F : \A j \in 1..i - 1 : y # c[j]}
      /\ Range(w.destroyed) = {c[j] : j \in 1..i - 1} \ F
  BY DEF Destroyed
<1>2. /\ \A y \in Range(c) : \E j \in 1..Len(c) : y = c[j]
      /\ \A j \in 1..Len(c) : c[j] \in Nat /\ c[j] \in Range(c)
      /\ Len(c) \in Nat
  BY ElementFacts
<1>3. 1..i = (1..i - 1) \cup {i} /\ \A j \in 1..i - 1 : j \in 1..Len(c) /\ j < i
  BY <1>2
<1>4. \A j \in 1..i - 1 : c[j] < x /\ c[j] # x
  BY <1>2, <1>3 DEF Ascending
<1>5. x \in Nat
  BY <1>2
<1>6. CASE w.freed # <<>> /\ x = Head(w.freed)
  <2>1. v = [w EXCEPT !.freed = Tail(@)]
    BY <1>6 DEF DestroyChunk
  <2>2. v = [freed |-> Tail(w.freed), destroyed |-> w.destroyed]
    BY <1>1, <2>1
  <2>3. NoRepeat(w.freed)
    BY <1>1, AscendingNoRepeat
  <2>4. /\ x \in Range(w.freed) /\ Tail(w.freed) \in Seq(Nat)
        /\ Range(Tail(w.freed)) = Range(w.freed) \ {x} /\ Ascending(Tail(w.freed))
    BY <1>1, <1>6, <2>3, TailFacts, SMTT(20)
  <2>5. x \in F
    BY <1>1, <2>4
  <2> HIDE DEF v, x
  <2>6. Range(Tail(w.freed)) = {y \in F : \A j \in 1..i : y # c[j]}
    BY <1>1, <1>3, <2>4 DEF x
  <2>7. Range(w.destroyed) = {c[j] : j \in 1..i} \ F
    BY <1>1, <1>3, <2>5 DEF x
  <2>8. v.freed = Tail(w.freed) /\ v.destroyed = w.destroyed /\ v \in [freed : Seq(Nat), destroyed : Seq(Nat)]
    BY <1>1, <2>2, <2>4
  <2> QED
    BY <1>1, <2>4, <2>6, <2>7, <2>8 DEF Destroyed, v, x
<1>7. CASE ~(w.freed # <<>> /\ x = Head(w.freed))
  <2>1. v = [w EXCEPT !.destroyed = Append(@, x)]
    BY <1>7 DEF DestroyChunk
  <2>2. v = [freed |-> w.freed, destroyed |-> Append(w.destroyed, x)]
    BY <1>1, <2>1
  <2>3. x \notin F
    <3> SUFFICES ASSUME x \in F PROVE FALSE
      OBVIOUS
    <3>1. x \in Range(w.freed)
      BY <1>1, <1>4
    <3> DEFINE s == w.freed
    <3>2. /\ \A y \in Range(s) : \E j \in 1..Len(s) : y = s[j]
          /\ \A j \in 1..Len(s) : s[j] \in Nat /\ s[j] \in Range(s)
      BY <1>1, ElementFacts
    <3>3. PICK k \in 1..Len(s) : x = s[k]
      BY <3>1, <3>2
    <3>4. 1 \in 1..Len(s) /\ s # <<>> /\ Head(s) = s[1]
      BY <1>1, <3>3
    <3>5. s[1] # x
      BY <1>7, <3>4
    <3>6. s[1] < x
      <4>1. k # 1 /\ 1 < k
        BY <3>3, <3>5
      <4>2. s[1] < s[k]
        BY <1>1, <3>3, <3>4, <4>1 DEF Ascending
      <4> QED
        BY <3>3, <4>2
    <3>7. s[1] \in F /\ \A j \in 1..i - 1 : s[1] # c[j]
      BY <1>1, <3>2, <3>4
    <3>8. PICK m \in 1..Len(c) : s[1] = c[m]
      BY <1>2, <3>7
    <3>9. m \notin 1..i - 1
      BY <3>7, <3>8
    <3>10. m = i \/ i < m
      BY <3>9
    <3>11. c[i] <= c[m]
      BY <1>2, <3>10, SMTT(20) DEF Ascending
    <3>12. s[1] < c[i] /\ s[1] = c[m] /\ c[i] \in Nat /\ c[m] \in Nat
      BY <1>2, <3>6, <3>8
    <3> QED
      BY ONLY <3>11, <3>12
  <2>4. \A y \in Range(w.destroyed) : y < x
    BY <1>1, <1>4
  <2> HIDE DEF v, x
  <2>5. /\ Append(w.destroyed, x) \in Seq(Nat) /\ Ascending(Append(w.destroyed, x))
        /\ Range(Append(w.destroyed, x)) = Range(w.destroyed) \cup {x}
    BY <1>1, <1>5, <2>4, AppendNumber
  <2>6. Range(w.freed) = {y \in F : \A j \in 1..i : y # c[j]}
    BY <1>1, <1>3, <2>3 DEF x
  <2>7. Range(Append(w.destroyed, x)) = {c[j] : j \in 1..i} \ F
    BY <1>1, <1>3, <2>3, <2>5 DEF x
  <2>8. v.freed = w.freed /\ v.destroyed = Append(w.destroyed, x) /\ v \in [freed : Seq(Nat), destroyed : Seq(Nat)]
    BY <1>1, <2>2, <2>5
  <2> QED
    BY <1>1, <2>5, <2>6, <2>7, <2>8 DEF Destroyed, v, x
<1> QED
  BY <1>6, <1>7

\* The destructors run once for each chunk that is not free, in order.
LEMMA DestroyFacts ==
  ASSUME first \in Seq(Nat), Ascending(first), NEW c \in Seq(Nat), Ascending(c),
         Range(first) \subseteq Range(c)
  PROVE  LET d == FoldLeft(DestroyChunk, DestroyStart, c).destroyed IN
         Ascending(d) /\ Range(d) = Range(c) \ Range(first)
<1> DEFINE n == Len(c)
<1>1. PICK W : /\ W[0] = DestroyStart
               /\ \A i \in 1..n : W[i] = DestroyChunk(W[i - 1], c[i])
               /\ FoldLeft(DestroyChunk, DestroyStart, c) = W[n]
  BY DestroyWalk
<1>2. /\ \A x \in Range(c) : \E j \in 1..n : x = c[j]
      /\ \A j \in 1..n : c[j] \in Range(c)
      /\ n \in Nat
  BY ElementFacts
<1> HIDE DEF n
<1> DEFINE S == {i \in Nat : i <= n => Destroyed(W[i], c, i)}
<1>3. 0 \in S
  <2>1. <<>> \in Seq(Nat) /\ Range(<<>>) = {} /\ Ascending(<<>>)
    BY EmptyFacts
  <2>2. DestroyStart.freed = first /\ DestroyStart.destroyed = <<>>
        /\ DestroyStart \in [freed : Seq(Nat), destroyed : Seq(Nat)]
    BY <2>1 DEF DestroyStart
  <2>3. 1..0 = {}
    OBVIOUS
  <2>4. Destroyed(DestroyStart, c, 0)
    BY <2>1, <2>2, <2>3 DEF Destroyed
  <2> QED
    BY <1>1, <2>4
<1>4. ASSUME NEW i \in Nat, i \in S PROVE i + 1 \in S
  <2> SUFFICES ASSUME i + 1 <= n PROVE Destroyed(W[i + 1], c, i + 1)
    OBVIOUS
  <2>1. i + 1 \in 1..n /\ (i + 1) - 1 = i /\ i <= n
    BY <1>2
  <2>2. Destroyed(W[i], c, (i + 1) - 1)
    BY <1>4, <2>1
  <2>3. W[i + 1] = DestroyChunk(W[i], c[i + 1])
    BY <1>1, <2>1
  <2>4. i + 1 \in 1..Len(c)
    BY <2>1 DEF n
  <2>5. Destroyed(DestroyChunk(W[i], c[i + 1]), c, i + 1)
    BY <2>2, <2>4, DestroyGoesOn
  <2> QED
    BY <2>3, <2>5
<1> HIDE DEF S
<1>5. n \in S
  BY <1>2, <1>3, <1>4, InductionInSets
<1>6. Destroyed(W[n], c, n)
  BY <1>2, <1>5 DEF S
<1>7. {c[j] : j \in 1..n} = Range(c)
  BY <1>2
<1> QED
  BY <1>1, <1>6, <1>7 DEF Destroyed

-----------------------------------------------------------------------------
(* The pool: the invariant *)

\* Free list s, allocations H and block list L; o: both lists are in order.
Consistent(s, H, L, o) ==
  /\ s \in Seq(Nat) /\ L \in Seq(Blocks) /\ NoRepeat(s)
  /\ Accounted(Range(s), H, Range(L))
  /\ o => Ascending(s) /\ InOrder(L)

Ordered == user \in {"pool_allocator", "object_pool"}

PoolInv ==
  /\ next_size \in Nat \ {0} /\ start_size \in Nat \ {0} /\ max_size \in Nat /\ user \in Users
  /\ user # "nobody" => Consistent(first, held, list, Ordered)
  /\ user = "object_pool" => \A h \in held : h.n = 1
  /\ LeftoversDestroyedOnce

LEMMA NothingYet ==
  ASSUME NEW o \in BOOLEAN
  PROVE  Consistent(<<>>, {}, <<>>, o)
  BY EmptyFacts DEF Consistent, Accounted

LEMMA HeadGiven ==
  ASSUME NEW s, NEW H, NEW L, NEW o, Consistent(s, H, L, o), s # <<>>
  PROVE  Consistent(Tail(s), H \cup {Held(Head(s), 1)}, L, o)
<1> DEFINE a == Head(s)
           t == Tail(s)
<1>1. s \in Seq(Nat) /\ L \in Seq(Blocks) /\ NoRepeat(s) /\ Accounted(Range(s), H, Range(L))
  BY DEF Consistent
<1>2. /\ a \in Range(s) /\ a \in Nat /\ t \in Seq(Nat) /\ Range(t) = Range(s) \ {a}
      /\ NoRepeat(t) /\ (Ascending(s) => Ascending(t))
  BY <1>1, TailFacts
<1> HIDE DEF a, t
<1>3. a..a + num_chunks(1) - 1 = {a}
  BY <1>2, NumChunks
<1>4. Accounted(Range(s) \ (a..a + num_chunks(1) - 1), H \cup {Held(a, 1)}, Range(L))
  <2>1. a..a + num_chunks(1) - 1 \subseteq Range(s)
    BY <1>2, <1>3
  <2> QED
    BY <1>1, <1>2, <2>1, Take
<1>5. Accounted(Range(t), H \cup {Held(a, 1)}, Range(L))
  BY <1>2, <1>3, <1>4
<1> QED
  BY <1>1, <1>2, <1>5 DEF Consistent, a, t

\* The constructor threw: the chunk is freed again.
LEMMA HeadFreedAgain ==
  ASSUME NEW s, NEW H, NEW L, NEW o, Consistent(s, H, L, o), s # <<>>
  PROVE  Consistent(ordered_free(Tail(s), Head(s)), H, L, o)
<1> DEFINE a == Head(s)
           t == Tail(s)
           q == add_ordered_block(t, a, 1)
<1>1. s \in Seq(Nat) /\ L \in Seq(Blocks) /\ NoRepeat(s) /\ Accounted(Range(s), H, Range(L))
  BY DEF Consistent
<1>2. /\ a \in Range(s) /\ a \in Nat /\ t \in Seq(Nat) /\ Range(t) = Range(s) \ {a}
      /\ NoRepeat(t) /\ (Ascending(s) => Ascending(t))
  BY <1>1, TailFacts
<1> HIDE DEF a, t
<1>3. a..a + 1 - 1 = {a} /\ Range(t) \cap a..a + 1 - 1 = {}
  BY <1>2
<1>4. /\ q \in Seq(Nat) /\ Range(q) = Range(t) \cup a..a + 1 - 1
      /\ (NoRepeat(t) => NoRepeat(q)) /\ (Ascending(t) => Ascending(q))
  BY <1>2, <1>3, AddOrderedFacts
<1>5. Range(q) = Range(s)
  BY <1>2, <1>3, <1>4
<1>6. q = ordered_free(t, a)
  BY <1>2, OrderedFreeIs
<1> HIDE DEF q
<1>7. Consistent(q, H, L, o)
  BY <1>1, <1>2, <1>4, <1>5 DEF Consistent
<1> QED
  BY <1>6, <1>7 DEF a, t

\* An allocation comes back, into an ordered list or in front of any other.
LEMMA ReturnedInOrder ==
  ASSUME NEW s, NEW H, NEW L, NEW o, Consistent(s, H, L, o), NEW h \in H
  PROVE  /\ Consistent(add_ordered_block(s, h.at, num_chunks(h.n)), H \ {h}, L, o)
         /\ h.n = 1 => Consistent(ordered_free(s, h.at), H \ {h}, L, o)
<1> DEFINE a == h.at
           n == num_chunks(h.n)
           q == add_ordered_block(s, a, n)
<1>1. s \in Seq(Nat) /\ L \in Seq(Blocks) /\ NoRepeat(s) /\ Accounted(Range(s), H, Range(L))
  BY DEF Consistent
<1>2. /\ Accounted(Range(s) \cup HeldChunks(h), H \ {h}, Range(L))
      /\ HeldChunks(h) \cap Range(s) = {} /\ h \in Allocations
  BY <1>1, Return
<1>3. HeldChunks(h) = a..a + n - 1 /\ a \in Nat /\ n \in Nat \ {0}
  BY <1>2, HeldFacts DEF HeldChunks
<1>4. ordered_free(s, a) = add_ordered_block(s, a, 1)
  BY <1>1, <1>3, OrderedFreeIs
<1>5. h.n = 1 => n = 1
  BY NumChunks
<1> HIDE DEF a, n
<1>6. /\ q \in Seq(Nat) /\ Range(q) = Range(s) \cup a..a + n - 1
      /\ (NoRepeat(s) => NoRepeat(q)) /\ (Ascending(s) => Ascending(q))
  <2>1. Range(s) \cap a..a + n - 1 = {}
    BY <1>2, <1>3
  <2> QED
    BY <1>1, <1>3, <2>1, AddOrderedFacts
<1> HIDE DEF q
<1>7. Consistent(q, H \ {h}, L, o)
  BY <1>1, <1>2, <1>3, <1>6 DEF Consistent
<1> QED
  BY <1>4, <1>5, <1>7 DEF q, a, n

LEMMA ReturnedInFront ==
  ASSUME NEW s, NEW H, NEW L, Consistent(s, H, L, FALSE), NEW h \in H
  PROVE  /\ Consistent(add_block(s, h.at, num_chunks(h.n)), H \ {h}, L, FALSE)
         /\ h.n = 1 => Consistent(<<h.at>> \o s, H \ {h}, L, FALSE)
<1> DEFINE a == h.at
           n == num_chunks(h.n)
           q == add_block(s, a, n)
<1>1. s \in Seq(Nat) /\ L \in Seq(Blocks) /\ NoRepeat(s) /\ Accounted(Range(s), H, Range(L))
  BY DEF Consistent
<1>2. /\ Accounted(Range(s) \cup HeldChunks(h), H \ {h}, Range(L))
      /\ HeldChunks(h) \cap Range(s) = {} /\ h \in Allocations
  BY <1>1, Return
<1>3. HeldChunks(h) = a..a + n - 1 /\ a \in Nat /\ n \in Nat \ {0}
  BY <1>2, HeldFacts DEF HeldChunks
<1>4. <<a>> = segregate(a, 1)
  <2>1. segregate(a, 1) \in Seq(Nat) /\ Len(segregate(a, 1)) = 1 /\ segregate(a, 1)[1] = a
    <3>1. 1 \in Nat /\ 1 \in 1..1 /\ a + 1 - 1 = a
      BY <1>3
    <3> QED
      BY <1>3, <3>1, SegregateFacts
  <2>2. <<a>> \in Seq(Nat) /\ Len(<<a>>) = 1 /\ <<a>>[1] = a
    BY <1>3
  <2> QED
    BY <2>1, <2>2, SeqExtensional
<1>5. h.n = 1 => n = 1
  BY NumChunks
<1> HIDE DEF a, n
<1>6. q \in Seq(Nat) /\ Range(q) = Range(s) \cup a..a + n - 1 /\ NoRepeat(q)
  <2>1. Range(s) \cap a..a + n - 1 = {}
    BY <1>2, <1>3
  <2> QED
    BY <1>1, <1>3, <2>1, AddBlockFacts
<1>8. <<a>> \o s = add_block(s, a, 1)
  BY <1>4 DEF add_block
<1> HIDE DEF q
<1>7. Consistent(q, H \ {h}, L, FALSE)
  BY <1>1, <1>2, <1>3, <1>6 DEF Consistent
<1> QED
  BY <1>5, <1>7, <1>8 DEF q, a, n

LEMMA RunTaken ==
  ASSUME NEW s, NEW H, NEW L, NEW o, Consistent(s, H, L, o),
         NEW n \in Nat \ {0}, NEW i \in 0..Len(s), try_malloc_n(s, i, num_chunks(n))
  PROVE  Consistent(Without(s, i, num_chunks(n)), H \cup {Held(s[i + 1], n)}, L, o)
<1> DEFINE k == num_chunks(n)
           a == s[i + 1]
           q == Without(s, i, k)
<1>1. s \in Seq(Nat) /\ L \in Seq(Blocks) /\ NoRepeat(s) /\ Accounted(Range(s), H, Range(L))
  BY DEF Consistent
<1>2. k \in Nat \ {0}
  BY NumChunks
<1>3. /\ i + k <= Len(s) /\ a \in Nat
      /\ {s[j] : j \in i + 1..i + k} = a..a + k - 1
  BY <1>1, <1>2, Contiguous
<1>4. /\ q \in Seq(Nat) /\ Range(q) = Range(s) \ {s[j] : j \in i + 1..i + k}
      /\ NoRepeat(q) /\ (Ascending(s) => Ascending(q))
  <2> HIDE DEF k
  <2> QED
    BY <1>1, <1>2, <1>3, WithoutFacts
<1>5. a..a + k - 1 \subseteq Range(s)
  <2>1. \A j \in 1..Len(s) : s[j] \in Range(s)
    BY <1>1, ElementFacts
  <2>2. Len(s) \in Nat
    BY <1>1
  <2> HIDE DEF k
  <2>3. \A j \in i + 1..i + k : j \in 1..Len(s)
    BY <1>2, <1>3, <2>2
  <2>4. {s[j] : j \in i + 1..i + k} \subseteq Range(s)
    BY <2>1, <2>3
  <2> QED
    BY <1>3, <2>4
<1> HIDE DEF a, q
<1>6. Accounted(Range(s) \ (a..a + num_chunks(n) - 1), H \cup {Held(a, n)}, Range(L))
  BY <1>1, <1>3, <1>5, Take DEF k
<1>7. Range(q) = Range(s) \ (a..a + num_chunks(n) - 1)
  BY <1>3, <1>4 DEF k
<1>8. Consistent(q, H \cup {Held(a, n)}, L, o)
  BY <1>1, <1>4, <1>6, <1>7 DEF Consistent
<1> QED
  BY <1>8 DEF q, a, k

Fits(b) == b \in Blocks /\ \A c \in Range(list) : Footprint(b) \cap Footprint(c) = {}

\* What the system's allocator answers: nothing, or a block that fits.
LEMMA AttemptFacts ==
  ASSUME NEW size \in Nat \ {0}, NEW smaller \in Nat \ {0}, NEW r \in Attempts(size, smaller)
  PROVE  /\ r.size \in {size, smaller} /\ r.size \in Nat \ {0}
         /\ r.block # NoBlock => Fits(r.block) /\ r.block.chunks = r.size
<1>1. ASSUME NEW n \in Nat \ {0}, NEW b \in Grants(n) PROVE Fits(b) /\ b.chunks = n
  <2>1. b \in [begin : 1..Arena, chunks : {n}] /\ \A c \in Range(list) : Footprint(b) \cap Footprint(c) = {}
    BY DEF Grants
  <2>2. 1..Arena \subseteq Nat
    BY PoolAssumption
  <2> QED
    BY <2>1, <2>2 DEF Fits, Blocks
<1> QED
  BY <1>1 DEF Attempts

LEMMA BeginsDiffer ==
  ASSUME NEW b, Fits(b), Range(list) \subseteq Blocks
  PROVE  \A c \in Range(list) : c.begin # b.begin
<1>1. \A c \in Blocks : c.begin \in Footprint(c)
  BY DEF Blocks, Footprint, BlockEnd, Header
<1> QED
  BY <1>1 DEF Fits

LEMMA NewBlockInOrder ==
  ASSUME NEW s, NEW H, NEW o, Consistent(s, H, list, o), NEW b, Fits(b)
  PROVE  /\ Consistent(add_ordered_block(s, b.begin, b.chunks), H, InsertOrdered(b), o)
         /\ add_ordered_block(s, b.begin, b.chunks) # <<>>
<1> DEFINE q == add_ordered_block(s, b.begin, b.chunks)
           L == InsertOrdered(b)
<1>1. s \in Seq(Nat) /\ list \in Seq(Blocks) /\ NoRepeat(s) /\ Accounted(Range(s), H, Range(list))
  BY DEF Consistent
<1>2. /\ b \in Blocks /\ b.begin \in Nat /\ b.chunks \in Nat \ {0}
      /\ Chunks(b) = b.begin..b.begin + b.chunks - 1 /\ b.begin \in Chunks(b)
  BY DEF Fits, Blocks, Chunks
<1>3. /\ Accounted(Range(s) \cup Chunks(b), H, Range(list) \cup {b})
      /\ Range(s) \cap Chunks(b) = {}
  BY <1>1, <1>2, Grow DEF Fits
<1>4. /\ q \in Seq(Nat) /\ Range(q) = Range(s) \cup Chunks(b)
      /\ (NoRepeat(s) => NoRepeat(q)) /\ (Ascending(s) => Ascending(q))
  BY <1>1, <1>2, <1>3, AddOrderedFacts
<1>5. L \in Seq(Blocks) /\ Range(L) = Range(list) \cup {b} /\ (InOrder(list) => InOrder(L))
  <2>1. Range(list) \subseteq Blocks
    BY <1>1, ElementFacts
  <2>2. \A c \in Range(list) : c.begin # b.begin
    BY <2>1, BeginsDiffer
  <2> QED
    BY <1>1, <1>2, <2>2, InsertOrderedFacts
<1> HIDE DEF q, L
<1>6. Range(<<>>) = {}
  BY EmptyFacts
<1>7. q # <<>>
  BY <1>2, <1>4, <1>6
<1>8. Consistent(q, H, L, o)
  BY <1>1, <1>3, <1>4, <1>5 DEF Consistent
<1> QED
  BY <1>7, <1>8 DEF q, L

LEMMA NewBlockInFront ==
  ASSUME NEW s, NEW H, Consistent(s, H, list, FALSE), NEW b, Fits(b)
  PROVE  /\ Consistent(add_block(s, b.begin, b.chunks), H, <<b>> \o list, FALSE)
         /\ add_block(s, b.begin, b.chunks) # <<>>
<1> DEFINE q == add_block(s, b.begin, b.chunks)
           L == <<b>> \o list
<1>1. s \in Seq(Nat) /\ list \in Seq(Blocks) /\ NoRepeat(s) /\ Accounted(Range(s), H, Range(list))
  BY DEF Consistent
<1>2. /\ b \in Blocks /\ b.begin \in Nat /\ b.chunks \in Nat \ {0}
      /\ Chunks(b) = b.begin..b.begin + b.chunks - 1 /\ b.begin \in Chunks(b)
  BY DEF Fits, Blocks, Chunks
<1>3. /\ Accounted(Range(s) \cup Chunks(b), H, Range(list) \cup {b})
      /\ Range(s) \cap Chunks(b) = {}
  BY <1>1, <1>2, Grow DEF Fits
<1>4. q \in Seq(Nat) /\ Range(q) = Range(s) \cup Chunks(b) /\ NoRepeat(q)
  <2> DEFINE x == b.begin
             y == b.chunks
  <2>1. x \in Nat /\ y \in Nat /\ Chunks(b) = x..x + y - 1 /\ Range(s) \cap x..x + y - 1 = {}
    BY <1>2, <1>3
  <2> HIDE DEF x, y
  <2>2. /\ add_block(s, x, y) \in Seq(Nat) /\ Range(add_block(s, x, y)) = Range(s) \cup x..x + y - 1
        /\ NoRepeat(add_block(s, x, y))
    BY <1>1, <2>1, AddBlockFacts
  <2> QED
    BY <2>1, <2>2 DEF x, y
<1>5. L \in Seq(Blocks) /\ Range(L) = Range(list) \cup {b}
  <2>1. /\ L \in Seq(Blocks) /\ Len(L) = Len(list) + 1 /\ L[1] = b /\ Len(list) \in Nat
        /\ \A i \in 1..Len(list) : L[i + 1] = list[i]
    BY <1>1, <1>2
  <2> HIDE DEF L
  <2>2. /\ \A x \in Range(list) : \E i \in 1..Len(list) : x = list[i]
        /\ \A i \in 1..Len(list) : list[i] \in Range(list)
    BY <1>1, ElementFacts
  <2>3. /\ \A x \in Range(L) : \E i \in 1..Len(L) : x = L[i]
        /\ \A i \in 1..Len(L) : L[i] \in Range(L)
    BY <2>1, ElementFacts
  <2>4. ASSUME NEW x \in Range(L) PROVE x \in Range(list) \cup {b}
    <3>1. PICK i \in 1..Len(L) : x = L[i]
      BY <2>3
    <3>2. CASE i = 1
      BY <2>1, <3>1, <3>2
    <3>3. CASE i # 1
      <4>1. i - 1 \in 1..Len(list) /\ (i - 1) + 1 = i
        BY <2>1, <3>3
      <4>2. x = list[i - 1]
        BY <2>1, <3>1, <4>1
      <4> QED
        BY <2>2, <4>1, <4>2
    <3> QED
      BY <3>2, <3>3
  <2>5. ASSUME NEW x \in Range(list) PROVE x \in Range(L)
    <3>1. PICK i \in 1..Len(list) : x = list[i]
      BY <2>2
    <3>2. i + 1 \in 1..Len(L) /\ L[i + 1] = x
      BY <2>1, <3>1
    <3> QED
      BY <2>3, <3>2
  <2>6. b \in Range(L)
    <3>1. 1 \in 1..Len(L)
      BY <2>1
    <3> QED
      BY <2>1, <2>3, <3>1
  <2> QED
    BY <2>1, <2>4, <2>5, <2>6
<1> HIDE DEF q, L
<1>6. Range(<<>>) = {}
  BY EmptyFacts
<1>7. q # <<>>
  BY <1>2, <1>4, <1>6
<1>8. Consistent(q, H, L, FALSE)
  BY <1>1, <1>3, <1>4, <1>5 DEF Consistent
<1> QED
  BY <1>7, <1>8 DEF q, L

\* A new block whose first chunks go to the client at once.
LEMMA NewRunGiven ==
  ASSUME NEW s, NEW H, NEW o, Consistent(s, H, list, o), NEW b, Fits(b),
         NEW n \in Nat \ {0}, num_chunks(n) <= b.chunks
  PROVE  Consistent(IF b.chunks > num_chunks(n)
                    THEN add_ordered_block(s, b.begin + num_chunks(n), b.chunks - num_chunks(n))
                    ELSE s,
                    H \cup {Held(b.begin, n)}, InsertOrdered(b), o)
<1> DEFINE k == num_chunks(n)
           a == b.begin
           c == b.chunks
           q == add_ordered_block(s, a + k, c - k)
           L == InsertOrdered(b)
           G == H \cup {Held(a, n)}
<1>1. s \in Seq(Nat) /\ list \in Seq(Blocks) /\ NoRepeat(s) /\ Accounted(Range(s), H, Range(list))
  BY DEF Consistent
<1>2. /\ b \in Blocks /\ a \in Nat /\ c \in Nat \ {0} /\ k \in Nat \ {0}
      /\ Chunks(b) = a..a + c - 1
  BY NumChunks DEF Fits, Blocks, Chunks
<1>3. /\ Accounted(Range(s) \cup Chunks(b), H, Range(list) \cup {b})
      /\ Range(s) \cap Chunks(b) = {}
  BY <1>1, <1>2, Grow DEF Fits
<1>4. L \in Seq(Blocks) /\ Range(L) = Range(list) \cup {b} /\ (InOrder(list) => InOrder(L))
  <2>1. Range(list) \subseteq Blocks
    BY <1>1, ElementFacts
  <2>2. \A d \in Range(list) : d.begin # b.begin
    BY <2>1, BeginsDiffer
  <2> QED
    BY <1>1, <1>2, <2>2, InsertOrderedFacts
<1> HIDE DEF L
<1>5. Accounted((Range(s) \cup Chunks(b)) \ (a..a + k - 1), G, Range(L))
  <2> HIDE DEF a, c
  <2>1. a..a + num_chunks(n) - 1 \subseteq Range(s) \cup Chunks(b)
    <3>1. k <= c
      BY DEF c
    <3> HIDE DEF k
    <3>2. a..a + k - 1 \subseteq a..a + c - 1
      BY <1>2, <3>1
    <3> QED
      BY <1>2, <3>2 DEF k
  <2>2. Accounted((Range(s) \cup Chunks(b)) \ (a..a + num_chunks(n) - 1), H \cup {Held(a, n)}, Range(list) \cup {b})
    BY <1>2, <1>3, <2>1, Take
  <2> QED
    BY <1>4, <2>2 DEF k
<1>10. k <= c
  OBVIOUS
<1> HIDE DEF a, c, k, G
<1>6. CASE c > k
  <2>1. a + k \in Nat /\ c - k \in Nat \ {0} /\ (a + k) + (c - k) - 1 = a + c - 1
    BY <1>2, <1>6
  <2>2. (a + k)..a + c - 1 \subseteq Chunks(b)
    BY <1>2
  <2>3. /\ q \in Seq(Nat) /\ Range(q) = Range(s) \cup (a + k)..a + c - 1
        /\ (NoRepeat(s) => NoRepeat(q)) /\ (Ascending(s) => Ascending(q))
    <3>1. Range(s) \cap (a + k)..(a + k) + (c - k) - 1 = {}
      BY <1>3, <2>1, <2>2
    <3> DEFINE x == a + k
               y == c - k
    <3> HIDE DEF x, y
    <3>2. LET r == add_ordered_block(s, x, y) IN
          /\ r \in Seq(Nat) /\ Range(r) = Range(s) \cup x..x + y - 1
          /\ (NoRepeat(s) => NoRepeat(r)) /\ (Ascending(s) => Ascending(r))
      BY <1>1, <2>1, <3>1, AddOrderedFacts DEF x, y
    <3> QED
      BY <2>1, <3>2 DEF x, y
  <2>4. Range(q) = (Range(s) \cup Chunks(b)) \ (a..a + k - 1)
    <3>1. (a + k)..a + c - 1 = (a..a + c - 1) \ (a..a + k - 1)
      BY <1>2
    <3>2. a..a + k - 1 \subseteq a..a + c - 1
      BY <1>2, <1>10
    <3> QED
      BY <1>2, <1>3, <2>3, <3>1, <3>2
  <2> HIDE DEF q
  <2>5. Consistent(q, G, L, o)
    BY <1>1, <1>4, <1>5, <2>3, <2>4 DEF Consistent
  <2> QED
    BY <1>6, <2>5 DEF q, a, c, k, G, L
<1>7. CASE ~(c > k)
  <2>1. c = k
    BY <1>2, <1>7, <1>10
  <2>2. Range(s) = (Range(s) \cup Chunks(b)) \ (a..a + k - 1)
    BY <1>2, <1>3, <2>1
  <2>3. Consistent(s, G, L, o)
    BY <1>1, <1>4, <1>5, <2>2 DEF Consistent
  <2> QED
    BY <1>7, <2>3 DEF a, c, k, G, L
<1> QED
  BY <1>6, <1>7

-----------------------------------------------------------------------------
(* The pool: the operations *)

\* What every operation leaves: o says whether the owner keeps order.
After(o) ==
  /\ next_size' \in Nat \ {0}
  /\ Consistent(first', held', list', o)

\* An operation that allocates gives out no array to the owner of objects.
Singles(H) == \A h \in H : h.n = 1

LEMMA Sizes ==
  ASSUME next_size \in Nat \ {0}, max_size \in Nat
  PROVE  /\ BacktrackedSize \in Nat \ {0}
         /\ \A n \in Nat \ {0} : GrownSize(n) \in Nat \ {0}
<1>1. ASSUME NEW n \in Nat \ {0} PROVE GrownSize(n) \in Nat \ {0}
  BY GrownSizePositive
<1> QED
  BY <1>1, BacktrackedSizePositive

LEMMA GiveKeeps ==
  ASSUME NEW s, NEW L, NEW o, Consistent(s, held, L, o), s # <<>>, NEW throws \in BOOLEAN,
         Give(Tail(s), Head(s), throws)
  PROVE  /\ Consistent(first', held', L, o)
         /\ Singles(held) => Singles(held')
<1>1. Consistent(Tail(s), held \cup {Held(Head(s), 1)}, L, o)
  BY HeadGiven
<1>2. Consistent(ordered_free(Tail(s), Head(s)), held, L, o)
  BY HeadFreedAgain
<1>3. CASE throws
  <2>1. first' = ordered_free(Tail(s), Head(s)) /\ held' = held
    BY <1>3 DEF Give
  <2> QED
    BY <1>2, <2>1
<1>4. CASE ~throws
  <2>1. first' = Tail(s) /\ held' = held \cup {Held(Head(s), 1)}
    BY <1>4 DEF Give
  <2>2. Singles(held) => Singles(held')
    BY <2>1 DEF Singles, Held
  <2> QED
    BY <1>1, <2>1, <2>2
<1> QED
  BY <1>3, <1>4

LEMMA FromFreeListKeeps ==
  ASSUME NEW o, Consistent(first, held, list, o), next_size \in Nat \ {0},
         NEW throws \in BOOLEAN, FromFreeList(throws)
  PROVE  After(o) /\ (Singles(held) => Singles(held'))
<1>1. first # <<>> /\ Give(Tail(first), Head(first), throws) /\ list' = list /\ next_size' = next_size
  BY DEF FromFreeList
<1>2. Consistent(first', held', list, o) /\ (Singles(held) => Singles(held'))
  BY <1>1, GiveKeeps
<1> QED
  BY <1>1, <1>2 DEF After

LEMMA MallocKeeps ==
  ASSUME Consistent(first, held, list, FALSE), next_size \in Nat \ {0}, max_size \in Nat, malloc
  PROVE  After(FALSE)
<1>1. CASE FromFreeList(FALSE)
  BY <1>1, FromFreeListKeeps
<1>2. CASE malloc_need_resize
  <2>1. PICK r \in Attempts(next_size, BacktrackedSize) :
          IF r.block = NoBlock
          THEN next_size' = r.size /\ UNCHANGED <<first, list, held>>
          ELSE /\ next_size' = GrownSize(r.size)
               /\ list' = <<r.block>> \o list
               /\ LET s == add_block(first, r.block.begin, r.block.chunks)
                  IN  Give(Tail(s), Head(s), FALSE)
    BY <1>2 DEF malloc_need_resize
  <2>2. /\ r.size \in Nat \ {0}
        /\ r.block # NoBlock => Fits(r.block) /\ r.block.chunks = r.size
    BY Sizes, AttemptFacts
  <2>3. CASE r.block = NoBlock
    BY <2>1, <2>2, <2>3 DEF After
  <2>4. CASE r.block # NoBlock
    <3> DEFINE b == r.block
               s == add_block(first, b.begin, b.chunks)
    <3>1. Fits(b)
      BY <2>2, <2>4
    <3>2. Consistent(s, held, <<b>> \o list, FALSE) /\ s # <<>>
      <4> HIDE DEF b
      <4> QED
        BY <3>1, NewBlockInFront
    <3>3. next_size' = GrownSize(r.size) /\ list' = <<b>> \o list /\ Give(Tail(s), Head(s), FALSE)
      BY <2>1, <2>4
    <3> HIDE DEF b, s
    <3>4. Consistent(first', held', <<b>> \o list, FALSE)
      BY <3>2, <3>3, GiveKeeps
    <3>5. next_size' \in Nat \ {0}
      BY <2>2, <3>3, Sizes
    <3> QED
      BY <3>3, <3>4, <3>5 DEF After
  <2> QED
    BY <2>3, <2>4
<1> QED
  BY <1>1, <1>2 DEF malloc

LEMMA OrderedMallocKeeps ==
  ASSUME NEW o, Consistent(first, held, list, o), next_size \in Nat \ {0}, max_size \in Nat,
         NEW throws \in BOOLEAN, ordered_malloc(throws)
  PROVE  After(o) /\ (Singles(held) => Singles(held'))
<1>1. CASE FromFreeList(throws)
  BY <1>1, FromFreeListKeeps
<1>2. CASE ordered_malloc_need_resize(throws)
  <2>1. PICK r \in Attempts(next_size, BacktrackedSize) :
          IF r.block = NoBlock
          THEN next_size' = r.size /\ UNCHANGED <<first, list, held>>
          ELSE /\ next_size' = GrownSize(r.size)
               /\ list' = InsertOrdered(r.block)
               /\ LET s == add_ordered_block(first, r.block.begin, r.block.chunks)
                  IN  Give(Tail(s), Head(s), throws)
    BY <1>2 DEF ordered_malloc_need_resize
  <2>2. /\ r.size \in Nat \ {0}
        /\ r.block # NoBlock => Fits(r.block) /\ r.block.chunks = r.size
    BY Sizes, AttemptFacts
  <2>3. CASE r.block = NoBlock
    BY <2>1, <2>2, <2>3 DEF After
  <2>4. CASE r.block # NoBlock
    <3> DEFINE b == r.block
               s == add_ordered_block(first, b.begin, b.chunks)
    <3>1. Fits(b)
      BY <2>2, <2>4
    <3>2. Consistent(s, held, InsertOrdered(b), o) /\ s # <<>>
      <4> HIDE DEF b
      <4> QED
        BY <3>1, NewBlockInOrder
    <3>3. /\ next_size' = GrownSize(r.size) /\ list' = InsertOrdered(b)
          /\ Give(Tail(s), Head(s), throws)
      BY <2>1, <2>4
    <3> HIDE DEF b, s
    <3>4. Consistent(first', held', InsertOrdered(b), o) /\ (Singles(held) => Singles(held'))
      BY <3>2, <3>3, GiveKeeps
    <3>5. next_size' \in Nat \ {0}
      BY <2>2, <3>3, Sizes
    <3> QED
      BY <3>3, <3>4, <3>5 DEF After
  <2> QED
    BY <2>3, <2>4
<1> QED
  BY <1>1, <1>2 DEF ordered_malloc

LEMMA LargerOf ==
  ASSUME NEW x \in Nat \ {0}, NEW y \in Nat \ {0}
  PROVE  Max({x, y}) \in {x, y} /\ Max({x, y}) >= x /\ Max({x, y}) >= y
<1>1. {x, y} \in SUBSET Nat
  OBVIOUS
<1>2. CASE x <= y
  <2>1. y \in {x, y} /\ \A z \in {x, y} : z <= y
    BY <1>2
  <2>2. Max({x, y}) = y
    BY <1>1, <2>1, MaxFacts
  <2> QED
    BY <1>2, <2>2
<1>3. CASE y <= x
  <2>1. x \in {x, y} /\ \A z \in {x, y} : z <= x
    BY <1>3
  <2>2. Max({x, y}) = x
    BY <1>1, <2>1, MaxFacts
  <2> QED
    BY <1>3, <2>2
<1> QED
  BY <1>2, <1>3

LEMMA OrderedMallocOfKeeps ==
  ASSUME NEW o, Consistent(first, held, list, o), next_size \in Nat \ {0}, max_size \in Nat,
         NEW n \in Nat, ordered_malloc_of(n)
  PROVE  After(o)
<1>1. CASE n = 0 /\ UNCHANGED <<first, list, next_size, held>>
  BY <1>1 DEF After
<1>2. CASE n > 0 /\ TakeContiguous(n)
  <2> DEFINE k == num_chunks(n)
             T == malloc_n(first, k)
             i == Min(T)
  <2>1. n \in Nat \ {0} /\ k \in Nat \ {0} /\ first \in Seq(Nat)
    BY <1>2, NumChunks DEF Consistent
  <2>2. /\ T # {} /\ held' = held \cup {Held(first[i + 1], n)}
        /\ first' = Without(first, i, k) /\ list' = list /\ next_size' = next_size
    BY <1>2 DEF TakeContiguous
  <2>3. T = {j \in 0..Len(first) : try_malloc_n(first, j, k)}
    BY <2>1 DEF malloc_n
  <2> HIDE DEF T, k
  <2>4. T \in SUBSET Nat
    BY <2>3
  <2>5. i \in T
    BY <2>2, <2>4, MinFacts
  <2>6. i \in 0..Len(first) /\ try_malloc_n(first, i, num_chunks(n))
    BY <2>3, <2>5 DEF k
  <2> HIDE DEF i
  <2>7. Consistent(Without(first, i, num_chunks(n)), held \cup {Held(first[i + 1], n)}, list, o)
    BY <2>1, <2>6, RunTaken
  <2> QED
    BY <2>2, <2>7 DEF After, k
<1>3. CASE n > 0 /\ GrowContiguous(n)
  <2> DEFINE k == num_chunks(n)
             size == Max({next_size, k})
             smaller == IF k < size THEN Max({size \div 2, k}) ELSE size
  <2>1. n \in Nat \ {0} /\ k \in Nat \ {0}
    BY <1>3, NumChunks
  <2>2. size \in Nat \ {0} /\ size >= k
    BY <2>1, LargerOf
  <2>3. PICK r \in Attempts(size, smaller) :
          IF r.block = NoBlock
          THEN next_size' = r.size /\ UNCHANGED <<first, list, held>>
          ELSE /\ next_size' = GrownSize(r.size)
               /\ first' = IF r.size > k
                           THEN add_ordered_block(first, r.block.begin + k, r.size - k)
                           ELSE first
               /\ list' = InsertOrdered(r.block)
               /\ held' = held \cup {Held(r.block.begin, n)}
    BY <1>3 DEF GrowContiguous
  <2> HIDE DEF k, size
  <2>4. smaller \in Nat \ {0} /\ smaller >= k
    <3>1. CASE k < size
      <4>1. size \div 2 \in Nat \ {0}
        BY <2>1, <2>2, <3>1
      <4> DEFINE half == size \div 2
      <4> HIDE DEF half
      <4>2. Max({half, k}) \in {half, k} /\ Max({half, k}) >= k
        BY <2>1, <4>1, LargerOf DEF half
      <4>3. smaller = Max({half, k})
        BY <3>1 DEF half
      <4> QED
        BY <2>1, <4>1, <4>2, <4>3 DEF half
    <3>2. CASE ~(k < size)
      BY <2>2, <3>2
    <3> QED
      BY <3>1, <3>2
  <2> HIDE DEF smaller
  <2>5. /\ r.size \in Nat \ {0} /\ r.size >= k
        /\ r.block # NoBlock => Fits(r.block) /\ r.block.chunks = r.size
    <3>1. /\ r.size \in {size, smaller} /\ r.size \in Nat \ {0}
          /\ r.block # NoBlock => Fits(r.block) /\ r.block.chunks = r.size
      BY <2>2, <2>4, AttemptFacts
    <3> QED
      BY <2>2, <2>4, <3>1
  <2>6. CASE r.block = NoBlock
    BY <2>3, <2>5, <2>6 DEF After
  <2>7. CASE r.block # NoBlock
    <3> DEFINE b == r.block
    <3>1. Fits(b) /\ b.chunks = r.size
      BY <2>5, <2>7
    <3>2. /\ next_size' = GrownSize(r.size)
          /\ first' = IF b.chunks > k THEN add_ordered_block(first, b.begin + k, b.chunks - k)
                                      ELSE first
          /\ list' = InsertOrdered(b) /\ held' = held \cup {Held(b.begin, n)}
      BY <2>3, <2>5, <2>7
    <3> HIDE DEF b
    <3>3. num_chunks(n) <= b.chunks
      BY <2>1, <2>5, <3>1 DEF k
    <3>4. Consistent(first', held', list', o)
      BY <2>1, <3>1, <3>2, <3>3, NewRunGiven DEF k
    <3>5. next_size' \in Nat \ {0}
      BY <2>5, <3>2, Sizes
    <3> QED
      BY <3>4, <3>5 DEF After
  <2> QED
    BY <2>6, <2>7
<1> QED
  BY <1>1, <1>2, <1>3 DEF ordered_malloc_of

LEMMA PurgeKeeps ==
  ASSUME NEW o \in BOOLEAN, Consistent(first, held, list, o), next_size \in Nat \ {0},
         start_size \in Nat \ {0}, purge_memory
  PROVE  After(o)
<1>1. held' = {}
  BY DEF purge_memory
<1>2. CASE list = <<>>
  <2>1. first' = first /\ list' = list /\ next_size' = next_size
    BY <1>2 DEF purge_memory
  <2>2. first \in Seq(Nat) /\ Range(list) = {} /\ Accounted(Range(first), held, Range(list))
    BY <1>2, EmptyFacts DEF Consistent
  <2>3. Range(first) = {}
    BY <2>2 DEF Accounted
  <2>4. Accounted(Range(first), {}, Range(list))
    BY <2>2, <2>3 DEF Accounted
  <2>5. Consistent(first, {}, list, o)
    BY <2>4 DEF Consistent
  <2> QED
    BY <1>1, <2>1, <2>5 DEF After
<1>3. CASE list # <<>>
  <2>1. first' = <<>> /\ list' = <<>> /\ next_size' = start_size
    BY <1>3 DEF purge_memory
  <2> QED
    BY <1>1, <2>1, NothingYet DEF After
<1> QED
  BY <1>2, <1>3

LEMMA ReleaseKeeps ==
  ASSUME Consistent(first, held, list, TRUE), start_size \in Nat \ {0}, release_memory
  PROVE  After(TRUE)
<1>1. /\ first \in Seq(Nat) /\ list \in Seq(Blocks) /\ Ascending(first) /\ InOrder(list)
      /\ Accounted(Range(first), held, Range(list))
  BY DEF Consistent
<1>2. /\ first' \in Seq(Nat) /\ list' \in Seq(Blocks) /\ Ascending(first') /\ InOrder(list')
      /\ Range(list') = {b \in Range(list) : ~(Chunks(b) \subseteq Range(first))}
      /\ Range(first') = {x \in Range(first) : \E b \in Range(list') : x \in Chunks(b)}
  BY <1>1, ReleaseFacts
<1> DEFINE K == Range(list')
           G == Range(first')
<1>3. held' = held /\ next_size' = start_size
  BY DEF release_memory
<1> HIDE DEF K, G
<1>4. K \in SUBSET Range(list) /\ \A b \in Range(list) \ K : Chunks(b) \subseteq Range(first)
  BY <1>2 DEF K
<1>5. Accounted({x \in Range(first) : \E b \in K : x \in Chunks(b)}, held, K)
  BY <1>1, <1>4, Shrink
<1>6. Accounted(G, held, K)
  BY <1>2, <1>5 DEF G, K
<1>7. NoRepeat(first')
  BY <1>2, AscendingNoRepeat
<1> QED
  BY <1>2, <1>3, <1>6, <1>7 DEF After, Consistent, G, K

LEMMA PoolInitInv == PoolInit => PoolInv
<1> SUFFICES ASSUME PoolInit PROVE PoolInv
  OBVIOUS
<1>1. /\ first = <<>> /\ list = <<>> /\ start_size \in StartSizes /\ next_size = start_size
      /\ max_size \in MaxSizes /\ user \in Users \ {"nobody"} /\ held = {}
  BY DEF PoolInit
<1>2. Ordered \in BOOLEAN
  BY DEF Ordered
<1>3. Consistent(first, held, list, Ordered)
  BY <1>1, <1>2, NothingYet
<1> QED
  BY <1>1, <1>3, PoolAssumption DEF PoolInv, LeftoversDestroyedOnce, Users

\* ~object_pool: what it destroys is what the client still has.
LEMMA DestructKeeps ==
  ASSUME Consistent(first, held, list, TRUE), Singles(held), destruct_object_pool
  PROVE  Ascending(destroyed') /\ Range(destroyed') = {h.at : h \in held'}
<1> DEFINE c == AllChunks
           F == Range(first)
           D == FoldLeft(DestroyChunk, DestroyStart, c).destroyed
<1>1. /\ first \in Seq(Nat) /\ list \in Seq(Blocks) /\ Ascending(first) /\ InOrder(list)
      /\ Accounted(F, held, Range(list))
  BY DEF Consistent
<1>2. \A b, d \in Range(list) : b # d => Footprint(b) \cap Footprint(d) = {}
  BY <1>1 DEF Accounted
<1>3. c \in Seq(Nat) /\ Ascending(c) /\ Range(c) = UNION {Chunks(b) : b \in Range(list)}
  BY <1>1, <1>2, AllChunksFacts
<1>4. F \subseteq Range(c)
  BY <1>1, <1>3 DEF Accounted
<1>5. destroyed' = D /\ held' = held
  BY DEF destruct_object_pool, DestroyStart
<1> HIDE DEF c
<1>6. Ascending(D) /\ Range(D) = Range(c) \ F
  BY <1>1, <1>3, <1>4, DestroyFacts
<1> HIDE DEF D
<1>7. ASSUME NEW h \in held PROVE h \in Allocations /\ HeldChunks(h) = {h.at}
  BY <1>1, HeldFacts DEF Accounted, Singles
<1>8. ASSUME NEW x \in Range(c) \ F PROVE x \in {h.at : h \in held}
  <2>1. PICK b \in Range(list) : x \in Chunks(b)
    BY <1>3
  <2>2. PICK h \in held : x \in HeldChunks(h)
    BY <1>1, <2>1 DEF Accounted
  <2> QED
    BY <1>7, <2>2
<1>9. ASSUME NEW h \in held PROVE h.at \in Range(c) \ F
  <2>1. HeldChunks(h) = {h.at} /\ HeldChunks(h) \cap F = {}
    BY <1>1, <1>7 DEF Accounted
  <2>2. PICK b \in Range(list) : HeldChunks(h) \subseteq Chunks(b)
    BY <1>1 DEF Accounted
  <2> QED
    BY <1>3, <2>1, <2>2
<1>10. Range(c) \ F = {h.at : h \in held}
  BY <1>8, <1>9
<1> QED
  BY <1>5, <1>6, <1>10

\* A step of an owner that stays, from what it leaves of the lists.
LEMMA OwnerStays ==
  ASSUME PoolInv, user # "nobody", user' = user, max_size' = max_size,
         start_size' \in Nat \ {0}, After(Ordered),
         user = "object_pool" => Singles(held')
  PROVE  PoolInv'
<1>1. max_size \in Nat /\ user \in Users
  BY DEF PoolInv
<1>2. Ordered' = Ordered
  BY DEF Ordered
<1>3. Consistent(first', held', list', Ordered') /\ next_size' \in Nat \ {0}
  BY <1>2 DEF After
<1> QED
  BY <1>1, <1>3 DEF PoolInv, LeftoversDestroyedOnce, Singles

LEMMA PoolStepInv == PoolInv /\ [PoolNext]_poolVars => PoolInv'
<1> SUFFICES ASSUME PoolInv, [PoolNext]_poolVars PROVE PoolInv'
  OBVIOUS
<1>1. /\ next_size \in Nat \ {0} /\ start_size \in Nat \ {0} /\ max_size \in Nat /\ user \in Users
      /\ user # "nobody" => Consistent(first, held, list, Ordered)
      /\ user = "object_pool" => Singles(held)
  BY DEF PoolInv, Singles
<1>2. ASSUME NEW n \in Requests, pool_allocator_allocate(n) PROVE PoolInv'
  <2>1. /\ user = "pool_allocator" /\ ordered_malloc_of(n)
        /\ start_size' = start_size /\ max_size' = max_size /\ user' = user
    BY <1>2 DEF pool_allocator_allocate
  <2>2. After(Ordered)
    BY <1>1, <2>1, PoolAssumption, OrderedMallocOfKeeps
  <2> QED
    BY <1>1, <2>1, <2>2, OwnerStays
<1>3. ASSUME NEW n \in Requests, fast_allocate(n) PROVE PoolInv'
  <2>1. /\ user = "fast_pool_allocator" /\ IF n = 1 THEN malloc ELSE ordered_malloc_of(n)
        /\ start_size' = start_size /\ max_size' = max_size /\ user' = user
    BY <1>3 DEF fast_allocate
  <2>2. Ordered = FALSE /\ Consistent(first, held, list, FALSE)
    <3>1. Ordered = FALSE
      BY <2>1 DEF Ordered
    <3> QED
      BY <1>1, <2>1, <3>1
  <2>3. After(FALSE)
    BY <1>1, <2>1, <2>2, PoolAssumption, MallocKeeps, OrderedMallocOfKeeps
  <2> QED
    BY <1>1, <2>1, <2>2, <2>3, OwnerStays
<1>4. ASSUME NEW h \in held, pool_allocator_deallocate(h) PROVE PoolInv'
  <2>1. /\ user = "pool_allocator" /\ held' = held \ {h}
        /\ first' = add_ordered_block(first, h.at, num_chunks(h.n))
        /\ list' = list /\ next_size' = next_size
        /\ start_size' = start_size /\ max_size' = max_size /\ user' = user
    BY <1>4 DEF pool_allocator_deallocate
  <2>2. Consistent(add_ordered_block(first, h.at, num_chunks(h.n)), held \ {h}, list, Ordered)
    BY <1>1, <2>1, ReturnedInOrder
  <2>3. After(Ordered)
    BY <1>1, <2>1, <2>2 DEF After
  <2> QED
    BY <1>1, <2>1, <2>3, OwnerStays
<1>5. ASSUME NEW h \in held, fast_deallocate(h) PROVE PoolInv'
  <2>1. /\ user = "fast_pool_allocator" /\ held' = held \ {h}
        /\ first' = IF h.n = 1 THEN <<h.at>> \o first
                               ELSE add_block(first, h.at, num_chunks(h.n))
        /\ list' = list /\ next_size' = next_size
        /\ start_size' = start_size /\ max_size' = max_size /\ user' = user
    BY <1>5 DEF fast_deallocate
  <2>2. Ordered = FALSE /\ Consistent(first, held, list, FALSE)
    <3>1. Ordered = FALSE
      BY <2>1 DEF Ordered
    <3> QED
      BY <1>1, <2>1, <3>1
  <2>3. /\ Consistent(add_block(first, h.at, num_chunks(h.n)), held \ {h}, list, FALSE)
        /\ h.n = 1 => Consistent(<<h.at>> \o first, held \ {h}, list, FALSE)
    BY <2>2, ReturnedInFront
  <2>4. Consistent(first', held', list', FALSE)
    BY <2>1, <2>3
  <2>5. After(Ordered)
    BY <1>1, <2>1, <2>2, <2>4 DEF After
  <2> QED
    BY <1>1, <2>1, <2>5, OwnerStays
<1>6. ASSUME NEW h \in held, destroy(h) PROVE PoolInv'
  <2>1. /\ user = "object_pool" /\ held' = held \ {h} /\ first' = ordered_free(first, h.at)
        /\ list' = list /\ next_size' = next_size
        /\ start_size' = start_size /\ max_size' = max_size /\ user' = user
    BY <1>6 DEF destroy
  <2>2. h.n = 1 /\ Singles(held')
    BY <1>1, <2>1 DEF Singles
  <2>3. Consistent(ordered_free(first, h.at), held \ {h}, list, Ordered)
    BY <1>1, <2>1, <2>2, ReturnedInOrder
  <2>4. After(Ordered)
    BY <1>1, <2>1, <2>3 DEF After
  <2> QED
    BY <1>1, <2>1, <2>2, <2>4, OwnerStays
<1>7. CASE singleton_release_memory
  <2>1. /\ user = "pool_allocator" /\ release_memory
        /\ start_size' = start_size /\ max_size' = max_size /\ user' = user
    BY <1>7 DEF singleton_release_memory
  <2>2. Ordered = TRUE /\ Consistent(first, held, list, TRUE)
    <3>1. Ordered = TRUE
      BY <2>1 DEF Ordered
    <3> QED
      BY <1>1, <2>1, <3>1
  <2>3. After(TRUE)
    BY <1>1, <2>1, <2>2, ReleaseKeeps
  <2> QED
    BY <1>1, <2>1, <2>2, <2>3, OwnerStays
<1>8. CASE singleton_purge_memory
  <2>1. /\ user \in {"pool_allocator", "fast_pool_allocator"} /\ purge_memory
        /\ start_size' = start_size /\ max_size' = max_size /\ user' = user
    BY <1>8 DEF singleton_purge_memory
  <2>2. Ordered \in BOOLEAN
    BY DEF Ordered
  <2>3. After(Ordered)
    BY <1>1, <2>1, <2>2, PurgeKeeps
  <2> QED
    BY <1>1, <2>1, <2>3, OwnerStays
<1>9. ASSUME NEW throws \in BOOLEAN, construct(throws) PROVE PoolInv'
  <2>1. /\ user = "object_pool" /\ ordered_malloc(throws)
        /\ start_size' = start_size /\ max_size' = max_size /\ user' = user
    BY <1>9 DEF construct
  <2>2. After(Ordered) /\ Singles(held')
    BY <1>1, <2>1, OrderedMallocKeeps
  <2> QED
    BY <1>1, <2>1, <2>2, OwnerStays
<1>10. CASE destruct_object_pool
  <2>1. user = "object_pool" /\ user' = "nobody" /\ max_size' = max_size
        /\ next_size' = next_size /\ start_size' = start_size
    BY <1>10 DEF destruct_object_pool
  <2>2. Ordered = TRUE /\ Consistent(first, held, list, TRUE) /\ Singles(held)
    <3>1. Ordered = TRUE
      BY <2>1 DEF Ordered
    <3> QED
      BY <1>1, <2>1, <3>1
  <2>3. Ascending(destroyed') /\ Range(destroyed') = {h.at : h \in held'}
    BY <1>10, <2>2, DestructKeeps
  <2>4. LeftoversDestroyedOnce'
    BY <2>3 DEF LeftoversDestroyedOnce
  <2> QED
    BY <1>1, <2>1, <2>4 DEF PoolInv, Users
<1>11. ASSUME NEW n \in StartSizes, set_next_size(n) PROVE PoolInv'
  <2>1. /\ user = "object_pool" /\ next_size' = n /\ start_size' = n
        /\ first' = first /\ list' = list /\ max_size' = max_size /\ user' = user /\ held' = held
    BY <1>11 DEF set_next_size
  <2>2. n \in Nat \ {0}
    BY PoolAssumption
  <2>3. After(Ordered) /\ Singles(held')
    BY <1>1, <2>1, <2>2 DEF After
  <2> QED
    BY <2>1, <2>2, <2>3, OwnerStays
<1>12. CASE UNCHANGED poolVars
  BY <1>12 DEF poolVars, PoolInv, Ordered, LeftoversDestroyedOnce
<1> QED
  BY <1>2, <1>3, <1>4, <1>5, <1>6, <1>7, <1>8, <1>9, <1>10, <1>11, <1>12 DEF PoolNext

LEMMA PoolAlways == PoolSpec => []PoolInv
  BY PoolInitInv, PoolStepInv, PTL DEF PoolSpec

\* A list without repetition is as long as its set is large.
LEMMA AsLongAsLarge ==
  ASSUME NEW s \in Seq(Nat), NoRepeat(s)
  PROVE  Cardinality(Range(s)) = Len(s)
<1> DEFINE n == Len(s)
           R == Range(s)
<1>1. /\ \A x \in R : \E i \in 1..n : x = s[i]
      /\ \A i \in 1..n : s[i] \in R
      /\ n \in Nat /\ s \in [1..n -> R]
  <2>1. /\ \A x \in R : \E i \in 1..n : x = s[i]
        /\ \A i \in 1..n : s[i] \in R
        /\ n \in Nat
    BY ElementFacts
  <2>2. s = [i \in 1..n |-> s[i]]
    OBVIOUS
  <2> QED
    BY <2>1, <2>2
<1>2. \A i, j \in 1..n : s[i] = s[j] => i = j
  BY DEF NoRepeat
<1> HIDE DEF n, R
<1>3. s \in Injection(1..n, R)
  BY <1>1, <1>2 DEF Injection, IsInjective
<1>4. s \in Surjection(1..n, R)
  BY <1>1 DEF Surjection
<1>5. IsFiniteSet(1..n) /\ Cardinality(1..n) = n
  <2>1. 1 \in Int /\ n \in Int
    BY <1>1
  <2>2. IsFiniteSet(1..n) /\ Cardinality(1..n) = IF 1 > n THEN 0 ELSE n - 1 + 1
    BY <2>1, FS_Interval
  <2> QED
    BY <1>1, <2>2
<1>6. Cardinality(R) = Cardinality(1..n)
  BY <1>3, <1>4, <1>5, FS_Surjection
<1> QED
  BY <1>5, <1>6 DEF n, R

-----------------------------------------------------------------------------

\* No chunk of the pool is handed out twice, lost, or used after its block went
\* back to the system, for any sizes, any arena and any number of blocks, requests
\* and releases.
THEOREM PoolAccounts == PoolSpec => []ChunksAccountedFor
<1>1. PoolInv => ChunksAccountedFor
  <2> SUFFICES ASSUME PoolInv, user # "nobody" PROVE ChunksAccountedFor
    BY DEF ChunksAccountedFor
  <2> DEFINE F == Range(first)
             B == Range(list)
  <2>1. first \in Seq(Nat) /\ NoRepeat(first) /\ Accounted(F, held, B)
    BY DEF PoolInv, Consistent
  <2>2. Cardinality(F) = Len(first)
    BY <2>1, AsLongAsLarge
  <2>3. F \cup UNION {HeldChunks(h) : h \in held} = UNION {Chunks(b) : b \in B}
    BY <2>1 DEF Accounted
  <2>4. /\ \A h \in held : \E b \in B : HeldChunks(h) \subseteq Chunks(b)
        /\ \A g, h \in held : g # h => HeldChunks(g) \cap HeldChunks(h) = {}
        /\ \A h \in held : HeldChunks(h) \cap F = {}
    BY <2>1 DEF Accounted
  <2> QED
    BY <2>2, <2>3, <2>4 DEF ChunksAccountedFor
<1> QED
  BY <1>1, PoolAlways, PTL

\* release_memory gives back exactly the blocks none of whose chunks is in use, and
\* leaves both lists in order, however many blocks and free chunks it walks over.
THEOREM ReleaseExact == PoolSpec => ReleaseIsExact
<1> DEFINE Busy(b) == \E h \in held : h.at \in Chunks(b)
           Exact ==
             release_memory /\ user = "pool_allocator" =>
               /\ Range(list') = {b \in Range(list) : Busy(b)}
               /\ Range(first') = {c \in Range(first) : \E b \in Range(list') : c \in Chunks(b)}
               /\ InOrder(list') /\ Ascending(first')
<1>1. PoolInv => Exact
  <2> SUFFICES ASSUME PoolInv, release_memory, user = "pool_allocator" PROVE Exact
    OBVIOUS
  <2> DEFINE F == Range(first)
  <2>1. Ordered = TRUE
    BY DEF Ordered
  <2>2. /\ first \in Seq(Nat) /\ list \in Seq(Blocks) /\ Ascending(first) /\ InOrder(list)
        /\ Accounted(F, held, Range(list))
    BY <2>1 DEF PoolInv, Consistent
  <2>3. /\ Ascending(first') /\ InOrder(list')
        /\ Range(list') = {b \in Range(list) : ~(Chunks(b) \subseteq F)}
        /\ Range(first') = {x \in F : \E b \in Range(list') : x \in Chunks(b)}
    BY <2>2, ReleaseFacts
  <2>4. ASSUME NEW b \in Range(list) PROVE ~(Chunks(b) \subseteq F) <=> Busy(b)
    <3>1. ASSUME NEW h \in held, h.at \in Chunks(b) PROVE ~(Chunks(b) \subseteq F)
      <4>1. h.at \in HeldChunks(h) /\ HeldChunks(h) \cap F = {}
        BY <2>2, HeldFacts DEF Accounted
      <4> QED
        BY <3>1, <4>1
    <3>2. ASSUME NEW x \in Chunks(b), x \notin F PROVE Busy(b)
      <4>1. PICK h \in held : x \in HeldChunks(h)
        BY <2>2, <3>2 DEF Accounted
      <4>2. PICK c \in Range(list) : HeldChunks(h) \subseteq Chunks(c)
        BY <2>2 DEF Accounted
      <4>3. x \in Footprint(b) /\ x \in Footprint(c)
        <5>1. \A d \in Range(list) : d \in Blocks /\ Chunks(d) \subseteq Footprint(d)
          BY <2>2, BlockFacts DEF Accounted
        <5> QED
          BY <4>1, <4>2, <5>1
      <4>4. b = c
        BY <2>2, <4>3 DEF Accounted
      <4>5. h.at \in HeldChunks(h)
        BY <2>2, HeldFacts DEF Accounted
      <4> QED
        BY <4>2, <4>4, <4>5
    <3> QED
      BY <3>1, <3>2
  <2>5. Range(list') = {b \in Range(list) : Busy(b)}
    BY <2>3, <2>4
  <2> QED
    BY <2>3, <2>5
<1>2. PoolInv /\ [PoolNext]_poolVars => [Exact]_poolVars
  BY <1>1
<1>3. PoolSpec => [][Exact]_poolVars
  BY <1>2, PoolAlways, PTL DEF PoolSpec
<1> QED
  BY <1>3, PTL DEF ReleaseIsExact

\* ~object_pool destroys each object the client still has exactly once and nothing
\* else, however the objects lie in the blocks.
THEOREM LeftoversDestroyed == PoolSpec => []LeftoversDestroyedOnce
<1>1. PoolInv => LeftoversDestroyedOnce
  BY DEF PoolInv
<1> QED
  BY <1>1, PoolAlways, PTL

=============================================================================
