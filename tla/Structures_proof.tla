-------------------------- MODULE Structures_proof -------------------------
(***************************************************************************)
(* Proofs about data structures: the hash table of the ZooKeeper client,   *)
(* for any hash, any sizes and any number of entries; its archives, for    *)
(* any fields and any number of them; and the interval tree, for any       *)
(* intervals, any depth and any sizes of a bucket.                         *)
(***************************************************************************)
EXTENDS HashTable, Records, Intervals, NatLemmas, SequenceTheorems

-----------------------------------------------------------------------------
(* The hash table: lists and tables that hold a map, a set of pairs *)

Entries == [h : Nat, k : Keys, v : Values]
Pairs   == Keys \X Values

\* The bucket a key belongs to in a table of n lists.
Bucket(n, k) == indexFor(n, Hash[k])

\* The list l has the pairs of Q, each once.
HoldsList(l, Q) ==
  /\ l \in Seq(Entries)
  /\ \A j \in 1..Len(l) : l[j].h = Hash[l[j].k] /\ <<l[j].k, l[j].v>> \in Q
  /\ \A i, j \in 1..Len(l) : l[i].k = l[j].k => i = j
  /\ \A q \in Q : \E j \in 1..Len(l) : q = <<l[j].k, l[j].v>>

\* The table t of n lists has the pairs of M, each in its list.
HoldsMap(t, n, M) ==
  /\ t \in Seq(Seq(Entries)) /\ n \in Nat \ {0} /\ Len(t) = n /\ M \in SUBSET Pairs
  /\ \A i \in 1..n : HoldsList(t[i], {p \in M : Bucket(n, p[1]) = i})

LEMMA BucketFacts ==
  ASSUME NEW n \in Nat \ {0}, NEW k \in Keys
  PROVE  Hash[k] \in Nat /\ Bucket(n, k) \in 1..n
<1>1. Hash[k] \in Nat
  BY TableAssumption
<1>2. (Hash[k] % n) \in 0..n - 1
  BY <1>1
<1> QED
  BY <1>1, <1>2 DEF Bucket, indexFor

LEMMA EntryFacts ==
  ASSUME NEW k \in Keys, NEW v \in Values
  PROVE  /\ Entry(k, v) \in Entries
         /\ Entry(k, v).h = Hash[k] /\ Entry(k, v).k = k /\ Entry(k, v).v = v
<1>1. Hash[k] \in Nat
  BY TableAssumption
<1> QED
  BY <1>1 DEF Entry, Entries

LEMMA EmptyList == HoldsList(<<>>, {})
  BY DEF HoldsList

\* An entry with a new key at the head of a list.
LEMMA ConsList ==
  ASSUME NEW l, NEW Q, HoldsList(l, Q), NEW e \in Entries, e.h = Hash[e.k],
         \A q \in Q : q[1] # e.k
  PROVE  HoldsList(<<e>> \o l, Q \cup {<<e.k, e.v>>})
<1> DEFINE m == <<e>> \o l
<1>1. l \in Seq(Entries) /\ <<e>> \in Seq(Entries) /\ Len(<<e>>) = 1 /\ <<e>>[1] = e
  BY DEF HoldsList
<1>2. /\ m \in Seq(Entries) /\ Len(m) = 1 + Len(l) /\ m[1] = e
      /\ \A j \in 2..Len(l) + 1 : m[j] = l[j - 1]
  <2> DEFINE a == <<e>>
  <2>1. a \in Seq(Entries) /\ Len(a) = 1 /\ a[1] = e
    BY <1>1
  <2> HIDE DEF a
  <2>2. /\ a \o l \in Seq(Entries) /\ Len(a \o l) = Len(a) + Len(l)
        /\ \A i \in 1..Len(a) : (a \o l)[i] = a[i]
        /\ \A i \in Len(a) + 1..Len(a) + Len(l) : (a \o l)[i] = l[i - Len(a)]
    <3>1. a \in Seq(Entries) /\ l \in Seq(Entries)
      BY <1>1, <2>1
    <3> QED
      BY ONLY <3>1, ConcatIs, ZenonT(40)
  <2>3. m = a \o l
    BY DEF a
  <2> HIDE DEF m
  <2>4. Len(l) \in Nat
    BY <1>1
  <2> QED
    BY <2>1, <2>2, <2>3, <2>4
<1> HIDE DEF m
<1>3. Len(l) \in Nat
  BY <1>1
<1>4. \A j \in 2..Len(l) + 1 : j - 1 \in 1..Len(l)
  BY <1>3
<1>5. \A j \in 1..Len(m) : j = 1 \/ (j \in 2..Len(l) + 1 /\ j - 1 \in 1..Len(l))
  BY <1>2, <1>3
<1>6. /\ \A j \in 1..Len(l) : l[j].h = Hash[l[j].k] /\ <<l[j].k, l[j].v>> \in Q
      /\ \A i, j \in 1..Len(l) : l[i].k = l[j].k => i = j
      /\ \A q \in Q : \E j \in 1..Len(l) : q = <<l[j].k, l[j].v>>
  BY DEF HoldsList
<1>7. \A j \in 1..Len(l) : l[j].k # e.k
  <2> TAKE j \in 1..Len(l)
  <2>1. <<l[j].k, l[j].v>> \in Q
    BY <1>6
  <2>2. <<l[j].k, l[j].v>>[1] # e.k
    BY <2>1
  <2> QED
    BY <2>2
<1>8. ASSUME NEW j \in 1..Len(m)
      PROVE  m[j].h = Hash[m[j].k] /\ <<m[j].k, m[j].v>> \in Q \cup {<<e.k, e.v>>}
  <2>1. CASE j = 1
    BY <1>2, <2>1
  <2>2. CASE j \in 2..Len(l) + 1
    BY <1>2, <1>4, <1>6, <2>2
  <2> QED
    BY <1>5, <2>1, <2>2
<1>9. ASSUME NEW i \in 1..Len(m), NEW j \in 1..Len(m), m[i].k = m[j].k PROVE i = j
  <2>1. CASE i = 1 /\ j = 1
    BY <2>1
  <2>2. CASE i = 1 /\ j \in 2..Len(l) + 1
    BY <1>2, <1>4, <1>7, <1>9, <2>2
  <2>3. CASE j = 1 /\ i \in 2..Len(l) + 1
    BY <1>2, <1>4, <1>7, <1>9, <2>3
  <2>4. CASE i \in 2..Len(l) + 1 /\ j \in 2..Len(l) + 1
    <3>1. l[i - 1].k = l[j - 1].k /\ i - 1 \in 1..Len(l) /\ j - 1 \in 1..Len(l)
      BY <1>2, <1>4, <1>9, <2>4
    <3>2. i - 1 = j - 1
      BY <1>6, <3>1
    <3> QED
      BY <2>4, <3>2
  <2> QED
    BY <1>5, <2>1, <2>2, <2>3, <2>4
<1>10. ASSUME NEW q \in Q \cup {<<e.k, e.v>>} PROVE \E j \in 1..Len(m) : q = <<m[j].k, m[j].v>>
  <2>1. CASE q = <<e.k, e.v>>
    <3>1. 1 \in 1..Len(m)
      BY <1>2, <1>3
    <3> QED
      BY <1>2, <2>1, <3>1
  <2>2. CASE q \in Q
    <3>1. PICK j \in 1..Len(l) : q = <<l[j].k, l[j].v>>
      BY <1>6, <2>2
    <3>2. j + 1 \in 2..Len(l) + 1 /\ (j + 1) - 1 = j /\ j + 1 \in 1..Len(m)
      BY <1>2, <1>3
    <3>3. m[j + 1] = l[j]
      BY <1>2, <3>2
    <3> QED
      BY <3>1, <3>2, <3>3
  <2> QED
    BY <2>1, <2>2
<1>11. HoldsList(m, Q \cup {<<e.k, e.v>>})
  BY <1>2, <1>8, <1>9, <1>10 DEF HoldsList
<1> QED
  BY <1>11 DEF m

\* A list without its entry at j.
LEMMA DropList ==
  ASSUME NEW l, NEW Q, HoldsList(l, Q), NEW j \in 1..Len(l)
  PROVE  HoldsList(RemoveAt(l, j), {q \in Q : q[1] # l[j].k})
<1> DEFINE m == RemoveAt(l, j)
           R == {q \in Q : q[1] # l[j].k}
<1>1. l \in Seq(Entries) /\ Len(l) \in Nat
  BY DEF HoldsList
<1>2. /\ m \in Seq(Entries) /\ Len(m) = Len(l) - 1
      /\ \A i \in 1..j - 1 : m[i] = l[i]
      /\ \A i \in j..Len(l) - 1 : m[i] = l[i + 1]
  BY <1>1, RemoveAtIs
<1> HIDE DEF m
<1>3. /\ \A i \in 1..Len(l) : l[i].h = Hash[l[i].k] /\ <<l[i].k, l[i].v>> \in Q
      /\ \A i, k \in 1..Len(l) : l[i].k = l[k].k => i = k
      /\ \A q \in Q : \E i \in 1..Len(l) : q = <<l[i].k, l[i].v>>
  BY DEF HoldsList
<1> DEFINE from(i) == IF i < j THEN i ELSE i + 1
<1>4. ASSUME NEW i \in 1..Len(m)
      PROVE  m[i] = l[from(i)] /\ from(i) \in 1..Len(l) /\ from(i) # j
  <2>1. CASE i < j
    <3>1. i \in 1..j - 1 /\ i \in 1..Len(l) /\ i # j
      BY <1>1, <1>2, <2>1
    <3> QED
      BY <1>2, <2>1, <3>1
  <2>2. CASE ~(i < j)
    <3>1. i \in j..Len(l) - 1 /\ i + 1 \in 1..Len(l) /\ i + 1 # j
      BY <1>1, <1>2, <2>2
    <3> QED
      BY <1>2, <2>2, <3>1
  <2> QED
    BY <2>1, <2>2
<1>5. ASSUME NEW i \in 1..Len(l), i # j PROVE \E k \in 1..Len(m) : m[k] = l[i]
  <2>1. CASE i < j
    <3>1. i \in 1..j - 1 /\ i \in 1..Len(m)
      BY <1>1, <1>2, <2>1
    <3> QED
      BY <1>2, <3>1
  <2>2. CASE i > j
    <3>1. i - 1 \in j..Len(l) - 1 /\ i - 1 \in 1..Len(m) /\ (i - 1) + 1 = i
      BY <1>1, <1>2, <2>2
    <3>2. m[i - 1] = l[i]
      BY <1>2, <3>1
    <3> QED
      BY <3>1, <3>2
  <2> QED
    BY <1>5, <2>1, <2>2
<1>6. ASSUME NEW i \in 1..Len(m)
      PROVE  m[i].h = Hash[m[i].k] /\ <<m[i].k, m[i].v>> \in R
  <2>1. l[from(i)].k # l[j].k
    BY <1>3, <1>4
  <2>2. <<m[i].k, m[i].v>> \in Q /\ <<m[i].k, m[i].v>>[1] # l[j].k
    BY <1>3, <1>4, <2>1
  <2> QED
    BY <1>3, <1>4, <2>2
<1>7. ASSUME NEW i \in 1..Len(m), NEW k \in 1..Len(m), m[i].k = m[k].k PROVE i = k
  <2>1. from(i) = from(k)
    BY <1>3, <1>4, <1>7
  <2>2. i \in Int /\ k \in Int /\ j \in Int
    OBVIOUS
  <2> QED
    BY ONLY <2>1, <2>2
<1>8. ASSUME NEW q \in R PROVE \E i \in 1..Len(m) : q = <<m[i].k, m[i].v>>
  <2>1. PICK i \in 1..Len(l) : q = <<l[i].k, l[i].v>>
    BY <1>3
  <2>2. i # j
    <3>1. q[1] # l[j].k /\ q[1] = l[i].k
      BY <2>1
    <3> QED
      BY <3>1
  <2>3. PICK k \in 1..Len(m) : m[k] = l[i]
    BY <1>5, <2>2
  <2> QED
    BY <2>1, <2>3
<1>9. HoldsList(m, R)
  BY <1>2, <1>6, <1>7, <1>8 DEF HoldsList
<1> QED
  BY <1>9 DEF m

\* The places of a key in the list that holds it.
LEMMA FoundInList ==
  ASSUME NEW l, NEW Q, HoldsList(l, Q), NEW k \in Keys
  PROVE  LET F == {j \in DOMAIN l : l[j].h = Hash[k] /\ l[j].k = k} IN
         \/ F = {} /\ \A q \in Q : q[1] # k
         \/ \E j \in 1..Len(l) : F = {j} /\ Min(F) = j /\ l[j].k = k /\ <<k, l[j].v>> \in Q
<1> DEFINE F == {j \in DOMAIN l : l[j].h = Hash[k] /\ l[j].k = k}
<1>1. /\ l \in Seq(Entries) /\ DOMAIN l = 1..Len(l) /\ Len(l) \in Nat
      /\ \A j \in 1..Len(l) : l[j].h = Hash[l[j].k] /\ <<l[j].k, l[j].v>> \in Q
      /\ \A i, j \in 1..Len(l) : l[i].k = l[j].k => i = j
      /\ \A q \in Q : \E j \in 1..Len(l) : q = <<l[j].k, l[j].v>>
  BY DEF HoldsList
<1>2. F = {j \in 1..Len(l) : l[j].k = k}
  BY <1>1
<1> HIDE DEF F
<1>3. CASE \E j \in 1..Len(l) : l[j].k = k
  <2>1. PICK j \in 1..Len(l) : l[j].k = k
    BY <1>3
  <2>2. F = {j}
    BY <1>1, <1>2, <2>1
  <2>3. Min(F) = j
    <3>1. F \in SUBSET Nat /\ F # {}
      BY <2>2
    <3> QED
      BY <2>2, <3>1, MinFacts
  <2>4. <<k, l[j].v>> \in Q
    BY <1>1, <2>1
  <2> QED
    BY <2>1, <2>2, <2>3, <2>4 DEF F
<1>4. CASE ~ \E j \in 1..Len(l) : l[j].k = k
  <2>1. F = {}
    BY <1>2, <1>4
  <2>2. ASSUME NEW q \in Q PROVE q[1] # k
    <3>1. PICK j \in 1..Len(l) : q = <<l[j].k, l[j].v>>
      BY <1>1
    <3> QED
      BY <1>4, <3>1
  <2> QED
    BY <2>1, <2>2 DEF F
<1> QED
  BY <1>3, <1>4

LEMMA ExceptIs ==
  ASSUME NEW S, NEW t \in Seq(S), NEW i \in 1..Len(t), NEW x \in S
  PROVE  LET r == [t EXCEPT ![i] = x] IN
         /\ r \in Seq(S) /\ Len(r) = Len(t) /\ r[i] = x
         /\ \A j \in 1..Len(t) : j # i => r[j] = t[j]
  OBVIOUS

\* Another list in bucket i, with the pairs R instead of Q.
LEMMA ChangeList ==
  ASSUME NEW t, NEW n, NEW M, HoldsMap(t, n, M), NEW i \in 1..n, NEW l, NEW N \in SUBSET Pairs,
         HoldsList(l, {p \in N : Bucket(n, p[1]) = i}),
         \A p \in Pairs : Bucket(n, p[1]) # i => (p \in M <=> p \in N)
  PROVE  HoldsMap([t EXCEPT ![i] = l], n, N)
<1> DEFINE r == [t EXCEPT ![i] = l]
<1>1. t \in Seq(Seq(Entries)) /\ n \in Nat \ {0} /\ Len(t) = n /\ l \in Seq(Entries)
  BY DEF HoldsMap, HoldsList
<1>2. /\ r \in Seq(Seq(Entries)) /\ Len(r) = n /\ r[i] = l
      /\ \A j \in 1..n : j # i => r[j] = t[j]
  <2>1. i \in 1..Len(t)
    BY <1>1
  <2> QED
    BY <1>1, <2>1, ExceptIs
<1> HIDE DEF r
<1>3. ASSUME NEW j \in 1..n PROVE HoldsList(r[j], {p \in N : Bucket(n, p[1]) = j})
  <2>1. CASE j = i
    BY <1>2, <2>1
  <2>2. CASE j # i
    <3>1. HoldsList(t[j], {p \in M : Bucket(n, p[1]) = j})
      BY DEF HoldsMap
    <3>2. M \in SUBSET Pairs
      BY DEF HoldsMap
    <3>3. {p \in M : Bucket(n, p[1]) = j} = {p \in N : Bucket(n, p[1]) = j}
      BY <2>2, <3>2
    <3> QED
      BY <1>2, <2>2, <3>1, <3>3
  <2> QED
    BY <2>1, <2>2
<1>4. HoldsMap(r, n, N)
  BY <1>1, <1>2, <1>3 DEF HoldsMap
<1> QED
  BY <1>4 DEF r

LEMMA PutFirstFacts ==
  ASSUME NEW t, NEW n, NEW M, HoldsMap(t, n, M), NEW e \in Entries, e.h = Hash[e.k],
         \A p \in M : p[1] # e.k
  PROVE  HoldsMap(PutFirst(t, e), n, M \cup {<<e.k, e.v>>})
<1> DEFINE i == Bucket(n, e.k)
           p == <<e.k, e.v>>
           N == M \cup {p}
<1>1. /\ Len(t) = n /\ n \in Nat \ {0} /\ M \in SUBSET Pairs /\ e.k \in Keys /\ p \in Pairs
      /\ p[1] = e.k
  BY DEF HoldsMap, Entries, Pairs
<1>2. i \in 1..n
  BY <1>1, BucketFacts
<1>3. PutFirst(t, e) = [t EXCEPT ![i] = <<e>> \o t[i]]
  BY <1>1 DEF PutFirst, Bucket
<1>4. HoldsList(t[i], {q \in M : Bucket(n, q[1]) = i})
  BY <1>2 DEF HoldsMap
<1>5. HoldsList(<<e>> \o t[i], {q \in M : Bucket(n, q[1]) = i} \cup {p})
  BY <1>4, ConsList
<1>6. {q \in M : Bucket(n, q[1]) = i} \cup {p} = {q \in N : Bucket(n, q[1]) = i}
  BY <1>1
<1>7. \A q \in Pairs : Bucket(n, q[1]) # i => (q \in M <=> q \in N)
  BY <1>1
<1>8. N \in SUBSET Pairs
  BY <1>1
<1> HIDE DEF N, p, i
<1>9. HoldsMap([t EXCEPT ![i] = <<e>> \o t[i]], n, N)
  BY <1>2, <1>5, <1>6, <1>7, <1>8, ChangeList
<1> QED
  BY <1>3, <1>9 DEF N, p

LEMMA EmptyTable ==
  ASSUME NEW n \in Nat \ {0}
  PROVE  HoldsMap([i \in 1..n |-> <<>>], n, {})
<1> DEFINE t == [i \in 1..n |-> <<>>]
<1>1. t \in Seq(Seq(Entries)) /\ Len(t) = n
  <2>1. t \in [1..n -> Seq(Entries)]
    OBVIOUS
  <2> QED
    BY <2>1
<1>2. \A i \in 1..n : HoldsList(t[i], {p \in {} : Bucket(n, p[1]) = i})
  <2> TAKE i \in 1..n
  <2>1. {p \in {} : Bucket(n, p[1]) = i} = {}
    OBVIOUS
  <2>2. t[i] = <<>>
    OBVIOUS
  <2> QED
    BY <2>1, <2>2, EmptyList
<1> HIDE DEF t
<1>3. HoldsMap(t, n, {})
  BY <1>1, <1>2 DEF HoldsMap, Pairs
<1> QED
  BY <1>3 DEF t

-----------------------------------------------------------------------------
(* The hash table: the two walks of an expansion *)

Tables(n) == {t \in Seq(Seq(Entries)) : Len(t) = n}

LEMMA PutFirstType ==
  ASSUME NEW n \in Nat \ {0}, NEW t \in Tables(n), NEW e \in Entries
  PROVE  PutFirst(t, e) \in Tables(n)
<1> DEFINE i == indexFor(Len(t), e.h)
<1>1. t \in Seq(Seq(Entries)) /\ Len(t) = n /\ e.h \in Nat
  BY DEF Tables, Entries
<1>2. i \in 1..Len(t)
  <2>1. (e.h % n) \in 0..n - 1
    BY <1>1
  <2> QED
    BY <1>1, <2>1 DEF indexFor
<1>3. <<e>> \o t[i] \in Seq(Entries)
  <2>1. t[i] \in Seq(Entries) /\ <<e>> \in Seq(Entries)
    BY <1>1, <1>2
  <2> DEFINE a == <<e>>
             b == t[i]
  <2>2. a \in Seq(Entries) /\ b \in Seq(Entries)
    BY <2>1
  <2> HIDE DEF a, b
  <2>3. a \o b \in Seq(Entries)
    BY <2>2, ConcatIs
  <2> QED
    BY <2>3 DEF a, b
<1> HIDE DEF i
<1> DEFINE x == <<e>> \o t[i]
<1>4. PutFirst(t, e) = [t EXCEPT ![i] = x]
  BY DEF PutFirst, i
<1> HIDE DEF x
<1>5. x \in Seq(Entries)
  BY <1>3 DEF x
<1>6. [t EXCEPT ![i] = x] \in Seq(Seq(Entries)) /\ Len([t EXCEPT ![i] = x]) = n
  BY <1>1, <1>2, <1>5, ExceptIs
<1> QED
  BY <1>4, <1>6 DEF Tables

\* The states of the table while the entries of a list move into it.
LEMMA MoveListWalk ==
  ASSUME NEW n \in Nat \ {0}, NEW t \in Tables(n), NEW l \in Seq(Entries)
  PROVE  \E W : /\ W[0] = t
                /\ \A i \in 1..Len(l) : W[i] = PutFirst(W[i - 1], l[i])
                /\ MoveList(t, l) = W[Len(l)]
<1> DEFINE m == Len(l)
           D == SUBSET (1..m)
           F == [x \in Tables(n) \X (1..m) |-> PutFirst(x[1], l[x[2]])]
<1>1. m \in Nat /\ DOMAIN l = 1..m /\ \A i \in 1..m : l[i] \in Entries
  OBVIOUS
<1> HIDE DEF m
<1>2. F \in [Tables(n) \X (1..m) -> Tables(n)]
  <2>1. ASSUME NEW x \in Tables(n) \X (1..m) PROVE PutFirst(x[1], l[x[2]]) \in Tables(n)
    BY <1>1, PutFirstType
  <2> QED
    BY <2>1
<1>3. \A u \in Tables(n), i \in 1..m : F[<<u, i>>] = PutFirst(u, l[i])
  OBVIOUS
<1> HIDE DEF F
<1>4. PICK V \in [D -> Tables(n)] : \A s \in D :
        V[s] = IF s = {} THEN t ELSE F[<<V[s \ {Max(s)}], Max(s)>>]
  <2> DEFINE St == Tables(n)
  <2>1. t \in St /\ F \in [St \X (1..m) -> St]
    BY <1>2
  <2> HIDE DEF St
  <2>2. \E V \in [SUBSET (1..m) -> St] : FoldOf(V, F, t, m)
    BY ONLY <1>1, <2>1, FoldExists
  <2> QED
    BY <2>2 DEF St, FoldOf
<1>5. ASSUME NEW s \in D, s # {} PROVE Max(s) \in 1..m /\ s \ {Max(s)} \in D
  BY <1>1, <1>5, LargestIndex
<1>6. V = [s \in D |-> IF s = {} THEN t ELSE PutFirst(V[s \ {Max(s)}], l[Max(s)])]
  <2>1. ASSUME NEW s \in D
        PROVE  V[s] = IF s = {} THEN t ELSE PutFirst(V[s \ {Max(s)}], l[Max(s)])
    <3>1. CASE s # {}
      <4>1. Max(s) \in 1..m /\ V[s \ {Max(s)}] \in Tables(n)
        BY <1>5, <3>1
      <4> QED
        BY <1>3, <1>4, <3>1, <4>1
    <3> QED
      BY <1>4, <3>1
  <2> HIDE DEF D
  <2> QED
    BY <2>1
<1> DEFINE U == CHOOSE U : U = [s \in D |-> IF s = {} THEN t ELSE PutFirst(U[s \ {Max(s)}], l[Max(s)])]
<1>7. U = [s \in D |-> IF s = {} THEN t ELSE PutFirst(U[s \ {Max(s)}], l[Max(s)])]
  BY <1>6
<1>8. MoveList(t, l) = U[1..m]
  BY <1>1 DEF MoveList, FoldLeft, MapThenFoldSet
<1> HIDE DEF U
<1> DEFINE W == [i \in 0..m |-> U[1..i]]
<1>9. W[0] = t
  BY <1>1, <1>7, IntervalSteps
<1>10. ASSUME NEW i \in 1..m PROVE W[i] = PutFirst(W[i - 1], l[i])
  <2>0. i \in 0..m /\ i - 1 \in 0..m
    BY <1>1
  <2>1. 1..i \in D /\ 1..i # {} /\ Max(1..i) = i /\ (1..i) \ {i} = 1..i - 1
    BY <1>1, <2>0, IntervalSteps
  <2> DEFINE s == 1..i
  <2>2. U[s] = PutFirst(U[s \ {Max(s)}], l[Max(s)])
    BY <1>7, <2>1
  <2> QED
    BY <2>0, <2>1, <2>2
<1>11. W[m] = U[1..m]
  BY <1>1
<1> HIDE DEF W
<1> QED
  BY <1>8, <1>9, <1>10, <1>11 DEF m

LEMMA MoveListType ==
  ASSUME NEW n \in Nat \ {0}, NEW t \in Tables(n), NEW l \in Seq(Entries)
  PROVE  MoveList(t, l) \in Tables(n)
<1> DEFINE m == Len(l)
<1>1. m \in Nat /\ \A i \in 1..m : l[i] \in Entries
  OBVIOUS
<1>2. PICK W : /\ W[0] = t
               /\ \A i \in 1..m : W[i] = PutFirst(W[i - 1], l[i])
               /\ MoveList(t, l) = W[m]
  BY MoveListWalk
<1> HIDE DEF m
<1> DEFINE S == {i \in Nat : i <= m => W[i] \in Tables(n)}
<1>3. 0 \in S
  BY <1>2
<1>4. ASSUME NEW i \in Nat, i \in S PROVE i + 1 \in S
  <2> SUFFICES ASSUME i + 1 <= m PROVE W[i + 1] \in Tables(n)
    OBVIOUS
  <2>1. i + 1 \in 1..m /\ (i + 1) - 1 = i /\ W[i] \in Tables(n)
    BY <1>1, <1>4
  <2> HIDE DEF S
  <2>2. W[i + 1] = PutFirst(W[i], l[i + 1])
    BY <1>2, <2>1
  <2>3. PutFirst(W[i], l[i + 1]) \in Tables(n)
    BY <1>1, <2>1, PutFirstType
  <2> QED
    BY <2>2, <2>3
<1> HIDE DEF S
<1>5. Nat \subseteq S
  BY <1>3, <1>4, InductionInSets
<1> QED
  BY <1>1, <1>2, <1>5 DEF S

\* A list that moves into a table with none of its keys.
LEMMA MoveListFacts ==
  ASSUME NEW t, NEW n, NEW M, HoldsMap(t, n, M), NEW l, NEW Q, HoldsList(l, Q),
         \A p \in M, q \in Q : p[1] # q[1]
  PROVE  HoldsMap(MoveList(t, l), n, M \cup Q)
<1> DEFINE m == Len(l)
           pair(j) == <<l[j].k, l[j].v>>
           N(i) == M \cup {pair(j) : j \in 1..i}
           Holds(W, i) == HoldsMap(W[i], n, N(i))
<1>1. /\ m \in Nat /\ l \in Seq(Entries) /\ \A i \in 1..m : l[i] \in Entries
      /\ \A j \in 1..m : l[j].h = Hash[l[j].k] /\ pair(j) \in Q
      /\ \A i, j \in 1..m : l[i].k = l[j].k => i = j
      /\ \A q \in Q : \E j \in 1..m : q = pair(j)
  BY DEF HoldsList
<1>2. n \in Nat \ {0} /\ t \in Tables(n)
  BY DEF HoldsMap, Tables
<1>3. PICK W : /\ W[0] = t
               /\ \A i \in 1..m : W[i] = PutFirst(W[i - 1], l[i])
               /\ MoveList(t, l) = W[m]
  BY <1>1, <1>2, MoveListWalk
<1> HIDE DEF m
<1> DEFINE S == {i \in Nat : i <= m => Holds(W, i)}
<1>4. 0 \in S
  <2>1. N(0) = M
    <3>1. 1..0 = {}
      OBVIOUS
    <3> QED
      BY <3>1
  <2> HIDE DEF N
  <2> QED
    BY <1>3, <2>1
<1>5. ASSUME NEW i \in Nat, i \in S PROVE i + 1 \in S
  <2> SUFFICES ASSUME i + 1 <= m PROVE Holds(W, i + 1)
    OBVIOUS
  <2> DEFINE e == l[i + 1]
  <2>0. i <= m
    BY <1>1
  <2>1. i + 1 \in 1..m /\ (i + 1) - 1 = i /\ 1..i + 1 = (1..i) \cup {i + 1}
        /\ \A j \in 1..i : j \in 1..m /\ j # i + 1
    BY <1>1
  <2>2. HoldsMap(W[i], n, N(i))
    BY <1>5, <2>0
  <2> HIDE DEF S
  <2>3. W[i + 1] = PutFirst(W[i], e)
    BY <1>3, <2>1
  <2>4. e \in Entries /\ e.h = Hash[e.k] /\ pair(i + 1) = <<e.k, e.v>> /\ pair(i + 1) \in Q
    BY <1>1, <2>1
  <2>5. \A p \in N(i) : p[1] # e.k
    <3> TAKE p \in N(i)
    <3>1. CASE p \in M
      <4>1. pair(i + 1)[1] = e.k
        OBVIOUS
      <4> HIDE DEF pair
      <4> QED
        BY <2>4, <3>1, <4>1
    <3>2. CASE p \in {pair(j) : j \in 1..i}
      <4>1. PICK j \in 1..i : p = pair(j)
        BY <3>2
      <4>2. l[j].k # l[i + 1].k
        BY <1>1, <2>1
      <4> QED
        BY <4>1, <4>2
    <3> QED
      BY <3>1, <3>2
  <2>6. N(i + 1) = N(i) \cup {<<e.k, e.v>>}
    BY <2>1
  <2> HIDE DEF N, e
  <2>7. HoldsMap(PutFirst(W[i], e), n, N(i) \cup {<<e.k, e.v>>})
    BY <2>2, <2>4, <2>5, PutFirstFacts
  <2> QED
    BY <2>3, <2>6, <2>7
<1> HIDE DEF S
<1>6. Nat \subseteq S
  BY <1>4, <1>5, InductionInSets
<1>7. HoldsMap(W[m], n, N(m))
  <2> HIDE DEF N
  <2>1. m \in S /\ m <= m
    BY <1>1, <1>6
  <2> QED
    BY <2>1 DEF S
<1>8. N(m) = M \cup Q
  BY <1>1
<1> HIDE DEF N
<1> QED
  BY <1>3, <1>7, <1>8

\* The states of the new table while the lists of the old one move into it.
LEMMA RehashWalk ==
  ASSUME NEW n \in Nat \ {0}, table \in Seq(Seq(Entries))
  PROVE  \E W : /\ W[0] = [i \in 1..n |-> <<>>]
                /\ \A i \in 1..Len(table) : W[i] = MoveList(W[i - 1], table[i])
                /\ Rehashed(n) = W[Len(table)]
<1> DEFINE m == Len(table)
           t == [i \in 1..n |-> <<>>]
           D == SUBSET (1..m)
           F == [x \in Tables(n) \X (1..m) |-> MoveList(x[1], table[x[2]])]
<1>1. m \in Nat /\ DOMAIN table = 1..m /\ \A i \in 1..m : table[i] \in Seq(Entries)
  OBVIOUS
<1>0. t \in Tables(n)
  BY EmptyTable DEF HoldsMap, Tables
<1> HIDE DEF m, t
<1>2. F \in [Tables(n) \X (1..m) -> Tables(n)]
  <2>1. ASSUME NEW x \in Tables(n) \X (1..m) PROVE MoveList(x[1], table[x[2]]) \in Tables(n)
    BY <1>1, MoveListType
  <2> QED
    BY <2>1
<1>3. \A u \in Tables(n), i \in 1..m : F[<<u, i>>] = MoveList(u, table[i])
  OBVIOUS
<1> HIDE DEF F
<1>4. PICK V \in [D -> Tables(n)] : \A s \in D :
        V[s] = IF s = {} THEN t ELSE F[<<V[s \ {Max(s)}], Max(s)>>]
  <2> DEFINE St == Tables(n)
  <2>1. t \in St /\ F \in [St \X (1..m) -> St]
    BY <1>0, <1>2
  <2> HIDE DEF St
  <2>2. \E V \in [SUBSET (1..m) -> St] : FoldOf(V, F, t, m)
    BY ONLY <1>1, <2>1, FoldExists
  <2> QED
    BY <2>2 DEF St, FoldOf
<1>5. ASSUME NEW s \in D, s # {} PROVE Max(s) \in 1..m /\ s \ {Max(s)} \in D
  BY <1>1, <1>5, LargestIndex
<1>6. V = [s \in D |-> IF s = {} THEN t ELSE MoveList(V[s \ {Max(s)}], table[Max(s)])]
  <2>1. ASSUME NEW s \in D
        PROVE  V[s] = IF s = {} THEN t ELSE MoveList(V[s \ {Max(s)}], table[Max(s)])
    <3>1. CASE s # {}
      <4>1. Max(s) \in 1..m /\ V[s \ {Max(s)}] \in Tables(n)
        BY <1>5, <3>1
      <4> QED
        BY <1>3, <1>4, <3>1, <4>1
    <3> QED
      BY <1>4, <3>1
  <2> HIDE DEF D
  <2> QED
    BY <2>1
<1> DEFINE U == CHOOSE U : U = [s \in D |-> IF s = {} THEN t ELSE MoveList(U[s \ {Max(s)}], table[Max(s)])]
<1>7. U = [s \in D |-> IF s = {} THEN t ELSE MoveList(U[s \ {Max(s)}], table[Max(s)])]
  BY <1>6
<1>8. Rehashed(n) = U[1..m]
  BY <1>1 DEF Rehashed, FoldLeft, MapThenFoldSet, t
<1> HIDE DEF U
<1> DEFINE W == [i \in 0..m |-> U[1..i]]
<1>9. W[0] = t
  BY <1>1, <1>7, IntervalSteps
<1>10. ASSUME NEW i \in 1..m PROVE W[i] = MoveList(W[i - 1], table[i])
  <2>0. i \in 0..m /\ i - 1 \in 0..m
    BY <1>1
  <2>1. 1..i \in D /\ 1..i # {} /\ Max(1..i) = i /\ (1..i) \ {i} = 1..i - 1
    BY <1>1, <2>0, IntervalSteps
  <2> DEFINE s == 1..i
  <2>2. U[s] = MoveList(U[s \ {Max(s)}], table[Max(s)])
    BY <1>7, <2>1
  <2> QED
    BY <2>0, <2>1, <2>2
<1>11. W[m] = U[1..m]
  BY <1>1
<1> HIDE DEF W
<1> QED
  BY <1>8, <1>9, <1>10, <1>11 DEF m, t

\* An expansion keeps the map.
LEMMA RehashedFacts ==
  ASSUME NEW n \in Nat \ {0}, NEW M, HoldsMap(table, Len(table), M)
  PROVE  HoldsMap(Rehashed(n), n, M)
<1> DEFINE m == Len(table)
           N(i) == {p \in M : Bucket(m, p[1]) \in 1..i}
           Holds(W, i) == HoldsMap(W[i], n, N(i))
<1>1. /\ m \in Nat \ {0} /\ table \in Seq(Seq(Entries)) /\ M \in SUBSET Pairs
      /\ \A i \in 1..m : HoldsList(table[i], {p \in M : Bucket(m, p[1]) = i})
  BY DEF HoldsMap
<1>2. PICK W : /\ W[0] = [i \in 1..n |-> <<>>]
               /\ \A i \in 1..m : W[i] = MoveList(W[i - 1], table[i])
               /\ Rehashed(n) = W[m]
  BY <1>1, RehashWalk
<1> HIDE DEF m
<1>3. \A p \in M : Bucket(m, p[1]) \in 1..m
  <2> TAKE p \in M
  <2>1. p[1] \in Keys
    BY <1>1 DEF Pairs
  <2> QED
    BY <1>1, <2>1, BucketFacts
<1> DEFINE S == {i \in Nat : i <= m => Holds(W, i)}
<1>4. 0 \in S
  <2>1. N(0) = {}
    OBVIOUS
  <2> HIDE DEF N
  <2> QED
    BY <1>2, <2>1, EmptyTable
<1>5. ASSUME NEW i \in Nat, i \in S PROVE i + 1 \in S
  <2> SUFFICES ASSUME i + 1 <= m PROVE Holds(W, i + 1)
    OBVIOUS
  <2> DEFINE l == table[i + 1]
             Q == {p \in M : Bucket(m, p[1]) = i + 1}
  <2>0. i <= m
    BY <1>1
  <2>1. i + 1 \in 1..m /\ (i + 1) - 1 = i /\ 1..i + 1 = (1..i) \cup {i + 1} /\ i + 1 \notin 1..i
    BY <1>1
  <2>2. HoldsMap(W[i], n, N(i))
    BY <1>5, <2>0
  <2> HIDE DEF S
  <2>3. W[i + 1] = MoveList(W[i], l)
    BY <1>2, <2>1
  <2>4. HoldsList(l, Q)
    BY <1>1, <2>1
  <2>5. \A p \in N(i), q \in Q : p[1] # q[1]
    BY <2>1
  <2>6. N(i + 1) = N(i) \cup Q
    BY <2>1
  <2> HIDE DEF N, l, Q
  <2>7. HoldsMap(MoveList(W[i], l), n, N(i) \cup Q)
    BY <2>2, <2>4, <2>5, MoveListFacts
  <2> QED
    BY <2>3, <2>6, <2>7
<1> HIDE DEF S
<1>6. Nat \subseteq S
  BY <1>4, <1>5, InductionInSets
<1>7. HoldsMap(W[m], n, N(m))
  <2> HIDE DEF N
  <2>1. m \in S /\ m <= m
    BY <1>1, <1>6
  <2> QED
    BY <2>1 DEF S
<1>8. N(m) = M
  BY <1>3
<1> HIDE DEF N
<1> QED
  BY <1>2, <1>7, <1>8

-----------------------------------------------------------------------------
(* The hash table: what a search finds *)

\* Where a key is in the table.
LEMMA FoundFacts ==
  ASSUME NEW M, HoldsMap(table, Len(table), M), NEW k \in Keys
  PROVE  LET l == table[Bucket(Len(table), k)] IN
         \/ Found(k) = {} /\ \A p \in M : p[1] # k
         \/ \E j \in 1..Len(l) : /\ Found(k) = {j} /\ Min(Found(k)) = j
                                 /\ l[j].k = k /\ <<k, l[j].v>> \in M
<1> DEFINE n == Len(table)
           i == Bucket(n, k)
           l == table[i]
           Q == {p \in M : Bucket(n, p[1]) = i}
<1>1. n \in Nat \ {0}
  BY DEF HoldsMap
<1>2. i \in 1..n
  BY <1>1, BucketFacts
<1>3. HoldsList(l, Q)
  BY <1>2 DEF HoldsMap
<1>4. Found(k) = {j \in DOMAIN l : l[j].h = Hash[k] /\ l[j].k = k}
  BY DEF Found, Bucket, tablelength
<1>5. (\A q \in Q : q[1] # k) => \A p \in M : p[1] # k
  OBVIOUS
<1>6. Q \subseteq M
  OBVIOUS
<1> HIDE DEF Q, i, n
<1> DEFINE F == {j \in DOMAIN l : l[j].h = Hash[k] /\ l[j].k = k}
<1>7. \/ F = {} /\ \A q \in Q : q[1] # k
      \/ \E j \in 1..Len(l) : F = {j} /\ Min(F) = j /\ l[j].k = k /\ <<k, l[j].v>> \in Q
  BY <1>3, FoundInList
<1>8. Found(k) = F
  BY <1>4
<1> HIDE DEF F, l
<1> QED
  BY <1>5, <1>6, <1>7, <1>8 DEF l, i, n

\* A key has one value.
LEMMA OneValue ==
  ASSUME NEW t, NEW n, NEW M, HoldsMap(t, n, M), NEW p \in M, NEW q \in M, p[1] = q[1]
  PROVE  p = q
<1> DEFINE i == Bucket(n, p[1])
           l == t[i]
           Q == {r \in M : Bucket(n, r[1]) = i}
<1>1. n \in Nat \ {0} /\ p[1] \in Keys
  BY DEF HoldsMap, Pairs
<1>2. i \in 1..n
  BY <1>1, BucketFacts
<1>3. HoldsList(l, Q)
  BY <1>2 DEF HoldsMap
<1>4. p \in Q /\ q \in Q
  OBVIOUS
<1> HIDE DEF Q, l, i
<1>5. PICK j \in 1..Len(l) : p = <<l[j].k, l[j].v>>
  BY <1>3, <1>4 DEF HoldsList
<1>6. PICK m \in 1..Len(l) : q = <<l[m].k, l[m].v>>
  BY <1>3, <1>4 DEF HoldsList
<1>7. l[j].k = l[m].k
  BY <1>5, <1>6
<1>8. j = m
  BY <1>3, <1>7 DEF HoldsList
<1> QED
  BY <1>5, <1>6, <1>8

LEMMA SearchFacts ==
  ASSUME HoldsMap(table, Len(table), inserted), NEW k \in Keys
  PROVE  hashtable_search(k) = {p[2] : p \in {q \in inserted : q[1] = k}}
<1> DEFINE l == table[Bucket(Len(table), k)]
           P == {q \in inserted : q[1] = k}
<1>1. hashtable_search(k) = IF Found(k) = {} THEN {} ELSE {l[Min(Found(k))].v}
  BY DEF hashtable_search, Bucket, tablelength
<1>2. \/ Found(k) = {} /\ \A p \in inserted : p[1] # k
      \/ \E j \in 1..Len(l) : /\ Found(k) = {j} /\ Min(Found(k)) = j
                              /\ l[j].k = k /\ <<k, l[j].v>> \in inserted
  BY FoundFacts
<1> HIDE DEF l
<1>3. CASE Found(k) = {} /\ \A p \in inserted : p[1] # k
  <2>1. P = {}
    BY <1>3
  <2> QED
    BY <1>1, <1>3, <2>1
<1>4. ASSUME NEW j \in 1..Len(l), Found(k) = {j}, Min(Found(k)) = j, <<k, l[j].v>> \in inserted
      PROVE  hashtable_search(k) = {p[2] : p \in P}
  <2> DEFINE r == <<k, l[j].v>>
  <2>1. hashtable_search(k) = {l[j].v}
    BY <1>1, <1>4
  <2>2. r \in inserted /\ r[1] = k /\ r[2] = l[j].v
    BY <1>4
  <2> HIDE DEF r
  <2>3. \A q \in inserted : q[1] = k => q = r
    BY <2>2, OneValue
  <2>4. P = {r}
    BY <2>2, <2>3
  <2> HIDE DEF P
  <2> QED
    BY <2>1, <2>2, <2>4
<1> QED
  BY <1>2, <1>3, <1>4

-----------------------------------------------------------------------------
(* The hash table: where an iterator is *)

\* The keys behind place a of list i, in table t.
Behind(t, i, a) ==
  {k \in Keys : \E b \in i..Len(t) : \E j \in DOMAIN t[b] : t[b][j].k = k /\ (b = i => j > a)}

AtEntry(t, pos) ==
  /\ pos = [index |-> pos.index, at |-> pos.at]
  /\ pos.index \in 1..Len(t) /\ pos.at \in 1..Len(t[pos.index])

\* The iterator comes to pos, with the keys of A ahead of it until then.
Arrives(A, t, pos) ==
  \/ pos = NoItr /\ A = {}
  \/ /\ AtEntry(t, pos)
     /\ LET k == t[pos.index][pos.at].k
        IN  k \in Keys /\ k \notin Ahead(t, pos) /\ A = Ahead(t, pos) \cup {k}

LEMMA AheadIs ==
  /\ \A t : Ahead(t, NoItr) = {}
  /\ \A t, pos : AtEntry(t, pos) => pos # NoItr /\ Ahead(t, pos) = Behind(t, pos.index, pos.at)
<1>1. NoItr.index = 0
  BY DEF NoItr
<1>2. ASSUME NEW t, NEW pos, AtEntry(t, pos) PROVE pos # NoItr
  BY <1>1, <1>2 DEF AtEntry
<1> QED
  BY <1>2 DEF Ahead, Behind

\* Every key is in its list, once.
InTheirLists(t, n) ==
  /\ n \in Nat \ {0} /\ Len(t) = n /\ t \in Seq(Seq(Entries))
  /\ \A i \in 1..n : t[i] \in Seq(Entries) /\ DOMAIN t[i] = 1..Len(t[i]) /\ Len(t[i]) \in Nat
  /\ \A i \in 1..n : \A j \in 1..Len(t[i]) : t[i][j].k \in Keys /\ Bucket(n, t[i][j].k) = i
  /\ \A i \in 1..n : \A j, m \in 1..Len(t[i]) : t[i][j].k = t[i][m].k => j = m

LEMMA TableFacts ==
  ASSUME NEW t, NEW n, NEW M, HoldsMap(t, n, M)
  PROVE  /\ InTheirLists(t, n)
         /\ \A i \in 1..n : \A j \in 1..Len(t[i]) : <<t[i][j].k, t[i][j].v>> \in M
<1>1. n \in Nat \ {0} /\ Len(t) = n /\ t \in Seq(Seq(Entries)) /\ M \in SUBSET Pairs
  BY DEF HoldsMap
<1>2. ASSUME NEW i \in 1..n
      PROVE  /\ t[i] \in Seq(Entries) /\ DOMAIN t[i] = 1..Len(t[i]) /\ Len(t[i]) \in Nat
             /\ \A j \in 1..Len(t[i]) : t[i][j] \in Entries
             /\ HoldsList(t[i], {p \in M : Bucket(n, p[1]) = i})
  <2>1. HoldsList(t[i], {p \in M : Bucket(n, p[1]) = i})
    BY DEF HoldsMap
  <2>2. t[i] \in Seq(Entries)
    BY <2>1 DEF HoldsList
  <2> QED
    BY <2>1, <2>2
<1>3. ASSUME NEW i \in 1..n, NEW j \in 1..Len(t[i])
      PROVE  t[i][j].k \in Keys /\ <<t[i][j].k, t[i][j].v>> \in M /\ Bucket(n, t[i][j].k) = i
  <2> DEFINE p == <<t[i][j].k, t[i][j].v>>
  <2>1. p \in {q \in M : Bucket(n, q[1]) = i}
    BY <1>2 DEF HoldsList
  <2>2. p \in M /\ Bucket(n, p[1]) = i /\ p[1] = t[i][j].k
    BY <2>1
  <2>3. t[i][j].k \in Keys
    BY <1>2 DEF Entries
  <2> QED
    BY <2>2, <2>3
<1>4. ASSUME NEW i \in 1..n, NEW j \in 1..Len(t[i]), NEW m \in 1..Len(t[i]), t[i][j].k = t[i][m].k
      PROVE  j = m
  BY <1>2, <1>4 DEF HoldsList
<1>5. InTheirLists(t, n)
  BY <1>1, <1>2, <1>3, <1>4 DEF InTheirLists
<1> QED
  BY <1>3, <1>5

\* The keys behind a place are the next one in its list and those behind it.
LEMMA NextInList ==
  ASSUME NEW t, NEW n, InTheirLists(t, n), NEW i \in 1..n, NEW a \in 0..Len(t[i]) - 1
  PROVE  LET k == t[i][a + 1].k IN
         k \in Keys /\ k \notin Behind(t, i, a + 1) /\ Behind(t, i, a) = Behind(t, i, a + 1) \cup {k}
<1> DEFINE k == t[i][a + 1].k
<1>1. /\ n \in Nat \ {0} /\ Len(t) = n
      /\ \A b \in 1..n : DOMAIN t[b] = 1..Len(t[b]) /\ Len(t[b]) \in Nat
      /\ \A b \in 1..n : \A j \in 1..Len(t[b]) : t[b][j].k \in Keys /\ Bucket(n, t[b][j].k) = b
      /\ \A b \in 1..n : \A j, m \in 1..Len(t[b]) : t[b][j].k = t[b][m].k => j = m
  BY DEF InTheirLists
<1>2. a + 1 \in 1..Len(t[i]) /\ \A b \in i..n : b \in 1..n
  BY <1>1
<1>3. k \in Keys /\ Bucket(n, k) = i
  BY <1>1, <1>2
<1>4. ASSUME NEW b \in i..n, NEW j \in DOMAIN t[b], t[b][j].k = k, b = i => j > a + 1 PROVE FALSE
  <2>1. b \in 1..n /\ j \in 1..Len(t[b])
    BY <1>1, <1>2
  <2>2. b = i
    BY <1>1, <1>3, <1>4, <2>1
  <2>3. j = a + 1
    BY <1>1, <1>2, <1>4, <2>1, <2>2
  <2> QED
    BY <1>4, <2>2, <2>3
<1>5. k \notin Behind(t, i, a + 1)
  BY <1>1, <1>4 DEF Behind
<1>6. ASSUME NEW x \in Behind(t, i, a) PROVE x \in Behind(t, i, a + 1) \cup {k}
  <2>0. PICK b \in i..n : \E j \in DOMAIN t[b] : t[b][j].k = x /\ (b = i => j > a)
    BY <1>1 DEF Behind
  <2>1. PICK j \in DOMAIN t[b] : t[b][j].k = x /\ (b = i => j > a)
    BY <2>0
  <2>2. x \in Keys
    BY DEF Behind
  <2>3. CASE b = i /\ j = a + 1
    BY <2>1, <2>3
  <2>4. CASE ~(b = i /\ j = a + 1)
    <3>1. b = i => j > a + 1
      BY <1>1, <1>2, <2>1, <2>4
    <3> QED
      BY <1>1, <2>1, <2>2, <3>1 DEF Behind
  <2> QED
    BY <2>3, <2>4
<1>7. ASSUME NEW x \in Behind(t, i, a + 1) PROVE x \in Behind(t, i, a)
  <2>0. PICK b \in i..n : \E j \in DOMAIN t[b] : t[b][j].k = x /\ (b = i => j > a + 1)
    BY <1>1 DEF Behind
  <2>1. PICK j \in DOMAIN t[b] : t[b][j].k = x /\ (b = i => j > a + 1)
    BY <2>0
  <2>2. b = i => j > a
    BY <1>1, <1>2, <2>1
  <2>3. x \in Keys
    BY DEF Behind
  <2> QED
    BY <1>1, <2>1, <2>2, <2>3 DEF Behind
<1>8. k \in Behind(t, i, a)
  <2>1. i \in i..n /\ a + 1 \in DOMAIN t[i] /\ a + 1 > a
    BY <1>1, <1>2
  <2> QED
    BY <1>1, <1>3, <2>1 DEF Behind
<1> HIDE DEF k
<1>9. k \in Keys /\ k \notin Behind(t, i, a + 1) /\ Behind(t, i, a) = Behind(t, i, a + 1) \cup {k}
  BY <1>3, <1>5, <1>6, <1>7, <1>8
<1> QED
  BY <1>9 DEF k

\* Behind the end of a list are the lists after it.
LEMMA EndOfList ==
  ASSUME NEW t, NEW n, InTheirLists(t, n), NEW i \in 1..n, NEW a, a = Len(t[i])
  PROVE  Behind(t, i, a) = Behind(t, i + 1, 0)
<1>1. Len(t) = n /\ n \in Nat /\ \A b \in 1..n : DOMAIN t[b] = 1..Len(t[b]) /\ Len(t[b]) \in Nat
  BY DEF InTheirLists
<1>2. ASSUME NEW x \in Behind(t, i, a) PROVE x \in Behind(t, i + 1, 0)
  <2>0. PICK b \in i..n : \E j \in DOMAIN t[b] : t[b][j].k = x /\ (b = i => j > a)
    BY <1>1 DEF Behind
  <2>1. PICK j \in DOMAIN t[b] : t[b][j].k = x /\ (b = i => j > a)
    BY <2>0
  <2>2. b \in 1..n /\ j \in 1..Len(t[b])
    BY <1>1, <2>1
  <2>3. b # i
    BY <1>1, <2>1, <2>2
  <2>4. b \in i + 1..n /\ j > 0
    BY <1>1, <2>2, <2>3
  <2>5. x \in Keys
    BY DEF Behind
  <2> QED
    BY <1>1, <2>1, <2>4, <2>5 DEF Behind
<1>3. ASSUME NEW x \in Behind(t, i + 1, 0) PROVE x \in Behind(t, i, a)
  <2>0. PICK b \in i + 1..n : \E j \in DOMAIN t[b] : t[b][j].k = x
    BY <1>1 DEF Behind
  <2>1. PICK j \in DOMAIN t[b] : t[b][j].k = x
    BY <2>0
  <2>2. b \in i..n /\ b # i
    BY <1>1
  <2>3. x \in Keys
    BY DEF Behind
  <2> QED
    BY <1>1, <2>1, <2>2, <2>3 DEF Behind
<1> QED
  BY <1>2, <1>3

\* Over empty lists to the next entry, or to the end.
LEMMA NextBucketArrives ==
  ASSUME NEW t, NEW n, InTheirLists(t, n), NEW i \in 0..n
  PROVE  Arrives(Behind(t, i + 1, 0), t, NextBucket(t, i))
<1> DEFINE rest == {j \in i + 1..Len(t) : t[j] # <<>>}
           m == Min(rest)
           pos == [index |-> m, at |-> 1]
           A == Behind(t, i + 1, 0)
<1>1. /\ Len(t) = n /\ n \in Nat
      /\ \A b \in 1..n : t[b] \in Seq(Entries) /\ DOMAIN t[b] = 1..Len(t[b]) /\ Len(t[b]) \in Nat
  BY DEF InTheirLists
<1>2. ASSUME NEW x \in A
      PROVE  \E b \in i + 1..n : \E j \in DOMAIN t[b] : t[b][j].k = x /\ b \in rest /\ x \in Keys
  <2>0. PICK b \in i + 1..n : \E j \in DOMAIN t[b] : t[b][j].k = x
    BY <1>1 DEF Behind
  <2>1. PICK j \in DOMAIN t[b] : t[b][j].k = x
    BY <2>0
  <2>2. b \in 1..n
    BY <1>1
  <2>3. t[b] # <<>>
    BY <1>1, <2>1, <2>2
  <2>4. x \in Keys
    BY DEF Behind
  <2> QED
    BY <1>1, <2>1, <2>3, <2>4
<1>3. CASE rest = {}
  <2>1. A = {}
    BY <1>2, <1>3
  <2>2. NextBucket(t, i) = NoItr
    BY <1>3 DEF NextBucket
  <2> QED
    BY <2>1, <2>2 DEF Arrives
<1>4. CASE rest # {}
  <2>1. m \in rest /\ \A j \in rest : m <= j
    <3>1. rest \in SUBSET Nat
      BY <1>1
    <3> HIDE DEF rest
    <3> QED
      BY <1>4, <3>1, MinFacts
  <2>2. m \in 1..n /\ t[m] # <<>> /\ m \in i + 1..n
    BY <1>1, <2>1
  <2>3. NextBucket(t, i) = pos
    BY <1>4 DEF NextBucket
  <2> HIDE DEF m
  <2>4. 1 \in 1..Len(t[m]) /\ 0 \in 0..Len(t[m]) - 1
    BY <1>1, <2>2
  <2> DEFINE k == t[m][1].k
  <2>5. k \in Keys /\ k \notin Behind(t, m, 1) /\ Behind(t, m, 0) = Behind(t, m, 1) \cup {k}
    <3>1. 0 + 1 = 1
      OBVIOUS
    <3> QED
      BY <2>2, <2>4, <3>1, NextInList
  <2>6. Behind(t, m, 0) = A
    <3>1. ASSUME NEW x \in A PROVE x \in Behind(t, m, 0)
      <4>0. PICK b \in i + 1..n : \E j \in DOMAIN t[b] : t[b][j].k = x /\ b \in rest /\ x \in Keys
        BY <1>2
      <4>1. PICK j \in DOMAIN t[b] : t[b][j].k = x /\ b \in rest /\ x \in Keys
        BY <4>0
      <4>2. b \in m..n /\ b \in 1..n
        BY <1>1, <2>1, <2>2, <4>1
      <4>3. j > 0
        BY <1>1, <4>2
      <4> QED
        BY <1>1, <4>1, <4>2, <4>3 DEF Behind
    <3>2. ASSUME NEW x \in Behind(t, m, 0) PROVE x \in A
      <4>0. PICK b \in m..n : \E j \in DOMAIN t[b] : t[b][j].k = x /\ x \in Keys
        BY <1>1 DEF Behind
      <4>1. PICK j \in DOMAIN t[b] : t[b][j].k = x /\ x \in Keys
        BY <4>0
      <4>2. b \in i + 1..n /\ b \in 1..n
        BY <1>1, <2>2
      <4>3. j > 0
        BY <1>1, <4>2
      <4> QED
        BY <1>1, <4>1, <4>2, <4>3 DEF Behind
    <3> QED
      BY <3>1, <3>2
  <2>7. AtEntry(t, pos) /\ pos.index = m /\ pos.at = 1
    BY <1>1, <2>2, <2>4 DEF AtEntry
  <2>8. Ahead(t, pos) = Behind(t, m, 1)
    BY <2>7, AheadIs
  <2> HIDE DEF pos, A
  <2> QED
    BY <2>3, <2>5, <2>6, <2>7, <2>8 DEF Arrives, A
<1> QED
  BY <1>3, <1>4

-----------------------------------------------------------------------------
(* The hash table: the inductive invariant *)

StorageInv ==
  /\ inserted \in SUBSET Pairs /\ IsFiniteSet(inserted)
  /\ primeindex \in 1..Len(Primes)
  /\ ~wild => HoldsMap(table, Len(table), inserted) /\ entrycount = Cardinality(inserted)

\* What was met, each key once, and the keys of A are those of B.
Met(v, A, B) ==
  /\ \A i, j \in DOMAIN v : v[i] = v[j] => i = j
  /\ Range(v) \cap A = {} /\ Range(v) \cup A = B

IteratorInv ==
  /\ itr # NoItr => ~wild /\ AtEntry(table, itr)
  /\ visited \in Seq(Keys)
  /\ begun # {} => Met(visited, Ahead(table, itr), begun)

TableInv == StorageInv /\ IteratorInv

\* The table r is t without the entry at a of list i.
ListCut(r, t, i, a) == r = [t EXCEPT ![i] = RemoveAt(t[i], a)]

\* A table without one entry.
LEMMA DropEntry ==
  ASSUME NEW t, NEW n, NEW M, HoldsMap(t, n, M), NEW i \in 1..n, NEW j \in 1..Len(t[i]),
         NEW u, ListCut(u, t, i, j)
  PROVE  LET k == t[i][j].k
             N == {p \in M : p[1] # k}
         IN  /\ HoldsMap(u, n, N)
             /\ \E p \in M : N = M \ {p}
<1> DEFINE k == t[i][j].k
           N == {p \in M : p[1] # k}
           Q == {p \in M : Bucket(n, p[1]) = i}
           r == <<k, t[i][j].v>>
<1>1. HoldsList(t[i], Q) /\ M \in SUBSET Pairs
  BY DEF HoldsMap
<1>2. k \in Keys /\ Bucket(n, k) = i /\ r \in M
  BY TableFacts DEF InTheirLists
<1>3. HoldsList(RemoveAt(t[i], j), {q \in Q : q[1] # k})
  BY <1>1, DropList
<1>4. r[1] = k
  OBVIOUS
<1>5. {q \in Q : q[1] # k} = {p \in N : Bucket(n, p[1]) = i}
  OBVIOUS
<1>6. \A p \in Pairs : Bucket(n, p[1]) # i => (p \in M <=> p \in N)
  BY <1>2
<1>7. N \in SUBSET Pairs
  BY <1>1
<1> HIDE DEF k, r
<1>8. \A p \in M : p[1] = k => p = r
  BY <1>2, <1>4, OneValue
<1>9. N = M \ {r}
  BY <1>4, <1>8
<1> DEFINE m == RemoveAt(t[i], j)
<1>10. u = [t EXCEPT ![i] = m]
  BY DEF ListCut
<1>11. HoldsList(m, {p \in N : Bucket(n, p[1]) = i})
  BY <1>3, <1>5
<1> HIDE DEF N, m
<1>12. HoldsMap([t EXCEPT ![i] = m], n, N)
  BY <1>6, <1>7, <1>11, ChangeList
<1>13. \E p \in M : N = M \ {p}
  BY <1>2, <1>9
<1>14. HoldsMap(u, n, N)
  BY <1>10, <1>12
<1> QED
  BY <1>13, <1>14 DEF N, k

LEMMA AllBehind ==
  ASSUME NEW t, NEW n, NEW M, HoldsMap(t, n, M)
  PROVE  Behind(t, 1, 0) = {p[1] : p \in M}
<1>1. /\ n \in Nat \ {0} /\ Len(t) = n /\ M \in SUBSET Pairs
      /\ \A i \in 1..n : HoldsList(t[i], {p \in M : Bucket(n, p[1]) = i})
  BY DEF HoldsMap
<1>2. /\ \A i \in 1..n : DOMAIN t[i] = 1..Len(t[i])
      /\ \A i \in 1..n : \A j \in 1..Len(t[i]) : <<t[i][j].k, t[i][j].v>> \in M
  BY TableFacts DEF InTheirLists
<1>3. ASSUME NEW x \in Behind(t, 1, 0) PROVE \E p \in M : x = p[1]
  <2>1. PICK b \in 1..n : \E j \in DOMAIN t[b] : t[b][j].k = x
    BY <1>1 DEF Behind
  <2>2. PICK j \in 1..Len(t[b]) : t[b][j].k = x
    BY <1>2, <2>1
  <2>3. <<t[b][j].k, t[b][j].v>> \in M
    BY <1>2
  <2> QED
    BY <2>2, <2>3
<1>4. ASSUME NEW p \in M PROVE p[1] \in Behind(t, 1, 0)
  <2> DEFINE b == Bucket(n, p[1])
  <2>1. p[1] \in Keys /\ b \in 1..n
    <3>1. p[1] \in Keys
      BY <1>1 DEF Pairs
    <3> QED
      BY <1>1, <3>1, BucketFacts
  <2>2. p \in {q \in M : Bucket(n, q[1]) = b}
    OBVIOUS
  <2>3. HoldsList(t[b], {q \in M : Bucket(n, q[1]) = b})
    BY <1>1, <2>1
  <2> HIDE DEF b
  <2>4. PICK j \in 1..Len(t[b]) : p = <<t[b][j].k, t[b][j].v>>
    BY <2>2, <2>3 DEF HoldsList
  <2>5. p[1] = t[b][j].k
    BY <2>4
  <2>6. j \in DOMAIN t[b] /\ j > 0
    BY <1>2, <2>1
  <2> QED
    BY <1>1, <2>1, <2>5, <2>6 DEF Behind
<1> QED
  BY <1>3, <1>4

\* The iterator meets the key it comes to.
LEMMA KeepMet ==
  ASSUME visited \in Seq(Keys), NEW A, NEW t, NEW pos, Arrives(A, t, pos)
  PROVE  /\ Keep(pos, t) \in Seq(Keys)
         /\ \A B : Met(visited, A, B) => Met(Keep(pos, t), Ahead(t, pos), B)
<1>1. CASE pos = NoItr
  <2>1. Keep(pos, t) = visited /\ Ahead(t, pos) = {}
    BY <1>1, AheadIs DEF Keep
  <2>2. A = {}
    BY <1>1, AheadIs DEF Arrives
  <2> QED
    BY <2>1, <2>2
<1>2. CASE pos # NoItr
  <2> DEFINE k == t[pos.index][pos.at].k
             v == Append(visited, k)
  <2>1. k \in Keys /\ k \notin Ahead(t, pos) /\ A = Ahead(t, pos) \cup {k}
    BY <1>2 DEF Arrives
  <2>2. Keep(pos, t) = v
    BY <1>2 DEF Keep
  <2> HIDE DEF k
  <2>3. /\ v \in Seq(Keys) /\ Len(v) = Len(visited) + 1 /\ Len(visited) \in Nat
        /\ DOMAIN v = 1..Len(visited) + 1 /\ DOMAIN visited = 1..Len(visited)
        /\ v[Len(visited) + 1] = k /\ \A i \in 1..Len(visited) : v[i] = visited[i]
    BY <2>1
  <2> HIDE DEF v
  <2>4. Range(v) = Range(visited) \cup {k}
    <3>1. \A i \in DOMAIN v : i \in DOMAIN visited \/ i = Len(visited) + 1
      BY <2>3
    <3>2. \A i \in DOMAIN visited : i \in DOMAIN v /\ v[i] = visited[i]
      BY <2>3
    <3>3. Len(visited) + 1 \in DOMAIN v
      BY <2>3
    <3> QED
      BY <2>3, <3>1, <3>2, <3>3 DEF Range
  <2>5. ASSUME NEW B, Met(visited, A, B) PROVE Met(v, Ahead(t, pos), B)
    <3>1. Range(visited) \cap A = {} /\ Range(visited) \cup A = B
      BY <2>5 DEF Met
    <3>2. Range(v) \cap Ahead(t, pos) = {} /\ Range(v) \cup Ahead(t, pos) = B
      BY <2>1, <2>4, <3>1
    <3>3. \A i \in 1..Len(visited) : visited[i] # k
      <4>1. \A i \in 1..Len(visited) : visited[i] \in Range(visited)
        BY <2>3 DEF Range
      <4> QED
        BY <2>1, <3>1, <4>1
    <3>4. \A i, j \in DOMAIN visited : visited[i] = visited[j] => i = j
      BY <2>5 DEF Met
    <3>5. ASSUME NEW i \in DOMAIN v, NEW j \in DOMAIN v, v[i] = v[j] PROVE i = j
      <4>1. i = Len(visited) + 1 \/ i \in DOMAIN visited
        BY <2>3
      <4>2. j = Len(visited) + 1 \/ j \in DOMAIN visited
        BY <2>3
      <4> QED
        BY <2>3, <3>3, <3>4, <3>5, <4>1, <4>2
    <3> QED
      BY <3>2, <3>5 DEF Met
  <2> QED
    BY <2>2, <2>3, <2>5
<1> QED
  BY <1>1, <1>2

-----------------------------------------------------------------------------
(* The hash table: the steps keep the invariant *)

LEMMA TableStart ==
  ASSUME TableInit
  PROVE  TableInv
<1> DEFINE C == {i \in DOMAIN Primes : Primes[i] > 0} \cup {Len(Primes)}
           n == Primes[primeindex]
<1>1. /\ Primes \in Seq(Nat \ {0}) /\ Len(Primes) \in Nat \ {0} /\ DOMAIN Primes = 1..Len(Primes)
  BY TableAssumption
<1>2. Min(C) \in C
  <2>1. C \in SUBSET Nat /\ C # {}
    BY <1>1
  <2> HIDE DEF C
  <2> QED
    BY <2>1, MinFacts
<1>3. /\ primeindex = Min(C) /\ table = [i \in 1..n |-> <<>>] /\ entrycount = 0
      /\ itr = NoItr /\ visited = <<>> /\ begun = {} /\ inserted = {} /\ wild = FALSE
  BY DEF TableInit, create_hashtable
<1>4. primeindex \in 1..Len(Primes)
  BY <1>1, <1>2, <1>3
<1>5. n \in Nat \ {0}
  BY <1>1, <1>4
<1>6. HoldsMap([i \in 1..n |-> <<>>], n, {})
  BY <1>5, EmptyTable
<1> HIDE DEF n
<1>7. HoldsMap(table, Len(table), inserted)
  <2>1. Len(table) = n
    BY <1>3, <1>5
  <2> QED
    BY <1>3, <1>6, <2>1
<1>8. IsFiniteSet(inserted) /\ entrycount = Cardinality(inserted)
  BY <1>3, FS_EmptySet
<1>9. StorageInv
  BY <1>3, <1>4, <1>7, <1>8 DEF StorageInv
<1>10. IteratorInv
  <2>1. visited \in Seq(Keys)
    BY <1>3
  <2> QED
    BY <1>3, <2>1 DEF IteratorInv
<1> QED
  BY <1>9, <1>10 DEF TableInv

\* What an insertion may find when it has made room.
LEMMA ExpandFacts ==
  ASSUME StorageInv, ~wild, NEW x \in IF entrycount + 1 > loadlimit THEN hashtable_expand ELSE {NoExpansion}
  PROVE  /\ x.p \in 1..Len(Primes) /\ x.broken \in BOOLEAN
         /\ ~x.broken => HoldsMap(x.t, Len(x.t), inserted)
<1>1. primeindex \in 1..Len(Primes) /\ HoldsMap(table, Len(table), inserted)
  BY DEF StorageInv
<1>2. Len(Primes) \in Nat
  BY TableAssumption
<1>3. CASE x = NoExpansion
  BY <1>1, <1>3 DEF NoExpansion
<1>4. CASE x # NoExpansion
  <2> DEFINE p == primeindex + 1
             grown == [t |-> Rehashed(Primes[p]), p |-> p, l |-> LoadLimit(Primes[p]), broken |-> FALSE]
             wreck == [t |-> table, p |-> p, l |-> LoadLimit(Primes[p]), broken |-> TRUE]
  <2>1. x \in hashtable_expand
    BY <1>4
  <2>2. primeindex # Len(Primes) /\ (x = grown \/ x = wreck)
    BY <1>4, <2>1 DEF hashtable_expand
  <2>3. p \in 1..Len(Primes)
    BY <1>1, <1>2, <2>2
  <2>4. Primes[p] \in Nat \ {0}
    BY <2>3, TableAssumption
  <2> HIDE DEF p
  <2>5. HoldsMap(Rehashed(Primes[p]), Primes[p], inserted)
    BY <1>1, <2>4, RehashedFacts
  <2>6. Len(Rehashed(Primes[p])) = Primes[p]
    BY <2>5 DEF HoldsMap
  <2>7. CASE x = grown
    <3>1. x.p = p /\ x.broken = FALSE /\ x.t = Rehashed(Primes[p])
      BY <2>7
    <3> QED
      BY <2>3, <2>5, <2>6, <3>1
  <2>8. CASE x = wreck
    <3>1. x.p = p /\ x.broken = TRUE
      BY <2>8
    <3> QED
      BY <2>3, <3>1
  <2> QED
    BY <2>2, <2>7, <2>8
<1> QED
  BY <1>3, <1>4

\* A step that leaves an iteration that has ended as it is.
LEMMA IdleIterator ==
  ASSUME IteratorInv, itr = NoItr, itr' = NoItr, UNCHANGED <<visited, begun>>
  PROVE  IteratorInv'
<1>1. Ahead(table, itr) = {} /\ Ahead(table', itr') = {}
  BY AheadIs
<1> HIDE DEF NoItr
<1>2. Ahead(table, itr)' = {}
  BY <1>1
<1>3. visited' \in Seq(Keys)
  BY DEF IteratorInv
<1>4. begun # {} => Met(visited, {}, begun)
  BY <1>1 DEF IteratorInv
<1>5. Met(visited, {}, begun)' <=> Met(visited, {}, begun)
  BY DEF Met
<1> QED
  BY <1>2, <1>3, <1>4, <1>5 DEF IteratorInv

LEMMA InsertKeeps ==
  ASSUME TableInv, NEW k \in Keys, NEW v \in Values, hashtable_search(k) = {}, hashtable_insert(k, v)
  PROVE  TableInv'
<1>1. StorageInv /\ IteratorInv
  BY DEF TableInv
<1>2. itr = NoItr /\ ~wild /\ UNCHANGED <<itr, visited, begun>>
  BY DEF hashtable_insert
<1>3. PICK x \in IF entrycount + 1 > loadlimit THEN hashtable_expand ELSE {NoExpansion} :
        /\ primeindex' = x.p /\ wild' = x.broken
        /\ \/ /\ table' = PutFirst(x.t, Entry(k, v)) /\ entrycount' = entrycount + 1
              /\ inserted' = inserted \cup {<<k, v>>}
           \/ table' = x.t /\ UNCHANGED <<entrycount, inserted>>
  BY DEF hashtable_insert
<1>4. /\ x.p \in 1..Len(Primes) /\ x.broken \in BOOLEAN
      /\ ~x.broken => HoldsMap(x.t, Len(x.t), inserted)
  BY <1>1, <1>2, ExpandFacts
<1>5. /\ HoldsMap(table, Len(table), inserted) /\ entrycount = Cardinality(inserted)
      /\ inserted \in SUBSET Pairs /\ IsFiniteSet(inserted)
  BY <1>1, <1>2 DEF StorageInv
<1>6. \A p \in inserted : p[1] # k
  <2>1. hashtable_search(k) = {p[2] : p \in {q \in inserted : q[1] = k}}
    BY <1>5, SearchFacts
  <2> HIDE DEF hashtable_search
  <2> QED
    BY <2>1
<1> DEFINE e == Entry(k, v)
           put == <<k, v>>
<1>7. e \in Entries /\ e.h = Hash[e.k] /\ <<e.k, e.v>> = put /\ e.k = k
  BY EntryFacts
<1>8. put \in Pairs /\ put \notin inserted
  <2>1. put[1] = k
    OBVIOUS
  <2> QED
    BY <1>6, <2>1 DEF Pairs
<1> HIDE DEF e, put
<1>9. StorageInv'
  <2>1. CASE table' = PutFirst(x.t, e) /\ entrycount' = entrycount + 1 /\ inserted' = inserted \cup {put}
    <3>1. inserted' \in SUBSET Pairs
      BY <1>5, <1>8, <2>1
    <3>2. IsFiniteSet(inserted') /\ Cardinality(inserted') = entrycount'
      BY <1>5, <1>8, <2>1, FS_AddElement
    <3>3. ASSUME ~x.broken PROVE HoldsMap(table', Len(table'), inserted')
      <4> DEFINE n == Len(x.t)
      <4>1. HoldsMap(x.t, n, inserted)
        BY <1>4, <3>3
      <4>2. \A p \in inserted : p[1] # e.k
        BY <1>6, <1>7
      <4>3. HoldsMap(PutFirst(x.t, e), n, inserted \cup {<<e.k, e.v>>})
        BY <1>7, <4>1, <4>2, PutFirstFacts
      <4> HIDE DEF n
      <4>4. HoldsMap(table', n, inserted')
        BY <1>7, <2>1, <4>3
      <4>5. Len(table') = n
        BY <4>4 DEF HoldsMap
      <4> QED
        BY <4>4, <4>5
    <3> QED
      BY <1>3, <1>4, <3>1, <3>2, <3>3 DEF StorageInv
  <2>2. CASE table' = x.t /\ UNCHANGED <<entrycount, inserted>>
    BY <1>3, <1>4, <1>5, <2>2 DEF StorageInv
  <2> QED
    BY <1>3, <2>1, <2>2 DEF e, put
<1>10. IteratorInv'
  BY <1>1, <1>2, IdleIterator
<1> QED
  BY <1>9, <1>10 DEF TableInv

\* The pairs of the client without those of a key that has one.
LEMMA OneLess ==
  ASSUME StorageInv, ~wild, NEW i \in 1..Len(table), NEW j \in 1..Len(table[i]),
         table' = [table EXCEPT ![i] = RemoveAt(@, j)], entrycount' = entrycount - 1,
         inserted' = {p \in inserted : p[1] # table[i][j].k}, UNCHANGED <<primeindex, wild>>
  PROVE  StorageInv' /\ Len(table') = Len(table) /\ HoldsMap(table', Len(table), inserted')
<1> DEFINE n == Len(table)
           k == table[i][j].k
           N == {p \in inserted : p[1] # k}
<1>1. /\ HoldsMap(table, n, inserted) /\ entrycount = Cardinality(inserted)
      /\ inserted \in SUBSET Pairs /\ IsFiniteSet(inserted) /\ primeindex \in 1..Len(Primes)
  BY DEF StorageInv
<1>2. HoldsMap(table', n, N) /\ \E p \in inserted : N = inserted \ {p}
  <2>1. i \in 1..n /\ j \in 1..Len(table[i])
    OBVIOUS
  <2>2. ListCut(table', table, i, j)
    BY DEF ListCut
  <2> HIDE DEF n
  <2> QED
    BY <1>1, <2>1, <2>2, DropEntry
<1>3. HoldsMap(table', n, N) /\ inserted' = N
  BY <1>2
<1> HIDE DEF N
<1>4. PICK p \in inserted : N = inserted \ {p}
  BY <1>2
<1>5. IsFiniteSet(N) /\ Cardinality(N) = Cardinality(inserted) - 1
  BY <1>1, <1>4, FS_RemoveElement
<1>6. Len(table') = n
  BY <1>3 DEF HoldsMap
<1>7. N \in SUBSET Pairs
  BY <1>1, <1>4
<1> HIDE DEF n
<1>8. StorageInv'
  BY <1>1, <1>3, <1>5, <1>6, <1>7 DEF StorageInv
<1> QED
  BY <1>3, <1>6, <1>8 DEF n

LEMMA RemoveKeeps ==
  ASSUME TableInv, NEW k \in Keys, hashtable_remove(k)
  PROVE  TableInv'
<1> DEFINE n == Len(table)
           i == Bucket(n, k)
           j == Min(Found(k))
<1>1. StorageInv /\ IteratorInv
  BY DEF TableInv
<1>2. /\ itr = NoItr /\ ~wild /\ UNCHANGED <<primeindex, itr, visited, begun, wild>>
      /\ \/ Found(k) = {} /\ UNCHANGED <<table, entrycount, inserted>>
         \/ /\ Found(k) # {}
            /\ table' = [table EXCEPT ![i] = RemoveAt(@, j)] /\ entrycount' = entrycount - 1
            /\ inserted' = {p \in inserted : p[1] # k}
  BY DEF hashtable_remove, Bucket, tablelength
<1>3. HoldsMap(table, n, inserted)
  BY <1>1, <1>2 DEF StorageInv
<1>4. i \in 1..n
  <2>1. n \in Nat \ {0}
    BY <1>3 DEF HoldsMap
  <2> HIDE DEF n
  <2> QED
    BY <2>1, BucketFacts
<1>5. \/ Found(k) = {}
      \/ \E a \in 1..Len(table[i]) : Min(Found(k)) = a /\ table[i][a].k = k
  BY <1>3, FoundFacts
<1>6. Found(k) = {} \/ (j \in 1..Len(table[i]) /\ table[i][j].k = k)
  BY <1>5
<1> HIDE DEF j, i
<1>7. StorageInv'
  <2>1. CASE UNCHANGED <<table, entrycount, inserted>>
    BY <1>1, <1>2, <2>1 DEF StorageInv
  <2>2. CASE /\ Found(k) # {}
             /\ table' = [table EXCEPT ![i] = RemoveAt(@, j)] /\ entrycount' = entrycount - 1
             /\ inserted' = {p \in inserted : p[1] # k}
    <3>1. j \in 1..Len(table[i]) /\ table[i][j].k = k
      BY <1>6, <2>2
    <3>2. inserted' = {p \in inserted : p[1] # table[i][j].k}
      BY <2>2, <3>1
    <3> QED
      BY <1>1, <1>2, <1>4, <2>2, <3>1, <3>2, OneLess, ZenonT(20)
  <2> QED
    BY <1>2, <2>1, <2>2
<1>8. IteratorInv'
  BY <1>1, <1>2, IdleIterator
<1> QED
  BY <1>7, <1>8 DEF TableInv

\* While the iterator is at an entry the table holds the client's map.
LEMMA Iterating ==
  ASSUME TableInv, itr # NoItr
  PROVE  /\ ~wild /\ AtEntry(table, itr) /\ HoldsMap(table, Len(table), inserted)
         /\ InTheirLists(table, Len(table)) /\ visited \in Seq(Keys)
         /\ Ahead(table, itr) = Behind(table, itr.index, itr.at)
         /\ begun # {} => Met(visited, Behind(table, itr.index, itr.at), begun)
<1>1. ~wild /\ AtEntry(table, itr) /\ HoldsMap(table, Len(table), inserted) /\ visited \in Seq(Keys)
  BY DEF TableInv, StorageInv, IteratorInv
<1>2. InTheirLists(table, Len(table))
  BY <1>1, TableFacts
<1>3. Ahead(table, itr) = Behind(table, itr.index, itr.at)
  BY <1>1, AheadIs
<1> QED
  BY <1>1, <1>2, <1>3 DEF TableInv, IteratorInv

LEMMA SearchKeeps ==
  ASSUME TableInv, NEW k \in Keys, hashtable_iterator_search(k)
  PROVE  TableInv'
<1> DEFINE n == Len(table)
           i == Bucket(n, k)
           j == Min(Found(k))
           pos == [index |-> i, at |-> j]
<1>1. /\ itr # NoItr /\ Found(k) # {} /\ itr' = pos /\ visited' = <<k>> /\ begun' = {}
      /\ UNCHANGED <<table, primeindex, entrycount, inserted, wild>>
  BY DEF hashtable_iterator_search, Bucket, tablelength
<1>2. ~wild /\ HoldsMap(table, n, inserted)
  BY <1>1, Iterating
<1>3. i \in 1..n
  <2>1. n \in Nat \ {0}
    BY <1>2 DEF HoldsMap
  <2> HIDE DEF n
  <2> QED
    BY <2>1, BucketFacts
<1>4. \/ Found(k) = {}
      \/ \E a \in 1..Len(table[i]) : Min(Found(k)) = a
  BY <1>2, FoundFacts
<1>5. j \in 1..Len(table[i])
  BY <1>1, <1>4
<1> HIDE DEF i, j
<1>6. AtEntry(table, pos)
  BY <1>3, <1>5 DEF AtEntry
<1>7. AtEntry(table', itr')
  BY <1>1, <1>6 DEF AtEntry
<1>8. visited' \in Seq(Keys)
  BY <1>1
<1>9. StorageInv'
  BY <1>1 DEF TableInv, StorageInv
<1>10. IteratorInv'
  BY <1>1, <1>2, <1>7, <1>8 DEF IteratorInv
<1> QED
  BY <1>9, <1>10 DEF TableInv

LEMMA BeginKeeps ==
  ASSUME TableInv, hashtable_iterator
  PROVE  TableInv'
<1> DEFINE n == Len(table)
           pos == NextBucket(table, 0)
           k == table[pos.index][pos.at].k
           all == {p[1] : p \in inserted}
<1>1. /\ itr = NoItr /\ ~wild /\ entrycount # 0 /\ itr' = pos /\ visited' = <<k>> /\ begun' = all
      /\ UNCHANGED <<table, primeindex, entrycount, inserted, wild>>
  <2>1. /\ itr = NoItr /\ ~wild /\ entrycount # 0 /\ itr' = pos
        /\ visited' = <<table[itr'.index][itr'.at].k>> /\ begun' = all
        /\ UNCHANGED <<table, primeindex, entrycount, inserted, wild>>
    BY DEF hashtable_iterator
  <2> HIDE DEF pos, all
  <2> QED
    BY <2>1
<1>2. /\ HoldsMap(table, n, inserted) /\ entrycount = Cardinality(inserted)
      /\ inserted \in SUBSET Pairs
  <2>1. StorageInv
    BY DEF TableInv
  <2> HIDE DEF pos, all, k
  <2>2. HoldsMap(table, Len(table), inserted) /\ entrycount = Cardinality(inserted)
    BY <1>1, <2>1 DEF StorageInv
  <2>3. inserted \in SUBSET Pairs
    BY <2>1 DEF StorageInv
  <2> QED
    BY <2>2, <2>3
<1>3. InTheirLists(table, n) /\ n \in Nat
  <2> HIDE DEF n
  <2>1. InTheirLists(table, n)
    BY ONLY <1>2, TableFacts
  <2> QED
    BY ONLY <2>1 DEF InTheirLists
<1>4. Behind(table, 1, 0) = all
  BY <1>2, AllBehind
<1>5. all # {}
  <2>1. inserted # {}
    BY <1>1, <1>2, FS_EmptySet
  <2> QED
    BY <2>1
<1>6. Arrives(all, table, pos)
  <2>1. 0 \in 0..n /\ 0 + 1 = 1
    BY <1>3
  <2> HIDE DEF n, all
  <2>2. Arrives(Behind(table, 0 + 1, 0), table, NextBucket(table, 0))
    BY <1>3, <2>1, NextBucketArrives
  <2> QED
    BY <1>4, <2>1, <2>2
<1> HIDE DEF pos, all, k
<1>7. /\ AtEntry(table, pos) /\ k \in Keys /\ k \notin Ahead(table, pos)
      /\ all = Ahead(table, pos) \cup {k}
  BY <1>5, <1>6 DEF Arrives, k
<1>8. AtEntry(table', itr')
  BY <1>1, <1>7 DEF AtEntry
<1>9. Ahead(table, itr)' = Ahead(table, pos)
  BY <1>1 DEF Ahead
<1>10. Met(<<k>>, Ahead(table, pos), all)
  <2> DEFINE v == <<k>>
  <2>1. DOMAIN v = {1} /\ v[1] = k
    OBVIOUS
  <2> HIDE DEF v
  <2>2. Range(v) = {k}
    BY <2>1 DEF Range
  <2>3. Met(v, Ahead(table, pos), all)
    BY <1>7, <2>1, <2>2 DEF Met
  <2> QED
    BY <2>3 DEF v
<1>11. Met(visited, Ahead(table, itr), begun)'
  <2> DEFINE A == Ahead(table, pos)
  <2>1. visited' = <<k>> /\ begun' = all /\ Ahead(table, itr)' = A /\ Met(<<k>>, A, all)
    BY <1>1, <1>9, <1>10
  <2> HIDE DEF A
  <2> QED
    BY <2>1 DEF Met
<1>12. visited' \in Seq(Keys)
  BY <1>1, <1>7
<1>13. StorageInv'
  BY <1>1 DEF TableInv, StorageInv
<1>14. IteratorInv'
  BY <1>1, <1>8, <1>11, <1>12 DEF IteratorInv
<1> QED
  BY <1>13, <1>14 DEF TableInv

\* The iterator comes to pos in the table t; A was ahead of it.
LEMMA ArrivalKeeps ==
  ASSUME visited \in Seq(Keys), NEW A, begun # {} => Met(visited, A, begun), ~wild',
         Arrives(A, table', itr'), visited' = Keep(itr', table'), begun' = begun
  PROVE  IteratorInv'
<1>1. /\ visited' \in Seq(Keys)
      /\ begun # {} => Met(visited', Ahead(table', itr'), begun)
  <2> DEFINE t == table'
             pos == itr'
  <2>1. Arrives(A, t, pos) /\ visited' = Keep(pos, t)
    OBVIOUS
  <2> HIDE DEF t, pos
  <2>2. /\ Keep(pos, t) \in Seq(Keys)
        /\ \A B : Met(visited, A, B) => Met(Keep(pos, t), Ahead(t, pos), B)
    BY <2>1, KeepMet
  <2>3. /\ visited' \in Seq(Keys)
        /\ begun # {} => Met(visited', Ahead(t, pos), begun)
    BY <2>1, <2>2
  <2> QED
    BY <2>3 DEF t, pos
<1>2. itr' # NoItr => AtEntry(table', itr')
  BY DEF Arrives
<1>3. AtEntry(table', itr') <=> AtEntry(table, itr)'
  BY DEF AtEntry
<1>4. Ahead(table, itr)' = Ahead(table', itr')
  BY DEF Ahead, NoItr
<1>5. Met(visited, Ahead(table, itr), begun)' <=> Met(visited', Ahead(table', itr'), begun')
  BY <1>4 DEF Met
<1>6. NoItr' = NoItr
  BY DEF NoItr
<1> QED
  BY <1>1, <1>2, <1>3, <1>5, <1>6 DEF IteratorInv

\* The next entry of a table after place a of list i.
LEMMA NextArrives ==
  ASSUME NEW t, NEW n, InTheirLists(t, n), NEW i \in 1..n, NEW a \in 0..Len(t[i]),
         NEW pos, IF a < Len(t[i]) THEN pos = [index |-> i, at |-> a + 1] ELSE pos = NextBucket(t, i)
  PROVE  Arrives(Behind(t, i, a), t, pos)
<1>1. n \in Nat /\ Len(t) = n /\ Len(t[i]) \in Nat
  BY DEF InTheirLists
<1>2. CASE a < Len(t[i])
  <2> DEFINE k == t[i][a + 1].k
  <2>1. a \in 0..Len(t[i]) - 1 /\ a + 1 \in 1..Len(t[i])
    BY <1>1, <1>2
  <2>2. k \in Keys /\ k \notin Behind(t, i, a + 1) /\ Behind(t, i, a) = Behind(t, i, a + 1) \cup {k}
    BY <2>1, NextInList
  <2>3. pos = [index |-> i, at |-> a + 1] /\ pos.index = i /\ pos.at = a + 1
    BY <1>2
  <2>4. AtEntry(t, pos)
    BY <1>1, <2>1, <2>3 DEF AtEntry
  <2>5. Ahead(t, pos) = Behind(t, i, a + 1)
    BY <2>3, <2>4, AheadIs
  <2> QED
    BY <2>2, <2>3, <2>4, <2>5 DEF Arrives
<1>3. CASE ~(a < Len(t[i]))
  <2>1. a = Len(t[i]) /\ i \in 0..n
    BY <1>1, <1>3
  <2>2. Behind(t, i, a) = Behind(t, i + 1, 0)
    BY <2>1, EndOfList
  <2>3. Arrives(Behind(t, i + 1, 0), t, NextBucket(t, i))
    BY <2>1, NextBucketArrives
  <2> QED
    BY <1>3, <2>2, <2>3
<1> QED
  BY <1>2, <1>3

LEMMA AdvanceKeeps ==
  ASSUME TableInv, hashtable_iterator_advance
  PROVE  TableInv'
<1> DEFINE n == Len(table)
           i == itr.index
           a == itr.at
           pos == IF a < Len(table[i]) THEN [itr EXCEPT !.at = @ + 1] ELSE NextBucket(table, i)
           A == Behind(table, i, a)
<1>1. /\ itr # NoItr /\ itr' = pos /\ visited' = Keep(itr', table)
      /\ UNCHANGED <<table, primeindex, entrycount, begun, inserted, wild>>
  BY DEF hashtable_iterator_advance
<1>2. /\ ~wild /\ AtEntry(table, itr) /\ InTheirLists(table, n) /\ visited \in Seq(Keys)
      /\ begun # {} => Met(visited, A, begun)
  BY <1>1, Iterating
<1>3. itr = [index |-> i, at |-> a] /\ i \in 1..n /\ a \in 1..Len(table[i])
  BY <1>2 DEF AtEntry
<1>4. a \in 0..Len(table[i]) /\ [itr EXCEPT !.at = @ + 1] = [index |-> i, at |-> a + 1]
  <2>1. [itr EXCEPT !.at = @ + 1] = [index |-> i, at |-> a + 1]
    BY <1>3
  <2>2. Len(table[i]) \in Nat
    BY <1>2, <1>3 DEF InTheirLists
  <2> QED
    BY <1>3, <2>1, <2>2
<1>5. IF a < Len(table[i]) THEN pos = [index |-> i, at |-> a + 1] ELSE pos = NextBucket(table, i)
  BY <1>4
<1> HIDE DEF pos, i, a, n
<1>6. Arrives(Behind(table, i, a), table, pos)
  BY <1>2, <1>3, <1>4, <1>5, NextArrives
<1> HIDE DEF A
<1>7. Arrives(A, table', itr') /\ visited' = Keep(itr', table') /\ begun' = begun /\ ~wild'
  BY <1>1, <1>2, <1>6 DEF A
<1>8. IteratorInv'
  BY <1>2, <1>7, ArrivalKeeps
<1>9. StorageInv'
  BY <1>1 DEF TableInv, StorageInv
<1> QED
  BY <1>8, <1>9 DEF TableInv

\* What is behind the entry that left is where it was.
LEMMA BehindDropped ==
  ASSUME NEW t, NEW n, InTheirLists(t, n), NEW i \in 1..n, NEW a \in 1..Len(t[i]),
         NEW r, ListCut(r, t, i, a)
  PROVE  /\ Behind(t, i, a) = Behind(r, i, a - 1) /\ NextBucket(t, i) = NextBucket(r, i)
         /\ Len(r) = n /\ Len(r[i]) = Len(t[i]) - 1
<1> DEFINE l == t[i]
           m == RemoveAt(l, a)
<1>1. /\ n \in Nat \ {0} /\ Len(t) = n /\ t \in Seq(Seq(Entries))
      /\ \A b \in 1..n : t[b] \in Seq(Entries) /\ DOMAIN t[b] = 1..Len(t[b]) /\ Len(t[b]) \in Nat
  BY DEF InTheirLists
<1>2. l \in Seq(Entries) /\ Len(l) \in Nat /\ a \in 1..Len(l)
  BY <1>1
<1> HIDE DEF l
<1>3. /\ m \in Seq(Entries) /\ Len(m) = Len(l) - 1
      /\ \A j \in a..Len(l) - 1 : m[j] = l[j + 1]
  BY <1>2, RemoveAtIs
<1>4. r = [t EXCEPT ![i] = m]
  BY DEF ListCut, l
<1> HIDE DEF m
<1>5. Len(r) = n /\ r[i] = m /\ \A b \in 1..n : b # i => r[b] = t[b]
  BY <1>1, <1>3, <1>4, ExceptIs
<1>6. DOMAIN m = 1..Len(l) - 1 /\ DOMAIN l = 1..Len(l)
  BY <1>2, <1>3
<1>7. ASSUME NEW x \in Behind(t, i, a) PROVE x \in Behind(r, i, a - 1)
  <2>1. x \in Keys /\ \E b \in i..n : \E j \in DOMAIN t[b] : t[b][j].k = x /\ (b = i => j > a)
    BY <1>1 DEF Behind
  <2>2. PICK b \in i..n : \E j \in DOMAIN t[b] : t[b][j].k = x /\ (b = i => j > a)
    BY <2>1
  <2>3. PICK j \in DOMAIN t[b] : t[b][j].k = x /\ (b = i => j > a)
    BY <2>2
  <2>4. CASE b = i
    <3>1. j \in DOMAIN l /\ j > a /\ l[j].k = x
      BY <2>3, <2>4 DEF l
    <3>2. j - 1 \in a..Len(l) - 1 /\ (j - 1) + 1 = j /\ j - 1 \in DOMAIN m /\ j - 1 > a - 1
      BY <1>2, <1>6, <3>1
    <3>3. m[j - 1] = l[j]
      BY <1>3, <3>2
    <3>4. r[i][j - 1].k = x /\ j - 1 \in DOMAIN r[i] /\ i \in i..Len(r)
      BY <1>1, <1>5, <3>1, <3>2, <3>3
    <3> QED
      BY <2>1, <3>2, <3>4 DEF Behind
  <2>5. CASE b # i
    <3>1. b \in 1..n /\ r[b] = t[b]
      BY <1>1, <1>5, <2>5
    <3> QED
      BY <1>5, <2>1, <2>3, <2>5, <3>1 DEF Behind
  <2> QED
    BY <2>4, <2>5
<1>8. ASSUME NEW x \in Behind(r, i, a - 1) PROVE x \in Behind(t, i, a)
  <2>1. x \in Keys /\ \E b \in i..n : \E j \in DOMAIN r[b] : r[b][j].k = x /\ (b = i => j > a - 1)
    BY <1>5 DEF Behind
  <2>2. PICK b \in i..n : \E j \in DOMAIN r[b] : r[b][j].k = x /\ (b = i => j > a - 1)
    BY <2>1
  <2>3. PICK j \in DOMAIN r[b] : r[b][j].k = x /\ (b = i => j > a - 1)
    BY <2>2
  <2>4. CASE b = i
    <3>1. j \in DOMAIN m /\ j > a - 1 /\ m[j].k = x
      BY <1>5, <2>3, <2>4
    <3>2. j \in a..Len(l) - 1 /\ j + 1 \in DOMAIN l /\ j + 1 > a
      BY <1>2, <1>6, <3>1
    <3>3. t[i][j + 1].k = x /\ j + 1 \in DOMAIN t[i] /\ i \in i..Len(t)
      <4>1. l[j + 1] = m[j]
        BY <1>3, <3>2
      <4>2. i \in i..Len(t)
        BY <1>1
      <4> QED
        BY <3>1, <3>2, <4>1, <4>2 DEF l
    <3> QED
      BY <2>1, <3>2, <3>3 DEF Behind
  <2>5. CASE b # i
    <3>1. b \in 1..n /\ r[b] = t[b]
      BY <1>1, <1>5, <2>5
    <3> QED
      BY <1>1, <2>1, <2>3, <2>5, <3>1 DEF Behind
  <2> QED
    BY <2>4, <2>5
<1>9. NextBucket(t, i) = NextBucket(r, i)
  <2>1. \A j \in i + 1..n : r[j] = t[j]
    BY <1>1, <1>5
  <2>2. {j \in i + 1..Len(t) : t[j] # <<>>} = {j \in i + 1..Len(r) : r[j] # <<>>}
    BY <1>1, <1>5, <2>1
  <2> QED
    BY <2>2 DEF NextBucket
<1> QED
  BY <1>3, <1>5, <1>7, <1>8, <1>9 DEF l

LEMMA RemoveHereKeeps ==
  ASSUME TableInv, hashtable_iterator_remove
  PROVE  TableInv'
<1> DEFINE n == Len(table)
           i == itr.index
           a == itr.at
           A == Behind(table, i, a)
<1>1. /\ itr # NoItr /\ inserted' = {p \in inserted : p[1] # table[i][a].k}
      /\ table' = [table EXCEPT ![i] = RemoveAt(@, a)]
      /\ entrycount' = entrycount - 1 /\ itr' = AfterRemoval /\ visited' = Keep(itr', table')
      /\ UNCHANGED <<primeindex, begun, wild>>
  BY DEF hashtable_iterator_remove
<1>2. /\ ~wild /\ AtEntry(table, itr) /\ InTheirLists(table, n) /\ visited \in Seq(Keys)
      /\ begun # {} => Met(visited, A, begun)
  BY <1>1, Iterating
<1>3. itr = [index |-> i, at |-> a] /\ i \in 1..n /\ a \in 1..Len(table[i])
  BY <1>2 DEF AtEntry
<1>4. AfterRemoval = IF a < Len(table[i]) THEN itr ELSE NextBucket(table, i)
  BY DEF AfterRemoval
<1>5. Len(table[i]) \in Nat
  BY <1>2, <1>3 DEF InTheirLists
<1>6. StorageInv
  BY DEF TableInv
<1> HIDE DEF i, a
<1>7. StorageInv' /\ Len(table') = n /\ HoldsMap(table', n, inserted')
  BY <1>1, <1>2, <1>3, <1>6, OneLess
<1> HIDE DEF n, A
<1>8. /\ A = Behind(table', i, a - 1) /\ NextBucket(table, i) = NextBucket(table', i)
      /\ Len(table'[i]) = Len(table[i]) - 1
  <2> DEFINE r == table'
  <2>1. ListCut(r, table, i, a)
    BY <1>1 DEF ListCut
  <2> HIDE DEF r
  <2>2. /\ Behind(table, i, a) = Behind(r, i, a - 1) /\ NextBucket(table, i) = NextBucket(r, i)
        /\ Len(r[i]) = Len(table[i]) - 1
    BY <1>2, <1>3, <2>1, BehindDropped
  <2> QED
    BY <2>2 DEF r, A
<1>9. Arrives(A, table', itr')
  <2> DEFINE t == table'
             pos == itr'
             c == a - 1
  <2>1. InTheirLists(t, n)
    <3>1. HoldsMap(t, n, inserted')
      BY <1>7
    <3> HIDE DEF t
    <3> QED
      BY <3>1, TableFacts
  <2>2. c \in 0..Len(t[i]) /\ (c < Len(t[i]) <=> a < Len(table[i])) /\ a = c + 1
    BY <1>3, <1>5, <1>8
  <2>3. pos = IF a < Len(table[i]) THEN itr ELSE NextBucket(t, i)
    BY <1>1, <1>4, <1>8
  <2>4. A = Behind(t, i, c)
    BY <1>8
  <2> HIDE DEF t, pos, c
  <2>5. IF c < Len(t[i]) THEN pos = [index |-> i, at |-> c + 1] ELSE pos = NextBucket(t, i)
    BY <1>3, <2>2, <2>3
  <2>6. Arrives(Behind(t, i, c), t, pos)
    BY <1>3, <2>1, <2>2, <2>5, NextArrives
  <2> QED
    BY <2>4, <2>6 DEF t, pos
<1>10. visited' = Keep(itr', table') /\ begun' = begun /\ ~wild'
  BY <1>1, <1>2
<1>11. IteratorInv'
  BY <1>2, <1>9, <1>10, ArrivalKeeps
<1> QED
  BY <1>7, <1>11 DEF TableInv

LEMMA TableStepInv ==
  ASSUME TableInv, [TableNext]_tableVars
  PROVE  TableInv'
<1>1. ASSUME NEW k \in Keys, NEW v \in Values, hashtable_search(k) = {}, hashtable_insert(k, v)
      PROVE  TableInv'
  BY <1>1, InsertKeeps
<1>2. ASSUME NEW k \in Keys, hashtable_remove(k) PROVE TableInv'
  BY <1>2, RemoveKeeps
<1>3. ASSUME NEW k \in Keys, hashtable_iterator_search(k) PROVE TableInv'
  BY <1>3, SearchKeeps
<1>4. CASE hashtable_iterator
  BY <1>4, BeginKeeps
<1>5. CASE hashtable_iterator_advance
  BY <1>5, AdvanceKeeps
<1>6. CASE hashtable_iterator_remove
  BY <1>6, RemoveHereKeeps
<1>7. CASE UNCHANGED tableVars
  <2>1. UNCHANGED <<table, primeindex, entrycount, itr, visited, begun, inserted, wild>>
    BY <1>7 DEF tableVars
  <2>2. StorageInv'
    BY <2>1 DEF TableInv, StorageInv
  <2>3. IteratorInv'
    BY <2>1 DEF TableInv, IteratorInv, AtEntry, Met, Ahead, NoItr
  <2> QED
    BY <2>2, <2>3 DEF TableInv
<1> QED
  BY <1>1, <1>2, <1>3, <1>4, <1>5, <1>6, <1>7 DEF TableNext

LEMMA TableAlways == TableSpec => []TableInv
<1>1. TableInit => TableInv
  BY TableStart
<1>2. TableInv /\ [TableNext]_tableVars => TableInv'
  BY TableStepInv
<1> QED
  BY <1>1, <1>2, PTL DEF TableSpec

\* Through every expansion, failed expansion, failed insertion, removal and
\* iteration the table is the map its client built, its count is right, and an
\* iteration meets every key once, for every hash, every list of sizes and any
\* number of entries (hashtable.c, hashtable_itr.c).
THEOREM TableKeepsMap == TableSpec => []TableIsMap
<1>1. TableInv => TableIsMap
  <2> SUFFICES ASSUME TableInv PROVE TableIsMap
    OBVIOUS
  <2>1. ASSUME ~wild
        PROVE  /\ \A k \in Keys : hashtable_search(k) = {p[2] : p \in {q \in inserted : q[1] = k}}
               /\ entrycount = Cardinality(inserted)
    <3>1. HoldsMap(table, Len(table), inserted) /\ entrycount = Cardinality(inserted)
      BY <2>1 DEF TableInv, StorageInv
    <3> QED
      BY <3>1, SearchFacts
  <2>2. IterationMeetsAllOnce
    BY DEF TableInv, IteratorInv, Met, IterationMeetsAllOnce
  <2> QED
    BY <2>1, <2>2 DEF TableIsMap
<1> QED
  BY <1>1, TableAlways, PTL

-----------------------------------------------------------------------------
(* The archive: numbers *)

LEMMA DivFacts ==
  ASSUME NEW i \in Int
  PROVE  i \div 256 \in Int /\ (i % 256) \in Byte /\ i = 256 * (i \div 256) + (i % 256)
  BY DEF Byte

\* The bytes of a word are the remainders of four divisions.
LEMMA WordFacts ==
  ASSUME NEW i \in Int
  PROVE  \E a, b, c \in Int, p, q, r, s \in Byte :
           /\ i = 256 * a + p /\ a = 256 * b + q /\ b = 256 * c + r
           /\ HighWord(i) \in Int /\ c = 256 * HighWord(i) + s
           /\ htonl(i) = <<s, r, q, p>>
<1> DEFINE a == i \div 256
           b == a \div 256
           c == b \div 256
           d == c \div 256
           p == i % 256
           q == a % 256
           r == b % 256
           s == c % 256
<1>1. a \in Int /\ p \in Byte /\ i = 256 * a + p
  BY DivFacts
<1>2. b \in Int /\ q \in Byte /\ a = 256 * b + q
  BY <1>1, DivFacts
<1>3. c \in Int /\ r \in Byte /\ b = 256 * c + r
  BY <1>2, DivFacts
<1>4. d \in Int /\ s \in Byte /\ c = 256 * d + s
  BY <1>3, DivFacts
<1>5. htonl(i) = <<s, r, q, p>> /\ HighWord(i) = d
  BY DEF htonl, HighWord
<1> HIDE DEF a, b, c, d, p, q, r, s
<1> QED
  BY <1>1, <1>2, <1>3, <1>4, <1>5

LEMMA FourBytes ==
  ASSUME NEW p \in Byte, NEW q \in Byte, NEW r \in Byte, NEW s \in Byte
  PROVE  LET l == <<s, r, q, p>> IN
         l \in Seq(Byte) /\ Len(l) = 4 /\ l[1] = s /\ l[2] = r /\ l[3] = q /\ l[4] = p
  OBVIOUS

\* A number of four bytes is read as it was written.
LEMMA IntRoundTrip ==
  ASSUME NEW i \in Int32
  PROVE  htonl(i) \in Seq(Byte) /\ Len(htonl(i)) = 4 /\ ntohl(htonl(i)) = i
<1>1. i \in Int /\ i >= -2147483648 /\ i <= 2147483647
  BY SMT DEF Int32
<1>2. PICK a, b, c \in Int, p, q, r, s \in Byte :
        /\ i = 256 * a + p /\ a = 256 * b + q /\ b = 256 * c + r
        /\ HighWord(i) \in Int /\ c = 256 * HighWord(i) + s /\ htonl(i) = <<s, r, q, p>>
  BY <1>1, WordFacts, SMT
<1> DEFINE d == HighWord(i)
<1>3. d \in Int /\ c = 256 * d + s
  BY <1>2
<1> HIDE DEF d
<1>4. /\ p \in Nat /\ q \in Nat /\ r \in Nat /\ s \in Nat
      /\ p <= 255 /\ q <= 255 /\ r <= 255 /\ s <= 255
  BY DEF Byte
<1>5. Signed(s) = c
  <2>1. c >= -128 /\ c <= 127
    BY <1>1, <1>2, <1>4, SMT
  <2>2. (d = 0 /\ s <= 127) \/ (d = -1 /\ s > 127)
    BY <1>3, <1>4, <2>1
  <2> QED
    BY <1>3, <1>4, <2>2 DEF Signed
<1>6. ntohl(<<s, r, q, p>>) = i
  <2>1. ntohl(<<s, r, q, p>>) = ((c * 256 + r) * 256 + q) * 256 + p
    BY <1>5 DEF ntohl
  <2>2. ((c * 256 + r) * 256 + q) * 256 + p = i
    BY <1>2, <1>4
  <2> QED
    BY <2>1, <2>2
<1>7. <<s, r, q, p>> \in Seq(Byte) /\ Len(<<s, r, q, p>>) = 4
  BY FourBytes
<1> DEFINE l == <<s, r, q, p>>
<1>8. l \in Seq(Byte) /\ Len(l) = 4 /\ ntohl(l) = i /\ htonl(i) = l
  BY <1>2, <1>6, <1>7
<1> HIDE DEF l
<1> QED
  BY <1>8

\* A number of eight bytes, too.
LEMMA LongRoundTrip ==
  ASSUME NEW v \in Int, HighWord(v) \in Int32
  PROVE  htonll(v) \in Seq(Byte) /\ Len(htonll(v)) = 8 /\ ntohll(htonll(v)) = v
<1> DEFINE d == HighWord(v)
           h == htonl(d)
           l == htonl(v)
           m == h \o l
<1>1. PICK a, b, c \in Int, p, q, r, s \in Byte :
        /\ v = 256 * a + p /\ a = 256 * b + q /\ b = 256 * c + r
        /\ HighWord(v) \in Int /\ c = 256 * HighWord(v) + s /\ htonl(v) = <<s, r, q, p>>
  BY WordFacts
<1>2. h \in Seq(Byte) /\ Len(h) = 4 /\ ntohl(h) = d
  BY IntRoundTrip
<1>3. l \in Seq(Byte) /\ Len(l) = 4 /\ l[1] = s /\ l[2] = r /\ l[3] = q /\ l[4] = p
  <2> DEFINE z == <<s, r, q, p>>
  <2>1. z \in Seq(Byte) /\ Len(z) = 4 /\ z[1] = s /\ z[2] = r /\ z[3] = q /\ z[4] = p
    BY FourBytes
  <2>2. l = z
    BY <1>1
  <2> HIDE DEF z, l
  <2> QED
    BY <2>1, <2>2
<1>4. /\ d \in Int /\ c = 256 * d + s /\ v = 256 * a + p /\ a = 256 * b + q /\ b = 256 * c + r
      /\ p \in Int /\ q \in Int /\ r \in Int /\ s \in Int
  BY <1>1 DEF Byte
<1>5. htonll(v) = m
  BY DEF htonll
<1> HIDE DEF h, l, d
<1>6. /\ m \in Seq(Byte) /\ Len(m) = Len(h) + Len(l)
      /\ \A i \in 1..Len(h) : m[i] = h[i]
      /\ \A i \in Len(h) + 1..Len(h) + Len(l) : m[i] = l[i - Len(h)]
  BY <1>2, <1>3, ConcatIs, ZenonT(20)
<1> HIDE DEF m
<1>7. /\ m[1] = h[1] /\ m[2] = h[2] /\ m[3] = h[3] /\ m[4] = h[4]
      /\ m[5] = s /\ m[6] = r /\ m[7] = q /\ m[8] = p
  BY <1>2, <1>3, <1>6
<1>8. ntohl(m) = d
  BY <1>2, <1>7 DEF ntohl
<1>9. ntohll(m) = (((d * 256 + s) * 256 + r) * 256 + q) * 256 + p
  BY <1>7, <1>8 DEF ntohll
<1>10. (((d * 256 + s) * 256 + r) * 256 + q) * 256 + p = v
  BY ONLY <1>4, a \in Int, b \in Int, c \in Int, v \in Int
<1> QED
  BY <1>2, <1>3, <1>5, <1>6, <1>9, <1>10

-----------------------------------------------------------------------------
(* The archive: the buffer grows *)

\* After j passes the length is enough or has grown by j at least.
LEMMA ResizeFacts ==
  ASSUME NEW len \in Nat \ {0}, NEW newlen \in Nat
  PROVE  LET m == resize_buffer(len, newlen) IN m \in Nat \ {0} /\ m >= newlen /\ m >= len
<1> DEFINE St == Nat \ {0}
           D == SUBSET (1..newlen)
           pass(m) == IF m < newlen THEN 2 * m ELSE m
           F == [x \in St \X (1..newlen) |-> pass(x[1])]
<1>1. F \in [St \X (1..newlen) -> St] /\ \A m \in St, j \in 1..newlen : F[<<m, j>>] = pass(m)
  OBVIOUS
<1> HIDE DEF F
<1>2. PICK V \in [D -> St] : \A s \in D :
        V[s] = IF s = {} THEN len ELSE F[<<V[s \ {Max(s)}], Max(s)>>]
  <2>1. len \in St
    OBVIOUS
  <2> HIDE DEF St
  <2>2. \E V \in [SUBSET (1..newlen) -> St] : FoldOf(V, F, len, newlen)
    BY ONLY <1>1, <2>1, newlen \in Nat, FoldExists
  <2> QED
    BY <2>2 DEF FoldOf
<1>3. ASSUME NEW s \in D, s # {} PROVE Max(s) \in 1..newlen /\ s \ {Max(s)} \in D
  BY <1>3, LargestIndex
<1>4. V = [s \in D |-> IF s = {} THEN len ELSE pass(V[s \ {Max(s)}])]
  <2>1. ASSUME NEW s \in D
        PROVE  V[s] = IF s = {} THEN len ELSE pass(V[s \ {Max(s)}])
    <3>1. CASE s # {}
      <4>1. Max(s) \in 1..newlen /\ V[s \ {Max(s)}] \in St
        BY <1>3, <3>1
      <4> QED
        BY <1>1, <1>2, <3>1, <4>1
    <3> QED
      BY <1>2, <3>1
  <2> HIDE DEF D
  <2> QED
    BY <2>1
<1> DEFINE U == CHOOSE U : U = [s \in D |-> IF s = {} THEN len ELSE pass(U[s \ {Max(s)}])]
<1>5. U = [s \in D |-> IF s = {} THEN len ELSE pass(U[s \ {Max(s)}])]
  BY <1>4
<1>6. resize_buffer(len, newlen) = U[1..newlen]
  BY DEF resize_buffer, FoldLeft, MapThenFoldSet
<1> HIDE DEF U
<1> DEFINE Grown(i) == U[1..i] \in Nat \ {0} /\ U[1..i] >= len /\ (U[1..i] >= newlen \/ U[1..i] >= len + i)
           S == {i \in Nat : i <= newlen => Grown(i)}
<1>7. 0 \in S
  <2>1. U[1..0] = len
    BY <1>5, IntervalSteps
  <2> QED
    BY <2>1
<1>8. ASSUME NEW i \in Nat, i \in S PROVE i + 1 \in S
  <2> SUFFICES ASSUME i + 1 <= newlen PROVE Grown(i + 1)
    OBVIOUS
  <2>1. i + 1 \in 1..newlen /\ Grown(i) /\ (i + 1) - 1 = i
    BY <1>8
  <2>2. 1..i + 1 \in D /\ 1..i + 1 # {} /\ (1..i + 1) \ {Max(1..i + 1)} = 1..i
    <3>1. /\ 1..(i + 1) # {} /\ Max(1..(i + 1)) = i + 1
          /\ (1..(i + 1)) \ {i + 1} = 1..(i + 1) - 1
      BY <2>1, IntervalSteps
    <3> QED
      BY <2>1, <3>1
  <2>3. U[1..i + 1] = pass(U[1..i])
    BY <1>5, <2>2
  <2> DEFINE x == U[1..i]
             y == U[1..i + 1]
  <2>4. x \in Nat \ {0} /\ x >= len /\ (x >= newlen \/ x >= len + i) /\ y = IF x < newlen THEN 2 * x ELSE x
    BY <2>1, <2>3
  <2> HIDE DEF x, y
  <2>5. y \in Nat \ {0} /\ y >= len /\ (y >= newlen \/ y >= len + (i + 1))
    BY ONLY <2>4, i \in Nat, len \in Nat \ {0}, newlen \in Nat
  <2> QED
    BY <2>5 DEF y
<1> HIDE DEF S
<1>9. newlen \in S /\ newlen <= newlen
  BY <1>7, <1>8, InductionInSets
<1>10. Grown(newlen)
  BY <1>9 DEF S
<1> QED
  BY <1>6, <1>10

-----------------------------------------------------------------------------
(* The archive: what a field is written as *)

Encoded(f) ==
  CASE f.type = "int"  -> htonl(f.value[1])
    [] f.type = "long" -> htonll(f.value[1])
    [] f.type = "bool" -> f.value
    [] OTHER -> IF f.value = Null THEN htonl(-1) ELSE htonl(Len(f.value)) \o f.value

\* The kinds of fields.
LEMMA FieldKinds ==
  ASSUME NEW f \in Fields
  PROVE  \/ f.type = "int" /\ f.value = <<f.value[1]>> /\ f.value[1] \in Int32
         \/ f.type = "long" /\ f.value = <<f.value[1]>> /\ f.value[1] \in Int
                            /\ HighWord(f.value[1]) \in Int32
         \/ f.type = "bool" /\ f.value \in {<<0>>, <<1>>}
         \/ f.type \in {"buffer", "string"} /\ f.value = Null
         \/ f.type \in {"buffer", "string"} /\ f.value \in Seq(Byte) /\ Len(f.value) \in Int32
<1>1. IsField(f)
  BY RecordsAssumption
<1> DEFINE v == f.value
           i == v[1]
<1>2. \/ /\ f.type \in {"int", "long"} /\ v = <<i>> /\ i \in Int
         /\ (IF f.type = "int" THEN i ELSE HighWord(i)) \in Int32
      \/ f.type = "bool" /\ v \in {<<0>>, <<1>>}
      \/ f.type \in {"buffer", "string"} /\ v = Null
      \/ f.type = "buffer" /\ v \in Seq(Byte) /\ Len(v) \in Int32
      \/ f.type = "string" /\ v \in Seq(Byte \ {0}) /\ Len(v) \in Int32
  BY <1>1 DEF IsField
<1>3. v \in Seq(Byte \ {0}) => v \in Seq(Byte)
  OBVIOUS
<1> HIDE DEF v
<1> QED
  BY <1>2, <1>3 DEF v

LEMMA NullIsNoString == Null \notin Seq(Byte)
<1> DEFINE n == Null
<1>1. n[1] = -1 /\ Len(n) = 1
  BY DEF Null
<1> HIDE DEF n
<1>2. SUFFICES ASSUME n \in Seq(Byte) PROVE FALSE
  BY DEF n
<1>3. n[1] \in Byte
  BY <1>1, <1>2
<1> QED
  BY <1>1, <1>3 DEF Byte

\* The bytes of a field, and its first four when it has a length.
LEMMA EncodedFacts ==
  ASSUME NEW f \in Fields
  PROVE  /\ Encoded(f) \in Seq(Byte)
         /\ f.type = "int"  => Encoded(f) = htonl(f.value[1])
         /\ f.type = "long" => Encoded(f) = htonll(f.value[1])
         /\ f.type = "bool" => Encoded(f) = f.value
         /\ f.type \in {"buffer", "string"} =>
              /\ f.value = Null => Encoded(f) = htonl(-1)
              /\ f.value # Null => Encoded(f) = htonl(Len(f.value)) \o f.value
<1>1. /\ f.type = "int"  => Encoded(f) = htonl(f.value[1])
      /\ f.type = "long" => Encoded(f) = htonll(f.value[1])
      /\ f.type = "bool" => Encoded(f) = f.value
      /\ f.type \in {"buffer", "string"} =>
           /\ f.value = Null => Encoded(f) = htonl(-1)
           /\ f.value # Null => Encoded(f) = htonl(Len(f.value)) \o f.value
  BY DEF Encoded
<1>2. CASE f.type = "int" /\ f.value[1] \in Int32
  <2>1. htonl(f.value[1]) \in Seq(Byte)
    BY <1>2, IntRoundTrip
  <2> QED
    BY <1>1, <1>2, <2>1
<1>3. CASE f.type = "long" /\ f.value[1] \in Int /\ HighWord(f.value[1]) \in Int32
  <2>1. htonll(f.value[1]) \in Seq(Byte)
    BY <1>3, LongRoundTrip
  <2> QED
    BY <1>1, <1>3, <2>1
<1>4. CASE f.type = "bool" /\ f.value \in {<<0>>, <<1>>}
  <2>1. <<0>> \in Seq(Byte) /\ <<1>> \in Seq(Byte)
    BY DEF Byte
  <2> QED
    BY <1>1, <1>4, <2>1
<1>5. CASE f.type \in {"buffer", "string"} /\ f.value = Null
  <2>1. -1 \in Int32
    BY DEF Int32
  <2>2. htonl(-1) \in Seq(Byte)
    BY <2>1, IntRoundTrip
  <2> QED
    BY <1>1, <1>5, <2>2
<1>6. CASE f.type \in {"buffer", "string"} /\ f.value \in Seq(Byte) /\ Len(f.value) \in Int32
  <2> DEFINE h == htonl(Len(f.value))
             v == f.value
  <2>1. h \in Seq(Byte) /\ v \in Seq(Byte)
    BY <1>6, IntRoundTrip
  <2>2. Encoded(f) = h \o v
    BY <1>1, <1>6, NullIsNoString
  <2> HIDE DEF h, v
  <2>3. h \o v \in Seq(Byte)
    BY <2>1, ConcatIs
  <2> QED
    BY <1>1, <2>2, <2>3
<1> QED
  BY <1>2, <1>3, <1>4, <1>5, <1>6, FieldKinds

-----------------------------------------------------------------------------
(* The archive: writing *)

Buffers == [len : Nat \ {0}, off : Nat, bytes : Seq(Byte), null : BOOLEAN]

\* The buffer is large enough for what is in it.
Sound(b) == b \in Buffers /\ b.off <= b.len /\ Len(b.bytes) = b.off

\* An outcome of writing the bytes s to b.
PutTo(r, b, s) ==
  /\ r = [b |-> r.b, rc |-> r.rc, bad |-> r.bad] /\ Sound(r.b) /\ r.rc \in {0, -ENOMEM}
  /\ r.bad \in BOOLEAN /\ (r.bad => r.rc = 0 /\ r.b.null)
  /\ r.rc = 0 => r.b.bytes = b.bytes \o s
  /\ r.rc # 0 => r.b.null

\* Two records of a buffer are equal when their fields are.
LEMMA SameBuffer ==
  ASSUME NEW D, D = {"len", "off", "bytes", "null"},
         NEW c, c = [x \in D |-> c[x]], NEW d, d = [x \in D |-> d[x]],
         c["len"] = d["len"], c["off"] = d["off"], c["bytes"] = d["bytes"], c["null"] = d["null"]
  PROVE  c = d
<1>1. ASSUME NEW x \in D PROVE c[x] = d[x]
  OBVIOUS
<1> QED
  BY <1>1

\* A buffer with other values in some of its fields.
LEMMA BufferExcept ==
  ASSUME NEW b \in Buffers, NEW q, NEW n
  PROVE  /\ [b EXCEPT !.bytes = q, !.off = n]
              = [len |-> b.len, off |-> n, bytes |-> q, null |-> b.null]
         /\ [b EXCEPT !.len = n, !.null = q]
              = [len |-> n, off |-> b.off, bytes |-> b.bytes, null |-> q]
<1> DEFINE D == {"len", "off", "bytes", "null"}
           c1 == [b EXCEPT !.bytes = q, !.off = n]
           d1 == [len |-> b.len, off |-> n, bytes |-> q, null |-> b.null]
           c2 == [b EXCEPT !.len = n, !.null = q]
           d2 == [len |-> n, off |-> b.off, bytes |-> b.bytes, null |-> q]
<1>1. DOMAIN b = D
  BY DEF Buffers
<1>2. DOMAIN c1 = D /\ DOMAIN c2 = D
  BY <1>1
<1>3. c1 = [x \in D |-> c1[x]] /\ c2 = [x \in D |-> c2[x]]
  BY <1>2
<1>4. /\ c1["len"] = b.len /\ c1["off"] = n /\ c1["bytes"] = q /\ c1["null"] = b.null
      /\ c2["len"] = n /\ c2["off"] = b.off /\ c2["bytes"] = b.bytes /\ c2["null"] = q
  BY <1>1
<1>5. d1 = [x \in DOMAIN d1 |-> d1[x]] /\ DOMAIN d1 = D
  OBVIOUS
<1>6. d2 = [x \in DOMAIN d2 |-> d2[x]] /\ DOMAIN d2 = D
  OBVIOUS
<1>7. /\ d1["len"] = b.len /\ d1["off"] = n /\ d1["bytes"] = q /\ d1["null"] = b.null
      /\ d2["len"] = n /\ d2["off"] = b.off /\ d2["bytes"] = b.bytes /\ d2["null"] = q
  OBVIOUS
<1>8. D = {"len", "off", "bytes", "null"}
  OBVIOUS
<1> HIDE DEF c1, d1, c2, d2, D
<1>9. c1 = d1
  BY <1>3, <1>4, <1>5, <1>7, <1>8, SameBuffer
<1>10. c2 = d2
  BY <1>3, <1>4, <1>6, <1>7, <1>8, SameBuffer
<1> QED
  BY <1>9, <1>10 DEF c1, d1, c2, d2

LEMMA CopiedFacts ==
  ASSUME NEW b, Sound(b), NEW s \in Seq(Byte), b.len - b.off >= Len(s)
  PROVE  PutTo(Copied(b, s), b, s)
<1> DEFINE p == b.bytes
           q == p \o s
           c == [b EXCEPT !.bytes = @ \o s, !.off = @ + Len(s)]
<1>1. /\ b \in Buffers /\ b.off \in Nat /\ b.len \in Nat \ {0} /\ p \in Seq(Byte) /\ Len(p) = b.off
      /\ Len(s) \in Nat /\ b.null \in BOOLEAN
  BY DEF Sound, Buffers
<1>2. c = [len |-> b.len, off |-> b.off + Len(s), bytes |-> q, null |-> b.null]
  <2> DEFINE n == b.off + Len(s)
  <2>1. c = [b EXCEPT !.bytes = q, !.off = n]
    OBVIOUS
  <2> HIDE DEF p, q, n, c
  <2>2. c = [len |-> b.len, off |-> n, bytes |-> q, null |-> b.null]
    BY <1>1, <2>1, BufferExcept
  <2> QED
    BY <2>2 DEF n
<1> HIDE DEF p
<1>3. q \in Seq(Byte) /\ Len(q) = Len(p) + Len(s)
  BY <1>1, ConcatIs
<1> HIDE DEF q, c
<1>4. Sound(c) /\ c.bytes = q /\ c.null = b.null
  BY <1>1, <1>2, <1>3 DEF Sound, Buffers
<1>5. Copied(b, s) = [b |-> c, rc |-> 0, bad |-> b.null]
  BY DEF Copied, c
<1> QED
  BY <1>1, <1>4, <1>5 DEF PutTo, p, q

LEMMA PutFacts ==
  ASSUME NEW b, Sound(b), NEW s \in Seq(Byte), NEW r \in PutBytes(b, s)
  PROVE  PutTo(r, b, s)
<1> DEFINE n == resize_buffer(b.len, b.len + Len(s))
           grown == [b EXCEPT !.len = n, !.null = FALSE]
           lost  == [b EXCEPT !.len = n, !.null = TRUE]
<1>1. /\ b \in Buffers /\ b.off \in Nat /\ b.len \in Nat \ {0} /\ b.bytes \in Seq(Byte)
      /\ Len(s) \in Nat /\ b.off <= b.len /\ Len(b.bytes) = b.off
  BY DEF Sound, Buffers
<1>2. CASE b.len - b.off >= Len(s)
  BY <1>2, CopiedFacts DEF PutBytes
<1>3. CASE ~(b.len - b.off >= Len(s))
  <2>1. n \in Nat \ {0} /\ n >= b.len + Len(s)
    <3>1. b.len + Len(s) \in Nat
      BY <1>1
    <3> QED
      BY <1>1, <3>1, ResizeFacts
  <2>2. r = Copied(grown, s) \/ r = [b |-> lost, rc |-> -ENOMEM, bad |-> FALSE]
    BY <1>3 DEF PutBytes
  <2> HIDE DEF n
  <2>3. /\ grown = [len |-> n, off |-> b.off, bytes |-> b.bytes, null |-> FALSE]
        /\ lost = [len |-> n, off |-> b.off, bytes |-> b.bytes, null |-> TRUE]
    BY <1>1, BufferExcept
  <2> HIDE DEF grown, lost
  <2>4. Sound(grown) /\ Sound(lost) /\ grown.bytes = b.bytes /\ lost.null = TRUE
    BY <1>1, <2>1, <2>3 DEF Sound, Buffers
  <2>5. grown.len - grown.off >= Len(s)
    BY <1>1, <2>1, <2>3
  <2>6. CASE r = Copied(grown, s)
    <3>1. PutTo(Copied(grown, s), grown, s)
      BY <2>4, <2>5, CopiedFacts
    <3> QED
      BY <2>4, <2>6, <3>1 DEF PutTo
  <2>7. CASE r = [b |-> lost, rc |-> -ENOMEM, bad |-> FALSE]
    <3>1. r.b = lost /\ r.rc = -ENOMEM /\ r.bad = FALSE /\ -ENOMEM # 0
      BY <2>7 DEF ENOMEM
    <3> QED
      BY <2>4, <2>7, <3>1 DEF PutTo
  <2> QED
    BY <2>2, <2>6, <2>7
<1> QED
  BY <1>2, <1>3

\* An outcome of writing the field f to b.
FieldTo(r, b, f) ==
  /\ Sound(r.b) /\ r.rc \in {0, -ENOMEM} /\ r.bad \in BOOLEAN
  /\ r.bad => r.rc = 0 /\ r.b.null
  /\ r.rc = 0 /\ ~r.b.null => r.b.bytes = b.bytes \o Encoded(f)

LEMMA LengthAndBytesFacts ==
  ASSUME NEW b, Sound(b), NEW v \in Seq(Byte), Len(v) \in Int32, NEW r \in LengthAndBytes(b, v)
  PROVE  /\ Sound(r.b) /\ r.rc \in {0, -ENOMEM} /\ r.bad \in BOOLEAN
         /\ r.bad => r.rc = 0 /\ r.b.null
         /\ r.rc = 0 /\ ~r.b.null => r.b.bytes = b.bytes \o (htonl(Len(v)) \o v)
<1> DEFINE h == htonl(Len(v))
<1>1. h \in Seq(Byte)
  BY IntRoundTrip
<1>2. PICK x \in PutBytes(b, h) : r \in IF x.rc < 0 \/ x.bad THEN {x} ELSE PutBytes(x.b, v)
  BY DEF LengthAndBytes, oa_serialize_int
<1> HIDE DEF h
<1>3. PutTo(x, b, h)
  BY <1>1, PutFacts
<1>4. CASE x.rc < 0 \/ x.bad
  <2>1. r = x /\ r.b.null
    BY <1>2, <1>3, <1>4 DEF PutTo
  <2> QED
    BY <1>3, <2>1 DEF PutTo
<1>5. CASE ~(x.rc < 0 \/ x.bad)
  <2>1. x.rc = 0
    BY <1>3, <1>5 DEF PutTo, ENOMEM
  <2>2. Sound(x.b) /\ x.b.bytes = b.bytes \o h /\ r \in PutBytes(x.b, v)
    BY <1>2, <1>3, <1>5, <2>1 DEF PutTo
  <2>3. PutTo(r, x.b, v)
    BY <2>2, PutFacts
  <2>4. (b.bytes \o h) \o v = b.bytes \o (h \o v)
    <3> DEFINE p == b.bytes
    <3>1. p \in Seq(Byte)
      BY DEF Sound, Buffers
    <3> HIDE DEF p
    <3>2. (p \o h) \o v = p \o (h \o v)
      BY <1>1, <3>1, ConcatAssociative
    <3> QED
      BY <3>2 DEF p
  <2> QED
    BY <2>2, <2>3, <2>4 DEF PutTo, h
<1> QED
  BY <1>4, <1>5

LEMMA SerializeFacts ==
  ASSUME NEW b, Sound(b), NEW f \in Fields, NEW r \in Serialize(b, f)
  PROVE  FieldTo(r, b, f)
<1> DEFINE s == Encoded(f)
<1>0. /\ s \in Seq(Byte)
      /\ f.type = "int"  => s = htonl(f.value[1])
      /\ f.type = "long" => s = htonll(f.value[1])
      /\ f.type = "bool" => s = f.value
      /\ f.type \in {"buffer", "string"} =>
           /\ f.value = Null => s = htonl(-1)
           /\ f.value # Null => s = htonl(Len(f.value)) \o f.value
  BY EncodedFacts
<1> HIDE DEF s
<1>1. ASSUME r \in PutBytes(b, s) PROVE FieldTo(r, b, f)
  BY <1>0, <1>1, PutFacts DEF PutTo, FieldTo, s
<1>2. CASE f.type = "int"
  BY <1>0, <1>1, <1>2 DEF Serialize, oa_serialize_int
<1>3. CASE f.type = "long"
  BY <1>0, <1>1, <1>3 DEF Serialize, oa_serialize_long
<1>4. CASE f.type = "bool" /\ f.value \in {<<0>>, <<1>>}
  <2>1. <<IF f.value[1] = 0 THEN 0 ELSE 1>> = f.value
    BY <1>4
  <2>2. r \in oa_serialize_bool(b, f.value[1])
    BY <1>4 DEF Serialize
  <2> QED
    BY <1>0, <1>1, <1>4, <2>1, <2>2 DEF oa_serialize_bool
<1>5. CASE f.type = "buffer" /\ f.value = Null
  BY <1>0, <1>1, <1>5 DEF Serialize, oa_serialize_buffer, oa_serialize_int
<1>6. CASE f.type = "string" /\ f.value = Null
  <2>1. r \in {[x EXCEPT !.rc = 0] : x \in PutBytes(b, s)}
    BY <1>0, <1>6 DEF Serialize, oa_serialize_string, oa_serialize_int
  <2>2. PICK x \in PutBytes(b, s) : r = [x EXCEPT !.rc = 0]
    BY <2>1
  <2>3. PutTo(x, b, s)
    BY <1>0, PutFacts
  <2>4. r.b = x.b /\ r.rc = 0 /\ r.bad = x.bad
    BY <2>2, <2>3 DEF PutTo
  <2> QED
    BY <2>3, <2>4 DEF PutTo, FieldTo, s
<1>7. CASE f.type \in {"buffer", "string"} /\ f.value \in Seq(Byte) /\ Len(f.value) \in Int32
  <2>1. f.value # Null
    BY <1>7, NullIsNoString
  <2>2. r \in LengthAndBytes(b, f.value)
    BY <1>7, <2>1 DEF Serialize, oa_serialize_buffer, oa_serialize_string
  <2>3. s = htonl(Len(f.value)) \o f.value
    BY <1>0, <1>7, <2>1
  <2> QED
    BY <1>7, <2>2, <2>3, LengthAndBytesFacts DEF FieldTo, s
<1> QED
  BY <1>2, <1>3, <1>4, <1>5, <1>6, <1>7, FieldKinds

-----------------------------------------------------------------------------
(* The archive: reading *)

\* The message m has the bytes s after off, as far as it goes.
Cut(m, off, s) == \A j \in 1..Len(s) : off + j <= Len(m) => m[off + j] = s[j]

LEMMA CutConcat ==
  ASSUME NEW m \in Seq(Byte), NEW off \in Nat, NEW a \in Seq(Byte), NEW b \in Seq(Byte),
         Cut(m, off, a \o b)
  PROVE  Cut(m, off, a) /\ Cut(m, off + Len(a), b)
<1> DEFINE s == a \o b
<1>1. /\ s \in Seq(Byte) /\ Len(s) = Len(a) + Len(b)
      /\ \A i \in 1..Len(a) : s[i] = a[i]
      /\ \A i \in Len(a) + 1..Len(a) + Len(b) : s[i] = b[i - Len(a)]
  BY ConcatIs, ZenonT(20)
<1>2. \A j \in 1..Len(s) : off + j <= Len(m) => m[off + j] = s[j]
  BY DEF Cut
<1> HIDE DEF s
<1>3. ASSUME NEW j \in 1..Len(a), off + j <= Len(m) PROVE m[off + j] = a[j]
  <2>1. j \in 1..Len(s)
    BY <1>1
  <2> QED
    BY <1>1, <1>2, <1>3, <2>1
<1>4. ASSUME NEW j \in 1..Len(b), (off + Len(a)) + j <= Len(m) PROVE m[(off + Len(a)) + j] = b[j]
  <2> DEFINE k == Len(a) + j
  <2>1. k \in 1..Len(s) /\ k \in Len(a) + 1..Len(a) + Len(b) /\ k - Len(a) = j
        /\ off + k = (off + Len(a)) + j
    BY <1>1
  <2> HIDE DEF k
  <2>2. m[off + k] = s[k] /\ s[k] = b[k - Len(a)]
    BY <1>1, <1>2, <1>4, <2>1
  <2> QED
    BY <2>1, <2>2
<1> QED
  BY <1>3, <1>4 DEF Cut

\* What is taken from a message is what it has there.
LEMMA TakenIs ==
  ASSUME NEW m \in Seq(Byte), NEW off \in Nat, NEW s \in Seq(Byte),
         off + Len(s) <= Len(m), Cut(m, off, s)
  PROVE  SubSeq(m, off + 1, off + Len(s)) = s
<1> DEFINE t == SubSeq(m, off + 1, off + Len(s))
<1>1. t \in Seq(Byte) /\ Len(t) = Len(s) /\ \A j \in 1..Len(s) : t[j] = m[off + j]
  OBVIOUS
<1>2. \A j \in 1..Len(s) : off + j <= Len(m)
  OBVIOUS
<1>3. \A j \in 1..Len(s) : m[off + j] = s[j]
  BY <1>2 DEF Cut
<1> HIDE DEF t
<1>4. \A j \in 1..Len(s) : t[j] = s[j]
  BY <1>1, <1>3
<1>5. t = s
  <2>1. t = [j \in 1..Len(s) |-> t[j]] /\ s = [j \in 1..Len(s) |-> s[j]]
    BY <1>1
  <2> QED
    BY <1>4, <2>1
<1> QED
  BY <1>5 DEF t

LEMMA IntRead ==
  ASSUME ia.buffer \in Seq(Byte), NEW off \in Nat, off <= Len(ia.buffer), NEW i \in Int32,
         Cut(ia.buffer, off, htonl(i))
  PROVE  ia_deserialize_int(off) = IF off + 4 <= Len(ia.buffer)
                                   THEN [off |-> off + 4, rc |-> 0, value |-> <<i>>]
                                   ELSE Refused(off, E2BIG)
<1> DEFINE h == htonl(i)
           m == ia.buffer
<1>1. h \in Seq(Byte) /\ Len(h) = 4 /\ ntohl(h) = i
  BY IntRoundTrip
<1>2. m \in Seq(Byte) /\ off <= Len(m) /\ Cut(m, off, h)
  OBVIOUS
<1> HIDE DEF h
<1>3. off + 4 <= Len(m) => Taken(off, 4) = h
  <2> HIDE DEF m
  <2>1. ASSUME off + 4 <= Len(m) PROVE SubSeq(m, off + 1, off + 4) = h
    BY <1>1, <1>2, <2>1, TakenIs
  <2> QED
    BY <2>1 DEF Taken, m
<1>4. Left(off) < 4 <=> ~(off + 4 <= Len(m))
  BY <1>2 DEF Left
<1> HIDE DEF m
<1> QED
  BY <1>1, <1>3, <1>4 DEF ia_deserialize_int, m

LEMMA LongRead ==
  ASSUME ia.buffer \in Seq(Byte), NEW off \in Nat, off <= Len(ia.buffer),
         NEW v \in Int, HighWord(v) \in Int32, Cut(ia.buffer, off, htonll(v))
  PROVE  ia_deserialize_long(off) = IF off + 8 <= Len(ia.buffer)
                                    THEN [off |-> off + 8, rc |-> 0, value |-> <<v>>]
                                    ELSE Refused(off, E2BIG)
<1> DEFINE h == htonll(v)
           m == ia.buffer
<1>1. h \in Seq(Byte) /\ Len(h) = 8 /\ ntohll(h) = v
  BY LongRoundTrip
<1>2. m \in Seq(Byte) /\ off <= Len(m) /\ Cut(m, off, h)
  OBVIOUS
<1> HIDE DEF h
<1>3. off + 8 <= Len(m) => Taken(off, 8) = h
  <2> HIDE DEF m
  <2>1. ASSUME off + 8 <= Len(m) PROVE SubSeq(m, off + 1, off + 8) = h
    BY <1>1, <1>2, <2>1, TakenIs
  <2> QED
    BY <2>1 DEF Taken, m
<1>4. Left(off) < 8 <=> ~(off + 8 <= Len(m))
  BY <1>2 DEF Left
<1> HIDE DEF m
<1> QED
  BY <1>1, <1>3, <1>4 DEF ia_deserialize_long, m

\* The outcome of reading the field f, of n bytes, from a message of len bytes.
FieldFrom(r, off, f, n, len) ==
  /\ r.rc = IF off + n > len THEN -E2BIG ELSE IF NullString(f) THEN -EINVAL ELSE 0
  /\ r.rc = 0 => r.off = off + n /\ r.value = f.value

\* A field that is there is read as it was written; one that is cut off is refused.
LEMMA DeserializeFacts ==
  ASSUME ia.buffer \in Seq(Byte), NEW off \in Nat, off <= Len(ia.buffer), NEW f \in Fields,
         Cut(ia.buffer, off, Encoded(f))
  PROVE  FieldFrom(Deserialize(f.type, off), off, f, Len(Encoded(f)), Len(ia.buffer))
<1> DEFINE s == Encoded(f)
           m == ia.buffer
           r == Deserialize(f.type, off)
<1>0. /\ s \in Seq(Byte)
      /\ f.type = "int"  => s = htonl(f.value[1])
      /\ f.type = "long" => s = htonll(f.value[1])
      /\ f.type = "bool" => s = f.value
      /\ f.type \in {"buffer", "string"} =>
           /\ f.value = Null => s = htonl(-1)
           /\ f.value # Null => s = htonl(Len(f.value)) \o f.value
  BY EncodedFacts
<1>m. m \in Seq(Byte) /\ off <= Len(m) /\ Len(m) \in Nat
  OBVIOUS
<1>c. Cut(m, off, s)
  OBVIOUS
<1> HIDE DEF s
<1> USE DEF E2BIG, EINVAL
<1>2. CASE f.type = "int" /\ f.value = <<f.value[1]>> /\ f.value[1] \in Int32
  <2>1. Len(s) = 4
    BY <1>0, <1>2, IntRoundTrip
  <2>2. r = IF off + 4 <= Len(m) THEN [off |-> off + 4, rc |-> 0, value |-> f.value]
            ELSE Refused(off, E2BIG)
    <3>1. ia_deserialize_int(off) = IF off + 4 <= Len(m)
                                   THEN [off |-> off + 4, rc |-> 0, value |-> <<f.value[1]>>]
                                   ELSE Refused(off, E2BIG)
      BY <1>0, <1>2, <1>c, IntRead
    <3> QED
      BY <1>2, <3>1 DEF Deserialize
  <2> HIDE DEF r, m
  <2>3. FieldFrom(r, off, f, Len(s), Len(m))
    BY <1>2, <1>m, <2>1, <2>2 DEF FieldFrom, Refused, NullString
  <2> QED
    BY <2>3 DEF r, s, m
<1>3. CASE f.type = "long" /\ f.value = <<f.value[1]>> /\ f.value[1] \in Int
           /\ HighWord(f.value[1]) \in Int32
  <2>1. Len(s) = 8
    BY <1>0, <1>3, LongRoundTrip
  <2>2. r = IF off + 8 <= Len(m) THEN [off |-> off + 8, rc |-> 0, value |-> f.value]
            ELSE Refused(off, E2BIG)
    <3>1. ia_deserialize_long(off) = IF off + 8 <= Len(m)
                                    THEN [off |-> off + 8, rc |-> 0, value |-> <<f.value[1]>>]
                                    ELSE Refused(off, E2BIG)
      BY <1>0, <1>3, <1>c, LongRead
    <3> QED
      BY <1>3, <3>1 DEF Deserialize
  <2> HIDE DEF r, m
  <2>3. FieldFrom(r, off, f, Len(s), Len(m))
    BY <1>3, <1>m, <2>1, <2>2 DEF FieldFrom, Refused, NullString
  <2> QED
    BY <2>3 DEF r, s, m
<1>4. CASE f.type = "bool" /\ f.value \in {<<0>>, <<1>>}
  <2>1. Len(s) = 1 /\ s = f.value
    BY <1>0, <1>4
  <2>2. off + 1 <= Len(m) => Taken(off, 1) = s
    <3> HIDE DEF m
    <3>1. ASSUME off + 1 <= Len(m) PROVE SubSeq(m, off + 1, off + 1) = s
      <4>1. off + Len(s) <= Len(m)
        BY <2>1, <3>1
      <4>2. SubSeq(m, off + 1, off + Len(s)) = s
        BY <1>0, <1>m, <1>c, <4>1, TakenIs
      <4> QED
        BY <2>1, <4>2
    <3> QED
      BY <3>1 DEF Taken, m
  <2>3. Left(off) < 1 <=> ~(off + 1 <= Len(m))
    BY <1>m DEF Left
  <2>4. r = IF off + 1 <= Len(m) THEN [off |-> off + 1, rc |-> 0, value |-> s]
            ELSE Refused(off, E2BIG)
    <3>1. r = ia_deserialize_bool(off)
      BY <1>4 DEF Deserialize
    <3> HIDE DEF m, r
    <3> QED
      BY <2>2, <2>3, <3>1 DEF ia_deserialize_bool
  <2> HIDE DEF r, m
  <2>5. FieldFrom(r, off, f, Len(s), Len(m))
    BY <1>4, <1>m, <2>1, <2>4 DEF FieldFrom, Refused, NullString
  <2> QED
    BY <2>5 DEF r, s, m
<1>5. CASE f.type \in {"buffer", "string"} /\ f.value = Null
  <2> DEFINE n == ia_deserialize_int(off)
  <2>0. -1 \in Int32
    BY DEF Int32
  <2>1. Len(s) = 4 /\ s = htonl(-1)
    BY <1>0, <1>5, <2>0, IntRoundTrip
  <2>2. n = IF off + 4 <= Len(m) THEN [off |-> off + 4, rc |-> 0, value |-> <<-1>>]
            ELSE Refused(off, E2BIG)
    BY <1>c, <2>0, <2>1, IntRead
  <2>3. r = IF f.type = "buffer" THEN ia_deserialize_buffer(off) ELSE ia_deserialize_string(off)
    BY <1>5 DEF Deserialize
  <2> HIDE DEF r, n
  <2>4. CASE ~(off + 4 <= Len(m))
    <3>1. n.rc = -E2BIG /\ n.rc < 0
      BY <2>2, <2>4 DEF Refused
    <3>2. r = n
      BY <2>3, <3>1 DEF ia_deserialize_buffer, ia_deserialize_string, n
    <3> HIDE DEF m
    <3>3. FieldFrom(r, off, f, Len(s), Len(m))
      BY <1>m, <2>1, <2>4, <3>1, <3>2 DEF FieldFrom
    <3> QED
      BY <3>3 DEF r, s, m
  <2>5. CASE off + 4 <= Len(m)
    <3>1. n.rc = 0 /\ n.off = off + 4 /\ n.value[1] = -1 /\ n = [off |-> off + 4, rc |-> 0, value |-> <<-1>>]
      BY <2>2, <2>5
    <3>2. ~(n.rc < 0) /\ ~(Left(n.off) < n.value[1])
      BY <1>m, <2>5, <3>1 DEF Left
    <3>3. r = IF f.type = "buffer" THEN [n EXCEPT !.value = Null] ELSE Refused(n.off, EINVAL)
      BY <2>3, <3>1, <3>2 DEF ia_deserialize_buffer, ia_deserialize_string, n
    <3>4. f.type = "buffer" => r.rc = 0 /\ r.off = off + 4 /\ r.value = Null
      BY <3>1, <3>3
    <3>5. f.type = "string" => r.rc = -EINVAL
      BY <3>1, <3>3 DEF Refused
    <3> HIDE DEF m
    <3>6. FieldFrom(r, off, f, Len(s), Len(m))
      BY <1>m, <1>5, <2>1, <2>5, <3>4, <3>5 DEF FieldFrom, NullString
    <3> QED
      BY <3>6 DEF r, s, m
  <2> QED
    BY <2>4, <2>5
<1>6. CASE f.type \in {"buffer", "string"} /\ f.value \in Seq(Byte) /\ Len(f.value) \in Int32
  <2> DEFINE n == ia_deserialize_int(off)
             v == f.value
             h == htonl(Len(v))
             k == Len(v)
  <2>1. v # Null /\ s = h \o v /\ h \in Seq(Byte) /\ Len(h) = 4 /\ v \in Seq(Byte) /\ k \in Nat
    <3>1. v # Null
      BY <1>6, NullIsNoString
    <3>2. h \in Seq(Byte) /\ Len(h) = 4
      BY <1>6, IntRoundTrip
    <3>3. s = h \o v
      BY <1>0, <1>6, <3>1
    <3>4. v \in Seq(Byte) /\ k \in Nat
      <4>1. v \in Seq(Byte)
        BY <1>6
      <4> HIDE DEF v
      <4> QED
        BY <4>1
    <3> HIDE DEF h, v, k
    <3> QED
      BY <3>1, <3>2, <3>3, <3>4
  <2>2. Cut(m, off, h) /\ Cut(m, off + 4, v) /\ Len(s) = 4 + k
    <3> HIDE DEF m, v, h
    <3>1. Cut(m, off, h) /\ Cut(m, off + Len(h), v)
      BY <1>m, <1>c, <2>1, CutConcat
    <3>2. Len(h \o v) = Len(h) + Len(v)
      BY <2>1, ConcatIs
    <3> QED
      BY <2>1, <3>1, <3>2 DEF k
  <2>3. n = IF off + 4 <= Len(m) THEN [off |-> off + 4, rc |-> 0, value |-> <<k>>]
            ELSE Refused(off, E2BIG)
    BY <1>6, <2>2, IntRead
  <2>4. r = IF f.type = "buffer" THEN ia_deserialize_buffer(off) ELSE ia_deserialize_string(off)
    BY <1>6 DEF Deserialize
  <2>5. ~NullString(f)
    BY <2>1 DEF NullString
  <2> HIDE DEF r, n, k
  <2>6. CASE ~(off + 4 <= Len(m))
    <3>1. n.rc = -E2BIG /\ n.rc < 0
      BY <2>3, <2>6 DEF Refused
    <3>2. r = n
      BY <2>4, <3>1 DEF ia_deserialize_buffer, ia_deserialize_string, n
    <3> HIDE DEF m
    <3>3. FieldFrom(r, off, f, Len(s), Len(m))
      BY <1>m, <2>1, <2>2, <2>6, <3>1, <3>2 DEF FieldFrom
    <3> QED
      BY <3>3 DEF r, s, m
  <2>7. CASE off + 4 <= Len(m)
    <3>1. n.rc = 0 /\ n.off = off + 4 /\ n.value[1] = k
      BY <2>3, <2>7
    <3>2. Left(n.off) < k <=> off + (4 + k) > Len(m)
      BY <1>m, <2>1, <2>7, <3>1 DEF Left
    <3>3. r = IF Left(n.off) < k THEN Refused(n.off, E2BIG)
              ELSE [off |-> n.off + k, rc |-> 0, value |-> Taken(n.off, k)]
      BY <2>1, <2>4, <3>1 DEF ia_deserialize_buffer, ia_deserialize_string, n
    <3>4. ~(off + (4 + k) > Len(m)) => Taken(n.off, k) = v
      <4> HIDE DEF m, v
      <4>1. ASSUME ~(off + (4 + k) > Len(m)) PROVE SubSeq(m, (off + 4) + 1, (off + 4) + k) = v
        <5>1. off + 4 \in Nat /\ (off + 4) + Len(v) <= Len(m)
          BY <1>m, <2>1, <4>1 DEF k
        <5> QED
          BY <1>m, <2>1, <2>2, <5>1, TakenIs DEF k
      <4> QED
        BY <3>1, <4>1 DEF Taken, m
    <3>5. CASE off + (4 + k) > Len(m)
      <4>1. r.rc = -E2BIG /\ -E2BIG # 0
        BY <3>2, <3>3, <3>5 DEF Refused
      <4> HIDE DEF m
      <4>2. FieldFrom(r, off, f, Len(s), Len(m))
        BY <2>2, <3>5, <4>1 DEF FieldFrom
      <4> QED
        BY <4>2 DEF r, s, m
    <3>6. CASE ~(off + (4 + k) > Len(m))
      <4>1. r.rc = 0 /\ r.off = off + (4 + k) /\ r.value = v
        BY <2>1, <3>1, <3>2, <3>3, <3>4, <3>6
      <4> HIDE DEF m
      <4>2. FieldFrom(r, off, f, Len(s), Len(m))
        BY <2>2, <2>5, <3>6, <4>1 DEF FieldFrom
      <4> QED
        BY <4>2 DEF r, s, m
    <3> QED
      BY <3>5, <3>6
  <2> QED
    BY <2>6, <2>7
<1> QED
  BY <1>2, <1>3, <1>4, <1>5, <1>6, FieldKinds

-----------------------------------------------------------------------------
(* The archive: its invariant *)

\* The bytes b are those of the fields w, one after the other: field i ends at e[i].
Laid(b, w, e) ==
  /\ e \in [0..Len(w) -> Nat] /\ e[0] = 0 /\ e[Len(w)] = Len(b)
  /\ \A i \in 1..Len(w) : e[i] = e[i - 1] + Len(Encoded(w[i])) /\ e[i] <= Len(b)
  /\ \A i \in 1..Len(w) : \A j \in 1..Len(Encoded(w[i])) : b[e[i - 1] + j] = Encoded(w[i])[j]

WrittenInv ==
  /\ Sound(oa) /\ written \in Seq(Fields) /\ ignored \in BOOLEAN
  /\ stage \in {"writing", "reading", "done", "crashed"}
  /\ stage = "crashed" => ignored

\* While nothing has failed, the buffer holds the fields.
WritingInv ==
  (stage = "writing" /\ rc = 0 /\ ~ignored) =>
    ~oa.null /\ got = <<>> /\ \E e : Laid(oa.bytes, written, e)

\* The first fields of the message were read, and the next starts where they end.
ReadingInv ==
  (stage = "reading" /\ ~ignored) =>
    /\ ia \in [buffer : Seq(Byte), off : Nat] /\ Len(ia.buffer) <= Len(oa.bytes)
    /\ \A j \in 1..Len(ia.buffer) : ia.buffer[j] = oa.bytes[j]
    /\ rc = 0 /\ got \in Seq(Fields) /\ Len(got) <= Len(written)
    /\ \A i \in 1..Len(got) : got[i] = written[i]
    /\ \E e : Laid(oa.bytes, written, e) /\ ia.off = e[Len(got)] /\ ia.off <= Len(ia.buffer)

DoneInv == (stage = "done" /\ ~ignored) => RecordsRoundTrip

ArchiveInv == WrittenInv /\ WritingInv /\ ReadingInv /\ DoneInv

\* A field more.
LEMMA LaidGrows ==
  ASSUME NEW b \in Seq(Byte), NEW w \in Seq(Fields), NEW e, Laid(b, w, e), NEW f \in Fields
  PROVE  \E z : Laid(b \o Encoded(f), Append(w, f), z)
<1> DEFINE s == Encoded(f)
           n == Len(w)
           B == b \o s
           W == Append(w, f)
           z == [i \in 0..n + 1 |-> IF i = n + 1 THEN Len(b) + Len(s) ELSE e[i]]
<1>1. s \in Seq(Byte) /\ n \in Nat /\ Len(b) \in Nat /\ Len(s) \in Nat
  <2>1. s \in Seq(Byte)
    BY EncodedFacts
  <2>2. n \in Nat /\ Len(b) \in Nat
    OBVIOUS
  <2> HIDE DEF s, n
  <2>3. Len(s) \in Nat
    BY <2>1
  <2> QED
    BY <2>1, <2>2, <2>3
<1>2. /\ B \in Seq(Byte) /\ Len(B) = Len(b) + Len(s)
      /\ \A i \in 1..Len(b) : B[i] = b[i]
      /\ \A i \in Len(b) + 1..Len(b) + Len(s) : B[i] = s[i - Len(b)]
  <2> HIDE DEF s
  <2> QED
    BY <1>1, ConcatIs, ZenonT(20)
<1>3. W \in Seq(Fields) /\ Len(W) = n + 1 /\ W[n + 1] = f /\ \A i \in 1..n : W[i] = w[i]
  OBVIOUS
<1>4. /\ e \in [0..n -> Nat] /\ e[0] = 0 /\ e[n] = Len(b)
      /\ \A i \in 1..n : e[i] = e[i - 1] + Len(Encoded(w[i])) /\ e[i] <= Len(b)
      /\ \A i \in 1..n : \A j \in 1..Len(Encoded(w[i])) : b[e[i - 1] + j] = Encoded(w[i])[j]
  BY DEF Laid
<1>5. /\ z[n + 1] = Len(b) + Len(s)
      /\ \A i \in 0..n : z[i] = e[i] /\ e[i] \in Nat
      /\ z \in [0..n + 1 -> Nat]
  <2> HIDE DEF s, n
  <2>1. z[n + 1] = Len(b) + Len(s)
    BY <1>1
  <2>2. ASSUME NEW i \in 0..n PROVE z[i] = e[i] /\ e[i] \in Nat
    <3>1. i \in 0..n + 1 /\ i # n + 1
      BY <1>1
    <3> QED
      BY <1>4, <3>1
  <2>3. ASSUME NEW i \in 0..n + 1 PROVE z[i] \in Nat
    <3>1. i = n + 1 \/ i \in 0..n
      BY <1>1
    <3> HIDE DEF z
    <3> QED
      BY <1>1, <2>1, <2>2, <3>1
  <2> QED
    BY <2>1, <2>2, <2>3
<1>6. s = Encoded(f)
  OBVIOUS
<1> HIDE DEF s, B, W, z, n
<1>7. z[0] = 0 /\ z[Len(W)] = Len(B)
  BY <1>1, <1>2, <1>3, <1>4, <1>5
<1>8. ASSUME NEW i \in 1..Len(W)
      PROVE  /\ z[i] = z[i - 1] + Len(Encoded(W[i])) /\ z[i] <= Len(B)
             /\ \A j \in 1..Len(Encoded(W[i])) : B[z[i - 1] + j] = Encoded(W[i])[j]
  <2>1. CASE i = n + 1
    <3>1. W[i] = f /\ z[i - 1] = Len(b) /\ z[i] = Len(b) + Len(s)
      BY <1>1, <1>3, <1>4, <1>5, <2>1
    <3>2. ASSUME NEW j \in 1..Len(s) PROVE B[Len(b) + j] = s[j]
      <4>1. Len(b) + j \in Len(b) + 1..Len(b) + Len(s) /\ (Len(b) + j) - Len(b) = j
        BY <1>1
      <4> QED
        BY <1>2, <4>1
    <3> QED
      BY <1>1, <1>2, <1>6, <3>1, <3>2
  <2>2. CASE i \in 1..n
    <3> DEFINE c == Encoded(w[i])
    <3>1. W[i] = w[i] /\ i \in 0..n /\ i - 1 \in 0..n /\ w[i] \in Fields
      BY <1>1, <1>3, <2>2 DEF n
    <3>2. z[i] = e[i] /\ z[i - 1] = e[i - 1] /\ e[i] \in Nat /\ e[i - 1] \in Nat
      BY <1>5, <3>1
    <3>3. Len(c) \in Nat
      BY <3>1, EncodedFacts
    <3>4. e[i] = e[i - 1] + Len(c) /\ e[i] <= Len(b)
      BY <1>4, <2>2
    <3>5. \A j \in 1..Len(c) : b[e[i - 1] + j] = c[j]
      BY <1>4, <2>2
    <3>6. c = Encoded(W[i])
      BY <3>1
    <3> HIDE DEF c
    <3>7. ASSUME NEW j \in 1..Len(c) PROVE B[e[i - 1] + j] = c[j]
      <4>1. e[i - 1] + j \in 1..Len(b)
        BY <1>1, <3>2, <3>3, <3>4
      <4> QED
        BY <1>2, <3>5, <4>1
    <3>8. z[i] = z[i - 1] + Len(c) /\ z[i] <= Len(B)
      BY <1>1, <1>2, <3>2, <3>3, <3>4
    <3> QED
      BY <3>2, <3>6, <3>7, <3>8
  <2> QED
    BY <1>1, <1>3, <2>1, <2>2
<1>9. Laid(B, W, z)
  BY <1>1, <1>3, <1>5, <1>7, <1>8 DEF Laid
<1> QED
  BY <1>9 DEF B, W, s

LEMMA ArchiveStart == RecordsInit => ArchiveInv
<1> SUFFICES ASSUME RecordsInit PROVE ArchiveInv
  OBVIOUS
<1> USE DEF RecordsInit
<1>1. oa = [len |-> InitialLen, off |-> 0, bytes |-> <<>>, null |-> FALSE] /\ InitialLen \in Nat \ {0}
  BY RecordsAssumption DEF create_buffer_oarchive
<1>2. Sound(oa) /\ oa.bytes = <<>> /\ ~oa.null
  BY <1>1 DEF Sound, Buffers
<1>3. Laid(<<>>, <<>>, [i \in 0..0 |-> 0])
  BY DEF Laid
<1>4. WrittenInv
  <2>1. written \in Seq(Fields)
    OBVIOUS
  <2> QED
    BY <1>2, <2>1 DEF WrittenInv
<1>5. WritingInv
  BY <1>2, <1>3 DEF WritingInv
<1> QED
  BY <1>4, <1>5 DEF ArchiveInv, ReadingInv, DoneInv

LEMMA WriteKeeps == ArchiveInv /\ Write => ArchiveInv'
<1> SUFFICES ASSUME ArchiveInv, Write PROVE ArchiveInv'
  OBVIOUS
<1>1. /\ stage = "writing" /\ rc = 0 /\ UNCHANGED <<ia, got>> /\ Sound(oa)
      /\ written \in Seq(Fields) /\ ignored \in BOOLEAN
  BY DEF Write, ArchiveInv, WrittenInv
<1>2. PICK f \in Fields, r \in UNION {Serialize(oa, g) : g \in Fields} :
        /\ r \in Serialize(oa, f)
        /\ oa' = r.b /\ rc' = r.rc
        /\ written' = IF r.rc = 0 THEN Append(written, f) ELSE written
        /\ ignored' = (ignored \/ (r.b.null /\ r.rc = 0))
        /\ stage' = IF r.bad THEN "crashed" ELSE "writing"
  BY DEF Write
<1>3. FieldTo(r, oa, f)
  BY <1>1, <1>2, SerializeFacts
<1>4. /\ Sound(r.b) /\ r.rc \in {0, -ENOMEM} /\ r.bad \in BOOLEAN
      /\ r.bad => r.rc = 0 /\ r.b.null
      /\ r.rc = 0 /\ ~r.b.null => r.b.bytes = oa.bytes \o Encoded(f)
  BY <1>3 DEF FieldTo
<1>5. r.b.null \in BOOLEAN /\ oa.bytes \in Seq(Byte)
  BY <1>1, <1>4 DEF Sound, Buffers
<1>6. written' \in Seq(Fields)
  BY <1>1, <1>2
<1>7. ignored' \in BOOLEAN
  BY <1>1, <1>2, <1>5
<1>8. stage' \in {"writing", "crashed"} /\ (stage' = "crashed" => ignored')
  BY <1>2, <1>4
<1>9. WrittenInv'
  BY <1>2, <1>4, <1>6, <1>7, <1>8 DEF WrittenInv
<1>10. ASSUME rc' = 0, ~ignored'
       PROVE  ~oa'.null /\ got' = <<>> /\ \E e : Laid(oa'.bytes, written', e)
  <2>1. r.rc = 0 /\ ~r.b.null /\ ~ignored
    BY <1>2, <1>10
  <2>2. written' = Append(written, f) /\ oa'.bytes = oa.bytes \o Encoded(f) /\ ~oa'.null
    BY <1>2, <1>4, <2>1
  <2>3. got = <<>> /\ \E e : Laid(oa.bytes, written, e)
    BY <1>1, <2>1 DEF ArchiveInv, WritingInv
  <2>4. PICK e : Laid(oa.bytes, written, e)
    BY <2>3
  <2>5. \E z : Laid(oa.bytes \o Encoded(f), Append(written, f), z)
    BY <1>1, <1>5, <2>4, LaidGrows
  <2> QED
    BY <1>1, <2>2, <2>3, <2>5
<1>11. WritingInv'
  BY <1>10 DEF WritingInv
<1> QED
  BY <1>8, <1>9, <1>11 DEF ArchiveInv, ReadingInv, DoneInv

LEMMA SendKeeps == ArchiveInv /\ create_buffer_iarchive => ArchiveInv'
<1> SUFFICES ASSUME ArchiveInv, create_buffer_iarchive PROVE ArchiveInv'
  OBVIOUS
<1>1. /\ stage = "writing" /\ rc = 0 /\ stage' = "reading" /\ Sound(oa)
      /\ UNCHANGED <<oa, rc, written, ignored, got>>
  BY DEF create_buffer_iarchive, ArchiveInv, WrittenInv
<1>2. PICK len \in 0..oa.off : ia' = [buffer |-> SubSeq(oa.bytes, 1, len), off |-> 0]
  BY DEF create_buffer_iarchive
<1>3. oa.bytes \in Seq(Byte) /\ oa.off = Len(oa.bytes)
  BY <1>1 DEF Sound, Buffers
<1> DEFINE b == oa.bytes
           m == SubSeq(b, 1, len)
<1>4. b \in Seq(Byte) /\ len \in 0..Len(b)
  BY <1>3
<1>5. ia'.buffer = m /\ ia'.off = 0 /\ ia' = [buffer |-> m, off |-> 0]
  BY <1>2
<1>6. m \in Seq(Byte) /\ Len(m) = len /\ \A j \in 1..len : m[j] = b[j]
  <2> HIDE DEF b
  <2> QED
    BY <1>4
<1>7. WrittenInv'
  BY <1>1 DEF ArchiveInv, WrittenInv
<1>8. ASSUME ~ignored'
      PROVE  got = <<>> /\ \E e : Laid(b, written, e)
  BY <1>1, <1>8 DEF ArchiveInv, WritingInv
<1>9. ASSUME NEW e, Laid(b, written, e) PROVE e[0] = 0
  BY <1>9 DEF Laid
<1>10. written \in Seq(Fields)
  BY DEF ArchiveInv, WrittenInv
<1>11. b = oa'.bytes
  BY <1>1
<1> HIDE DEF b, m
<1>12. ASSUME ~ignored'
       PROVE  /\ ia' \in [buffer : Seq(Byte), off : Nat] /\ Len(ia'.buffer) <= Len(b)
              /\ \A j \in 1..Len(ia'.buffer) : ia'.buffer[j] = b[j]
              /\ rc' = 0 /\ got' \in Seq(Fields) /\ Len(got') <= Len(written')
              /\ \A i \in 1..Len(got') : got'[i] = written'[i]
              /\ \E e : Laid(b, written', e) /\ ia'.off = e[Len(got')] /\ ia'.off <= Len(ia'.buffer)
  <2>1. PICK e : Laid(b, written, e)
    BY <1>8, <1>12
  <2>2. got' = <<>> /\ Len(got') = 0 /\ e[0] = 0 /\ written' = written /\ rc' = 0
    BY <1>1, <1>8, <1>9, <1>12, <2>1
  <2>3. ia'.off = e[Len(got')] /\ ia'.off <= Len(ia'.buffer)
    BY <1>4, <1>5, <1>6, <2>2
  <2>4. ia' \in [buffer : Seq(Byte), off : Nat] /\ Len(ia'.buffer) <= Len(b)
    BY <1>4, <1>5, <1>6
  <2>5. \A j \in 1..Len(ia'.buffer) : ia'.buffer[j] = b[j]
    BY <1>5, <1>6
  <2>6. got' \in Seq(Fields) /\ Len(got') <= Len(written') /\ \A i \in 1..Len(got') : got'[i] = written'[i]
    BY <1>10, <2>2
  <2> QED
    BY <2>1, <2>2, <2>3, <2>4, <2>5, <2>6
<1>13. ReadingInv'
  BY <1>11, <1>12 DEF ReadingInv
<1> QED
  BY <1>1, <1>7, <1>13 DEF ArchiveInv, WritingInv, DoneInv

\* One field is read, or none is left.
LEMMA ReadKeeps == ArchiveInv /\ ReadField => ArchiveInv'
<1> SUFFICES ASSUME ArchiveInv, ReadField PROVE ArchiveInv'
  OBVIOUS
<1>1. /\ stage = "reading" /\ UNCHANGED <<oa, written, ignored>> /\ Sound(oa)
      /\ written \in Seq(Fields) /\ ignored \in BOOLEAN /\ stage' \in {"reading", "done"}
  BY DEF ReadField, ArchiveInv, WrittenInv
<1>2. WrittenInv'
  BY <1>1 DEF ArchiveInv, WrittenInv
<1>3. WritingInv'
  BY <1>1 DEF WritingInv
<1>4. CASE ignored
  BY <1>1, <1>2, <1>3, <1>4 DEF ArchiveInv, ReadingInv, DoneInv
<1>5. CASE ~ignored
  <2> DEFINE n == Len(got)
             m == ia.buffer
             b == oa.bytes
  <2>1. /\ ia \in [buffer : Seq(Byte), off : Nat] /\ Len(m) <= Len(b)
        /\ \A j \in 1..Len(m) : m[j] = b[j]
        /\ rc = 0 /\ got \in Seq(Fields) /\ n <= Len(written)
        /\ \A i \in 1..n : got[i] = written[i]
        /\ \E e : Laid(b, written, e) /\ ia.off = e[n] /\ ia.off <= Len(m)
    BY <1>1, <1>5 DEF ArchiveInv, ReadingInv
  <2>2. PICK e : Laid(b, written, e) /\ ia.off = e[n] /\ ia.off <= Len(m)
    BY <2>1
  <2>3. /\ e \in [0..Len(written) -> Nat] /\ e[0] = 0 /\ e[Len(written)] = Len(b)
        /\ \A i \in 1..Len(written) : e[i] = e[i - 1] + Len(Encoded(written[i])) /\ e[i] <= Len(b)
        /\ \A i \in 1..Len(written) : \A j \in 1..Len(Encoded(written[i])) :
             b[e[i - 1] + j] = Encoded(written[i])[j]
    BY <2>2 DEF Laid
  <2>4. /\ b \in Seq(Byte) /\ oa.off = Len(b) /\ oa.off <= oa.len /\ m \in Seq(Byte)
        /\ ia.off \in Nat /\ n \in Nat /\ Len(written) \in Nat
    BY <1>1, <2>1 DEF Sound, Buffers
  <2>5. IsPrefix(got, written)
    <3>1. SubSeq(written, 1, Len(got)) = got
      BY <1>1, <2>1
    <3> QED
      BY <2>1, <3>1 DEF IsPrefix
  <2>6. oa' = oa /\ written' = written /\ ~ignored'
    BY <1>1, <1>5
  <2>7. CASE n = Len(written)
    <3>1. stage' = "done" /\ UNCHANGED <<ia, got, rc>>
      BY <2>7 DEF ReadField
    <3>2. got = written
      <4>1. got \in Seq(Fields) /\ written \in Seq(Fields) /\ Len(got) = Len(written)
        BY <1>1, <2>1, <2>7
      <4>2. \A i \in 1..Len(got) : got[i] = written[i]
        BY <2>1
      <4> QED
        BY ONLY <4>1, <4>2
    <3>3. ia.off = oa.off /\ rc = 0
      BY <2>1, <2>2, <2>3, <2>4, <2>7
    <3>4. RecordsRoundTrip'
      BY <2>4, <2>5, <2>6, <3>1, <3>2, <3>3 DEF RecordsRoundTrip
    <3> QED
      BY <1>2, <1>3, <3>1, <3>4 DEF ArchiveInv, ReadingInv, DoneInv
  <2>8. CASE n # Len(written)
    <3> DEFINE f == written[n + 1]
               off == ia.off
               s == Encoded(f)
               r == Deserialize(f.type, off)
               next == [type |-> f.type, value |-> r.value]
    <3>1. n + 1 \in 1..Len(written) /\ f \in Fields
      BY <1>1, <2>1, <2>4, <2>8
    <3>2. /\ ia' = [ia EXCEPT !.off = r.off] /\ rc' = r.rc
          /\ got' = IF r.rc < 0 THEN got ELSE Append(got, next)
          /\ stage' = IF r.rc < 0 THEN "done" ELSE "reading"
      BY <2>8 DEF ReadField
    <3>3. f = [type |-> f.type, value |-> f.value]
      BY <3>1, RecordsAssumption DEF IsField
    <3>4. s \in Seq(Byte) /\ Len(s) \in Nat
      <4>1. s \in Seq(Byte)
        BY <3>1, EncodedFacts
      <4> HIDE DEF s
      <4> QED
        BY <4>1
    <3>5. e[n + 1] = off + Len(s) /\ e[n + 1] <= Len(b) /\ \A j \in 1..Len(s) : b[off + j] = s[j]
      <4>1. (n + 1) - 1 = n
        BY <2>4
      <4>2. /\ e[n + 1] = e[(n + 1) - 1] + Len(Encoded(written[n + 1])) /\ e[n + 1] <= Len(b)
            /\ \A j \in 1..Len(Encoded(written[n + 1])) :
                 b[e[(n + 1) - 1] + j] = Encoded(written[n + 1])[j]
        BY <2>3, <3>1
      <4> QED
        BY <2>2, <4>1, <4>2
    <3>6. Cut(m, off, s)
      <4> HIDE DEF m, s, b, off
      <4>1. ASSUME NEW j \in 1..Len(s), off + j <= Len(m) PROVE m[off + j] = s[j]
        <5>1. off + j \in 1..Len(m)
          BY <2>4, <3>4, <4>1 DEF off
        <5> QED
          BY <2>1, <3>5, <5>1
      <4> QED
        BY <4>1 DEF Cut
    <3>7. FieldFrom(r, off, f, Len(s), Len(m))
      BY <2>2, <2>4, <3>1, <3>6, DeserializeFacts
    <3>8. /\ r.rc = IF off + Len(s) > Len(m) THEN -E2BIG ELSE IF NullString(f) THEN -EINVAL ELSE 0
          /\ r.rc = 0 => r.off = off + Len(s) /\ r.value = f.value
      BY <3>7 DEF FieldFrom
    <3> HIDE DEF r, s
    <3>9. CASE r.rc < 0
      <4>1. stage' = "done" /\ got' = got /\ rc' = r.rc /\ ia'.buffer = m
        BY <2>1, <3>2, <3>9
      <4>2. \/ rc' = -E2BIG /\ Len(m) < oa.off
            \/ rc' = -EINVAL /\ NullString(f)
        <5>1. r.rc # 0
          BY <3>9
        <5>2. off + Len(s) > Len(m) => Len(m) < oa.off
          <6> HIDE DEF m, b, off
          <6>1. off \in Nat /\ Len(m) \in Nat /\ Len(b) \in Nat
            BY <2>4 DEF off
          <6> QED
            BY <2>4, <3>4, <3>5, <6>1
        <5> QED
          BY <3>8, <4>1, <5>1, <5>2
      <4>3. NullString(written'[Len(got') + 1]) <=> NullString(f)
        BY <2>6, <4>1
      <4>4. RecordsRoundTrip'
        <5>1. /\ oa'.off <= oa'.len /\ IsPrefix(got', written')
              /\ \/ rc' = -E2BIG /\ Len(ia'.buffer) < oa'.off
                 \/ rc' = -EINVAL /\ NullString(written'[Len(got') + 1])
          BY <2>4, <2>5, <2>6, <4>1, <4>2, <4>3
        <5> HIDE DEF f, m
        <5> QED
          BY <4>1, <5>1 DEF RecordsRoundTrip, NullString
      <4> QED
        BY <1>2, <1>3, <4>1, <4>4 DEF ArchiveInv, ReadingInv, DoneInv
    <3>10. CASE ~(r.rc < 0)
      <4>1. r.rc = 0 /\ off + Len(s) <= Len(m)
        <5> HIDE DEF m, off
        <5>1. off \in Nat /\ Len(m) \in Nat
          BY <2>4 DEF off
        <5> QED
          BY <3>4, <3>8, <3>10, <5>1 DEF E2BIG, EINVAL
      <4>2. r.off = off + Len(s) /\ r.value = f.value /\ next = f
        BY <3>3, <3>8, <4>1
      <4>3. got' = Append(got, f) /\ stage' = "reading" /\ rc' = 0
        BY <3>2, <3>10, <4>1, <4>2
      <4>4. ia'.off = off + Len(s) /\ ia'.buffer = m /\ ia' \in [buffer : Seq(Byte), off : Nat]
        <5>1. r.off \in Nat
          BY <2>4, <3>4, <4>2
        <5> QED
          BY <2>1, <3>2, <4>2, <5>1
      <4> HIDE DEF f, next, off
      <4>5. /\ got' \in Seq(Fields) /\ Len(got') = n + 1 /\ got'[n + 1] = f
            /\ \A i \in 1..n : got'[i] = got[i]
        BY <2>1, <3>1, <4>3
      <4>6. \A i \in 1..Len(got') : got'[i] = written[i]
        <5>1. ASSUME NEW i \in 1..Len(got') PROVE got'[i] = written[i]
          <6>1. i \in 1..n \/ i = n + 1
            BY <2>4, <4>5
          <6> QED
            BY <2>1, <4>5, <6>1 DEF f
        <5> QED
          BY <5>1
      <4>7. Len(got') <= Len(written) /\ ia'.off = e[Len(got')] /\ ia'.off <= Len(ia'.buffer)
        BY <3>1, <3>5, <4>1, <4>4, <4>5
      <4>8. /\ Len(ia'.buffer) <= Len(oa'.bytes)
            /\ \A j \in 1..Len(ia'.buffer) : ia'.buffer[j] = oa'.bytes[j]
            /\ Laid(oa'.bytes, written', e)
        BY <2>1, <2>2, <2>6, <4>4
      <4>9. ReadingInv'
        BY <2>6, <4>3, <4>4, <4>5, <4>6, <4>7, <4>8 DEF ReadingInv
      <4> QED
        BY <1>2, <1>3, <4>3, <4>9 DEF ArchiveInv, DoneInv
    <3> QED
      BY <3>9, <3>10
  <2> QED
    BY <2>7, <2>8
<1> QED
  BY <1>4, <1>5

LEMMA ArchiveStutter == ArchiveInv /\ UNCHANGED recordVars => ArchiveInv'
<1> SUFFICES ASSUME ArchiveInv, UNCHANGED recordVars PROVE ArchiveInv'
  OBVIOUS
<1> USE DEF recordVars
<1>1. WrittenInv'
  BY DEF ArchiveInv, WrittenInv
<1>2. WritingInv'
  BY DEF ArchiveInv, WritingInv
<1>3. ReadingInv'
  BY DEF ArchiveInv, ReadingInv
<1>4. RecordsRoundTrip' <=> RecordsRoundTrip
  BY DEF RecordsRoundTrip
<1>5. DoneInv'
  BY <1>4 DEF ArchiveInv, DoneInv
<1> QED
  BY <1>1, <1>2, <1>3, <1>5 DEF ArchiveInv

LEMMA ArchiveGives == ArchiveInv => RecordsRoundTrip
<1> SUFFICES ASSUME ArchiveInv PROVE RecordsRoundTrip
  OBVIOUS
<1>1. oa.off <= oa.len /\ (stage = "crashed" => ignored)
  BY DEF ArchiveInv, WrittenInv, Sound
<1>2. CASE stage = "done" /\ ~ignored
  BY <1>2 DEF ArchiveInv, DoneInv
<1>3. CASE stage = "reading" /\ ~ignored
  <2>1. /\ got \in Seq(Fields) /\ written \in Seq(Fields) /\ Len(got) <= Len(written)
        /\ \A i \in 1..Len(got) : got[i] = written[i]
    BY <1>3 DEF ArchiveInv, ReadingInv, WrittenInv
  <2>2. SubSeq(written, 1, Len(got)) = got
    BY <2>1
  <2> QED
    BY <1>1, <1>3, <2>1, <2>2 DEF RecordsRoundTrip, IsPrefix
<1> QED
  BY <1>1, <1>2, <1>3 DEF RecordsRoundTrip

\* What a program writes to an archive it reads back, for every set of well-formed
\* fields, every number of them, every initial length of the buffer and every place
\* where the message may be cut off (recordio.c).
THEOREM ArchiveRoundTrip == RecordsSpec => []RecordsRoundTrip
<1>1. RecordsInit => ArchiveInv
  BY ArchiveStart
<1>2. ArchiveInv /\ [RecordsNext]_recordVars => ArchiveInv'
  BY WriteKeeps, SendKeeps, ReadKeeps, ArchiveStutter DEF RecordsNext
<1>3. ArchiveInv => RecordsRoundTrip
  BY ArchiveGives
<1> QED
  BY <1>1, <1>2, <1>3, PTL DEF RecordsSpec

-----------------------------------------------------------------------------
(* The interval tree: counting in sequences *)

\* A count is a number, and 0 for what does not occur.
LEMMA CountType ==
  ASSUME NEW S, NEW s \in Seq(S), NEW x
  PROVE  Count(s, x) \in Nat /\ (Count(s, x) = 0 <=> \A j \in 1..Len(s) : s[j] # x)
<1> DEFINE C == {j \in DOMAIN s : s[j] = x}
<1>1. DOMAIN s = 1..Len(s) /\ Len(s) \in Nat
  OBVIOUS
<1>2. C \in SUBSET (1..Len(s)) /\ IsFiniteSet(1..Len(s))
  BY <1>1, FS_Interval
<1>3. IsFiniteSet(C)
  BY ONLY <1>2, FS_Subset
<1>4. Cardinality(C) \in Nat /\ (Cardinality(C) = 0 <=> C = {})
  BY ONLY <1>3, FS_CardinalityType, FS_EmptySet
<1>5. C = {} <=> \A j \in 1..Len(s) : s[j] # x
  BY <1>1
<1>6. Count(s, x) = Cardinality(C)
  BY DEF Count
<1> HIDE DEF C
<1> QED
  BY <1>4, <1>5, <1>6

LEMMA CountAppend ==
  ASSUME NEW S, NEW s \in Seq(S), NEW e \in S, NEW x
  PROVE  Count(Append(s, e), x) = Count(s, x) + (IF e = x THEN 1 ELSE 0)
<1> DEFINE n == Len(s)
           a == Append(s, e)
           C == {j \in DOMAIN s : s[j] = x}
           D == {j \in DOMAIN a : a[j] = x}
<1>1. n \in Nat /\ DOMAIN s = 1..n
  OBVIOUS
<1>2. /\ DOMAIN a = 1..n + 1 /\ a[n + 1] = e /\ \A j \in 1..n : a[j] = s[j]
  BY <1>1, AppendIs
<1> HIDE DEF a, n
<1>3. IsFiniteSet(C) /\ Cardinality(C) \in Nat
  <2>1. C \in SUBSET (1..n) /\ IsFiniteSet(1..n)
    BY <1>1, FS_Interval
  <2> QED
    BY ONLY <2>1, FS_Subset, FS_CardinalityType
<1>0. Count(s, x) = Cardinality(C) /\ Count(a, x) = Cardinality(D)
  BY DEF Count
<1>4. n + 1 \notin C /\ 1..n + 1 = (1..n) \cup {n + 1}
  BY <1>1
<1>5. CASE e = x
  <2>1. D = C \cup {n + 1}
    BY <1>1, <1>2, <1>4, <1>5
  <2> HIDE DEF C, D
  <2>2. Cardinality(D) = Cardinality(C) + 1
    BY <1>3, <1>4, <2>1, FS_AddElement
  <2> QED
    BY <1>0, <1>5, <2>2 DEF a
<1>6. CASE e # x
  <2>1. D = C
    BY <1>1, <1>2, <1>4, <1>6
  <2> HIDE DEF C, D
  <2> QED
    BY <1>0, <1>3, <1>6, <2>1 DEF a
<1> QED
  BY <1>5, <1>6

LEMMA CountNone ==
  ASSUME NEW x
  PROVE  Count(<<>>, x) = 0
<1>1. {j \in DOMAIN <<>> : <<>>[j] = x} = {}
  OBVIOUS
<1> QED
  BY <1>1, FS_EmptySet DEF Count

\* The elements up to i are the ones before i, and s[i].
LEMMA PrefixStep ==
  ASSUME NEW S, NEW s \in Seq(S), NEW i \in 1..Len(s)
  PROVE  /\ SubSeq(s, 1, i - 1) \in Seq(S) /\ Len(SubSeq(s, 1, i - 1)) = i - 1 /\ s[i] \in S
         /\ SubSeq(s, 1, i) = Append(SubSeq(s, 1, i - 1), s[i])
<1>1. SubSeq(s, 1, i - 1) \in Seq(S) /\ Len(SubSeq(s, 1, i - 1)) = i - 1 /\ s[i] \in S
  OBVIOUS
<1> DEFINE p == SubSeq(s, 1, i - 1)
<1>2. \A j \in 1..i - 1 : p[j] = s[j]
  OBVIOUS
<1>3. Append(p, s[i]) = [j \in 1..i |-> IF j = i THEN s[i] ELSE p[j]]
  <2> HIDE DEF p
  <2>1. p \in Seq(S) /\ Len(p) = i - 1 /\ i - 1 + 1 = i
    BY <1>1 DEF p
  <2> QED
    BY <1>1, <2>1, AppendIs
<1>4. SubSeq(s, 1, i) = [j \in 1..i |-> s[j]]
  OBVIOUS
<1> HIDE DEF p
<1>5. ASSUME NEW j \in 1..i PROVE (IF j = i THEN s[i] ELSE p[j]) = s[j]
  <2>1. CASE j # i
    <3>1. j \in 1..i - 1
      BY <2>1
    <3> QED
      BY <1>2, <2>1, <3>1
  <2> QED
    BY <2>1
<1>6. [j \in 1..i |-> IF j = i THEN s[i] ELSE p[j]] = [j \in 1..i |-> s[j]]
  BY <1>5
<1>7. SubSeq(s, 1, i) = Append(p, s[i])
  BY <1>3, <1>4, <1>6
<1> QED
  BY <1>1, <1>7 DEF p

LEMMA WholePrefix ==
  ASSUME NEW S, NEW s \in Seq(S)
  PROVE  SubSeq(s, 1, Len(s)) = s /\ SubSeq(s, 1, 0) = <<>>
  OBVIOUS

\* Induction over the prefixes of t, one element at a time.
LEMMA CountConcat ==
  ASSUME NEW S, NEW s \in Seq(S), NEW t \in Seq(S), NEW x
  PROVE  Count(s \o t, x) = Count(s, x) + Count(t, x)
<1> DEFINE p(i) == SubSeq(t, 1, i)
           I == {i \in Nat : i <= Len(t) => Count(s \o p(i), x) = Count(s, x) + Count(p(i), x)}
<1>0. Count(s, x) \in Nat /\ Len(t) \in Nat
  BY CountType
<1>1. 0 \in I
  <2>1. p(0) = <<>> /\ s \o <<>> = s
    OBVIOUS
  <2>2. Count(s, x) = Count(s, x) + Count(<<>>, x)
    BY <1>0, CountNone
  <2> HIDE DEF p
  <2>3. Count(s \o p(0), x) = Count(s, x) + Count(p(0), x)
    BY <2>1, <2>2
  <2> QED
    BY <2>3
<1>2. ASSUME NEW i \in Nat, i \in I PROVE i + 1 \in I
  <2> SUFFICES ASSUME i + 1 <= Len(t)
               PROVE  Count(s \o p(i + 1), x) = Count(s, x) + Count(p(i + 1), x)
    OBVIOUS
  <2> DEFINE k == i + 1
             q == p(i)
             e == t[k]
  <2>0. k \in 1..Len(t) /\ k - 1 = i /\ i <= Len(t)
    OBVIOUS
  <2>1. q \in Seq(S) /\ e \in S /\ p(k) = Append(q, e)
    BY ONLY t \in Seq(S), <2>0, PrefixStep
  <2>2. Count(s \o q, x) = Count(s, x) + Count(q, x)
    BY <1>2, <2>0
  <2> HIDE DEF q, e, p
  <2>3. s \o q \in Seq(S) /\ s \o Append(q, e) = Append(s \o q, e)
    BY <2>1
  <2>4. Count(q, x) \in Nat
    BY <2>1, CountType
  <2>5. Count(Append(s \o q, e), x) = Count(s \o q, x) + (IF e = x THEN 1 ELSE 0)
    <3> DEFINE u == s \o q
    <3>1. u \in Seq(S)
      BY <2>3
    <3> HIDE DEF u
    <3>2. Count(Append(u, e), x) = Count(u, x) + (IF e = x THEN 1 ELSE 0)
      BY <2>1, <3>1, CountAppend
    <3> QED
      BY <3>2 DEF u
  <2>6. Count(Append(q, e), x) = Count(q, x) + (IF e = x THEN 1 ELSE 0)
    BY <2>1, CountAppend
  <2>7. Count(Append(s \o q, e), x) = Count(s, x) + Count(Append(q, e), x)
    BY <1>0, <2>2, <2>4, <2>5, <2>6
  <2> QED
    BY <2>1, <2>3, <2>7
<1> HIDE DEF I
<1>3. Nat \subseteq I
  BY <1>1, <1>2, InductionInSets
<1>4. Count(s \o p(Len(t)), x) = Count(s, x) + Count(p(Len(t)), x)
  BY <1>0, <1>3 DEF I
<1> QED
  BY <1>4, WholePrefix

-----------------------------------------------------------------------------
(* The interval tree: sorting and dealing out *)

\* What push_back does in Those.
Pushed(v, i, S) == IF i \in S THEN Append(v, i) ELSE v

LEMMA PushedType ==
  ASSUME NEW S, NEW v \in Seq(AllIntervals), NEW i \in AllIntervals
  PROVE  Pushed(v, i, S) \in Seq(AllIntervals)
  BY DEF Pushed

\* The vector that Those fills, after each element of s.
LEMMA ThoseWalk ==
  ASSUME NEW S, NEW s \in Seq(AllIntervals)
  PROVE  \E W : /\ W[0] = <<>>
                /\ \A i \in 1..Len(s) : W[i] = Pushed(W[i - 1], s[i], S)
                /\ Those(s, S) = W[Len(s)]
<1> DEFINE m == Len(s)
           D == SUBSET (1..m)
           St == Seq(AllIntervals)
           F == [x \in St \X (1..m) |-> Pushed(x[1], s[x[2]], S)]
<1>1. m \in Nat /\ DOMAIN s = 1..m /\ \A i \in 1..m : s[i] \in AllIntervals
  OBVIOUS
<1>0. <<>> \in St
  OBVIOUS
<1> HIDE DEF m
<1>2. F \in [St \X (1..m) -> St]
  <2>1. ASSUME NEW x \in St \X (1..m) PROVE Pushed(x[1], s[x[2]], S) \in St
    BY <1>1, PushedType
  <2> QED
    BY <2>1
<1>3. \A u \in St, i \in 1..m : F[<<u, i>>] = Pushed(u, s[i], S)
  OBVIOUS
<1> HIDE DEF F
<1>4. PICK V \in [D -> St] : \A d \in D :
        V[d] = IF d = {} THEN <<>> ELSE F[<<V[d \ {Max(d)}], Max(d)>>]
  <2> HIDE DEF St
  <2>2. \E V \in [SUBSET (1..m) -> St] : FoldOf(V, F, <<>>, m)
    BY ONLY <1>0, <1>1, <1>2, FoldExists
  <2> QED
    BY <2>2 DEF FoldOf
<1>5. ASSUME NEW d \in D, d # {} PROVE Max(d) \in 1..m /\ d \ {Max(d)} \in D
  BY <1>1, <1>5, LargestIndex
<1>6. V = [d \in D |-> IF d = {} THEN <<>> ELSE Pushed(V[d \ {Max(d)}], s[Max(d)], S)]
  <2>1. ASSUME NEW d \in D
        PROVE  V[d] = IF d = {} THEN <<>> ELSE Pushed(V[d \ {Max(d)}], s[Max(d)], S)
    <3>1. CASE d # {}
      <4>1. Max(d) \in 1..m /\ V[d \ {Max(d)}] \in St
        BY <1>5, <3>1
      <4> QED
        BY <1>3, <1>4, <3>1, <4>1
    <3> QED
      BY <1>4, <3>1
  <2> HIDE DEF D
  <2> QED
    BY <2>1
<1> DEFINE U == CHOOSE U : U = [d \in D |-> IF d = {} THEN <<>> ELSE Pushed(U[d \ {Max(d)}], s[Max(d)], S)]
<1>7. U = [d \in D |-> IF d = {} THEN <<>> ELSE Pushed(U[d \ {Max(d)}], s[Max(d)], S)]
  BY <1>6
<1>8. Those(s, S) = U[1..m]
  BY <1>1 DEF Those, FoldLeft, MapThenFoldSet, Pushed
<1> HIDE DEF U
<1> DEFINE W == [i \in 0..m |-> U[1..i]]
<1>9. W[0] = <<>>
  BY <1>1, <1>7, IntervalSteps
<1>10. ASSUME NEW i \in 1..m PROVE W[i] = Pushed(W[i - 1], s[i], S)
  <2>0. i \in 0..m /\ i - 1 \in 0..m
    BY <1>1
  <2>1. 1..i \in D /\ 1..i # {} /\ Max(1..i) = i /\ (1..i) \ {i} = 1..i - 1
    BY <1>1, <2>0, IntervalSteps
  <2> DEFINE d == 1..i
  <2>2. U[d] = Pushed(U[d \ {Max(d)}], s[Max(d)], S)
    BY <1>7, <2>1
  <2> QED
    BY <2>0, <2>1, <2>2
<1>11. W[m] = U[1..m]
  BY <1>1
<1> HIDE DEF W
<1> QED
  BY <1>8, <1>9, <1>10, <1>11 DEF m

\* Those keeps the elements of S, as often as they occur, in their order.
LEMMA ThoseFacts ==
  ASSUME NEW S, NEW s \in Seq(AllIntervals)
  PROVE  /\ Those(s, S) \in Seq(AllIntervals)
         /\ \A x : Count(Those(s, S), x) = IF x \in S THEN Count(s, x) ELSE 0
         /\ StartOrder(s) => StartOrder(Those(s, S))
<1> DEFINE n == Len(s)
           p(i) == SubSeq(s, 1, i)
<1>1. n \in Nat /\ \A i \in 1..n : s[i] \in AllIntervals
  OBVIOUS
<1>2. PICK W : /\ W[0] = <<>>
               /\ \A i \in 1..n : W[i] = Pushed(W[i - 1], s[i], S)
               /\ Those(s, S) = W[n]
  BY ThoseWalk
<1>3. /\ p(0) = <<>> /\ p(n) = s
      /\ \A i \in 1..n : p(i - 1) \in Seq(AllIntervals) /\ p(i) = Append(p(i - 1), s[i])
  <2>1. p(0) = <<>> /\ p(n) = s
    BY WholePrefix
  <2>2. ASSUME NEW i \in 1..n
        PROVE  p(i - 1) \in Seq(AllIntervals) /\ p(i) = Append(p(i - 1), s[i])
    BY ONLY s \in Seq(AllIntervals), <2>2, PrefixStep
  <2> QED
    BY <2>1, <2>2
<1> HIDE DEF n, p
<1> DEFINE Counted(w, i) == \A x : Count(w, x) = IF x \in S THEN Count(p(i), x) ELSE 0
           From(w, i) == \A j \in 1..Len(w) : \E k \in 1..i : w[j] = s[k]
           Good(w, i) == /\ w \in Seq(AllIntervals) /\ Counted(w, i) /\ From(w, i)
                         /\ StartOrder(s) => StartOrder(w)
           I == {i \in Nat : i <= n => Good(W[i], i)}
<1>4. 0 \in I
  <2>1. Counted(<<>>, 0)
    BY <1>3, CountNone
  <2>2. From(<<>>, 0) /\ <<>> \in Seq(AllIntervals) /\ StartOrder(<<>>)
    BY DEF StartOrder
  <2> HIDE DEF Counted, From
  <2> QED
    BY <1>2, <2>1, <2>2
<1>5. ASSUME NEW i \in Nat, i \in I PROVE i + 1 \in I
  <2> SUFFICES ASSUME i + 1 <= n PROVE Good(W[i + 1], i + 1)
    OBVIOUS
  <2> DEFINE k == i + 1
             w == W[i]
             e == s[k]
  <2>0. k \in 1..n /\ k - 1 = i /\ i <= n
    BY <1>1
  <2>1. Good(w, i)
    BY <1>5, <2>0
  <2>2. W[k] = Pushed(w, e, S) /\ e \in AllIntervals
    BY <1>1, <1>2, <2>0
  <2>3. p(i) \in Seq(AllIntervals) /\ p(k) = Append(p(i), e)
    BY <1>3, <2>0
  <2>4. ASSUME NEW x
        PROVE  Count(p(k), x) = Count(p(i), x) + (IF e = x THEN 1 ELSE 0) /\ Count(p(i), x) \in Nat
    <3> DEFINE u == p(i)
    <3>1. u \in Seq(AllIntervals) /\ p(k) = Append(u, e) /\ e \in AllIntervals
      BY <2>2, <2>3
    <3> HIDE DEF u
    <3>2. Count(Append(u, e), x) = Count(u, x) + (IF e = x THEN 1 ELSE 0) /\ Count(u, x) \in Nat
      BY ONLY <3>1, CountAppend, CountType
    <3> QED
      BY <3>1, <3>2 DEF u
  <2> HIDE DEF w, e
  <2>5. CASE e \in S
    <3>1. W[k] = Append(w, e)
      BY <2>2, <2>5 DEF Pushed
    <3>2. Append(w, e) \in Seq(AllIntervals)
      BY <2>1, <2>2
    <3>3. ASSUME NEW x PROVE Count(Append(w, e), x) = IF x \in S THEN Count(p(k), x) ELSE 0
      <4>1. Count(Append(w, e), x) = Count(w, x) + (IF e = x THEN 1 ELSE 0)
        BY <2>1, <2>2, CountAppend
      <4>2. Count(w, x) = IF x \in S THEN Count(p(i), x) ELSE 0
        BY <2>1
      <4> QED
        BY <2>4, <2>5, <4>1, <4>2
    <3>4. /\ Len(Append(w, e)) = Len(w) + 1 /\ Append(w, e)[Len(w) + 1] = e /\ Len(w) \in Nat
          /\ \A j \in 1..Len(w) : Append(w, e)[j] = w[j]
      BY <2>1, <2>2
    <3> DEFINE a == Append(w, e)
    <3>5. DOMAIN a = 1..Len(w) + 1 /\ DOMAIN w = 1..Len(w)
      BY <2>1, <3>2, <3>4
    <3> HIDE DEF a
    <3>6. From(a, k)
      <4>1. ASSUME NEW j \in 1..Len(w) + 1 PROVE \E l \in 1..k : a[j] = s[l]
        <5>1. CASE j = Len(w) + 1
          BY <2>0, <3>4, <5>1 DEF a, e
        <5>2. CASE j \in 1..Len(w)
          <6>1. PICK l \in 1..i : w[j] = s[l]
            BY <2>1, <5>2
          <6>2. l \in 1..k /\ a[j] = s[l]
            BY <3>4, <5>2, <6>1 DEF a
          <6> QED
            BY <6>2
        <5> QED
          BY <3>4, <5>1, <5>2
      <4> QED
        BY <3>4, <4>1 DEF a
    <3>7. ASSUME StartOrder(s) PROVE StartOrder(a)
      <4>1. ASSUME NEW j \in 1..Len(w) + 1, NEW l \in 1..j - 1
            PROVE  ~intervalStartSorter(a[j], a[l])
        <5>0. l \in 1..Len(w)
          BY <3>4
        <5>1. CASE j \in 1..Len(w)
          BY <2>1, <3>4, <3>5, <3>7, <5>0, <5>1 DEF a, StartOrder
        <5>2. CASE j = Len(w) + 1
          <6>1. PICK g \in 1..i : w[l] = s[g]
            BY <2>1, <5>0
          <6>2. g \in 1..k - 1 /\ k \in DOMAIN s
            BY <2>0 DEF n
          <6>3. ~intervalStartSorter(s[k], s[g])
            BY <3>7, <6>2 DEF StartOrder
          <6> QED
            BY <3>4, <5>0, <5>2, <6>1, <6>3 DEF a, e
        <5> QED
          BY <3>4, <5>1, <5>2
      <4> QED
        BY <3>5, <4>1 DEF StartOrder
    <3>8. Good(a, k)
      <4> HIDE DEF From
      <4> QED
        BY <3>2, <3>3, <3>6, <3>7 DEF a
    <3> QED
      BY <3>1, <3>8 DEF a
  <2>6. CASE e \notin S
    <3>1. W[k] = w
      BY <2>2, <2>6 DEF Pushed
    <3>2. ASSUME NEW x PROVE Count(w, x) = IF x \in S THEN Count(p(k), x) ELSE 0
      BY <2>1, <2>4, <2>6
    <3>3. From(w, k)
      <4>1. ASSUME NEW j \in 1..Len(w) PROVE \E l \in 1..k : w[j] = s[l]
        <5>1. PICK l \in 1..i : w[j] = s[l]
          BY <2>1
        <5>2. l \in 1..k
          OBVIOUS
        <5> QED
          BY <5>1, <5>2
      <4> QED
        BY <4>1
    <3>4. Good(w, k)
      <4> HIDE DEF From
      <4> QED
        BY <2>1, <3>2, <3>3
    <3> HIDE DEF Good
    <3> QED
      BY <3>1, <3>4
  <2> QED
    BY <2>5, <2>6
<1> HIDE DEF I
<1>6. Nat \subseteq I
  BY <1>4, <1>5, InductionInSets
<1>7. Good(W[n], n)
  <2> HIDE DEF Good
  <2>1. n \in I /\ n <= n
    BY <1>1, <1>6
  <2> QED
    BY <2>1 DEF I
<1> QED
  BY <1>2, <1>3, <1>7

LEMMA IntervalFacts ==
  \A i \in AllIntervals : i.start \in Int /\ i.stop \in Int /\ i.start <= i.stop
  BY IntervalsAssumption DEF AllIntervals

\* t is a rearrangement of s in the order of the starts.
Rearranged(t, s) ==
  /\ t \in Seq(AllIntervals) /\ Len(t) = Len(s) /\ StartOrder(t)
  /\ \A x : Count(t, x) = Count(s, x)

\* Where e goes into a sequence that is in order: behind those that do not start later.
LEMMA PlaceFor ==
  ASSUME NEW t \in Seq(AllIntervals), StartOrder(t), NEW e \in AllIntervals
  PROVE  \E k \in 0..Len(t) :
           /\ \A j \in 1..k : t[j].start <= e.start
           /\ \A j \in k + 1..Len(t) : t[j].start > e.start
<1> DEFINE n == Len(t)
           L == {j \in 1..n : t[j].start > e.start}
<1>1. /\ n \in Nat /\ DOMAIN t = 1..n /\ e.start \in Int
      /\ \A j \in 1..n : t[j] \in AllIntervals
  BY IntervalFacts
<1>2. \A j \in 1..n : t[j].start \in Int
  BY <1>1, IntervalFacts
<1>3. CASE L = {}
  BY <1>1, <1>2, <1>3
<1>4. CASE L # {}
  <2>1. L \in SUBSET Nat
    BY <1>1
  <2>2. PICK m \in L : \A y \in L : m <= y
    BY ONLY <1>4, <2>1, LeastElement
  <2>3. m \in 1..n /\ m - 1 \in 0..n
    BY <1>1, <2>2
  <2>4. \A j \in 1..m - 1 : t[j].start <= e.start
    <3>1. ASSUME NEW j \in 1..m - 1 PROVE t[j].start <= e.start
      <4>1. j \in 1..n /\ ~(m <= j)
        BY <1>1, <2>3
      <4>2. j \notin L
        BY <2>2, <4>1
      <4> QED
        BY <1>1, <1>2, <4>1, <4>2
    <3> QED
      BY <3>1
  <2>5. \A j \in m..n : t[j].start > e.start
    <3>1. ASSUME NEW j \in m..n PROVE t[j].start > e.start
      <4>1. j \in 1..n /\ (j # m => m \in 1..j - 1)
        BY <1>1, <2>3
      <4>2. j # m => ~(t[j].start < t[m].start)
        BY <1>1, <4>1 DEF StartOrder, intervalStartSorter
      <4> QED
        BY <1>1, <1>2, <2>2, <2>3, <4>1, <4>2
    <3> QED
      BY <3>1
  <2>6. (m - 1) + 1 = m
    BY <2>3
  <2> DEFINE k == m - 1
  <2> HIDE DEF L
  <2>7. k \in 0..n /\ (\A j \in 1..k : t[j].start <= e.start)
        /\ (\A j \in k + 1..n : t[j].start > e.start)
    BY <2>3, <2>4, <2>5, <2>6
  <2> QED
    BY <2>7
<1> QED
  BY <1>3, <1>4

\* One element more can be put in its place.
LEMMA InsertFacts ==
  ASSUME NEW t, NEW s \in Seq(AllIntervals), Rearranged(t, s), NEW e \in AllIntervals
  PROVE  \E u : Rearranged(u, Append(s, e))
<1> DEFINE n == Len(t)
<1>1. /\ n \in Nat /\ DOMAIN t = 1..n /\ e.start \in Int /\ t \in Seq(AllIntervals)
      /\ n = Len(s) /\ \A j \in 1..n : t[j] \in AllIntervals /\ t[j].start \in Int
  BY IntervalFacts DEF Rearranged
<1>2. PICK k \in 0..n : /\ \A j \in 1..k : t[j].start <= e.start
                        /\ \A j \in k + 1..n : t[j].start > e.start
  BY PlaceFor DEF Rearranged
<1> DEFINE a == SubSeq(t, 1, k)
           b == SubSeq(t, k + 1, n)
           c == Append(a, e)
           u == c \o b
<1>3. /\ a \in Seq(AllIntervals) /\ Len(a) = k /\ \A j \in 1..k : a[j] = t[j]
  BY <1>1
<1>4. /\ b \in Seq(AllIntervals) /\ Len(b) = n - k /\ \A j \in 1..n - k : b[j] = t[k + j]
  <2>1. \A i \in k + 1..n : t[i] \in AllIntervals
    BY <1>1
  <2>2. k + 1 \in Int /\ n \in Int
    BY <1>1
  <2> HIDE DEF n
  <2>3. /\ b \in Seq(AllIntervals) /\ Len(b) = IF k + 1 <= n THEN n - (k + 1) + 1 ELSE 0
        /\ \A j \in 1..n - (k + 1) + 1 : b[j] = t[k + 1 + j - 1]
    BY ONLY <2>1, <2>2, SubSeqProperties
  <2>4. n - (k + 1) + 1 = n - k /\ Len(b) = n - k
    BY <1>1, <2>3
  <2>5. ASSUME NEW j \in 1..n - k PROVE b[j] = t[k + j]
    BY <1>1, <2>3, <2>4, k + 1 + j - 1 = k + j
  <2> QED
    BY <2>3, <2>4, <2>5
<1> HIDE DEF a, b, n
<1>5. /\ c \in Seq(AllIntervals) /\ Len(c) = k + 1 /\ c[k + 1] = e
      /\ \A j \in 1..k : c[j] = t[j]
  BY <1>3
<1>6. t = a \o b
  <2>1. a \o b \in Seq(AllIntervals) /\ Len(a \o b) = n
        /\ (\A j \in 1..k : (a \o b)[j] = t[j])
        /\ (\A j \in k + 1..n : (a \o b)[j] = b[j - k])
    BY <1>1, <1>3, <1>4, ConcatIs
  <2> DEFINE ab == a \o b
  <2> HIDE DEF ab
  <2>2. ASSUME NEW j \in 1..n PROVE ab[j] = t[j]
    <3>1. CASE j \in 1..k
      BY <2>1, <3>1 DEF ab
    <3>2. CASE j \notin 1..k
      <4>1. j \in k + 1..n /\ j - k \in 1..n - k /\ k + (j - k) = j
        BY <1>1, <3>2
      <4> QED
        BY <1>4, <2>1, <4>1 DEF ab
    <3> QED
      BY <3>1, <3>2
  <2>3. ab \in Seq(AllIntervals) /\ Len(ab) = n /\ t \in Seq(AllIntervals) /\ Len(t) = n
    BY <1>1, <2>1 DEF ab, n
  <2>4. ab = t
    BY <2>2, <2>3
  <2> QED
    BY <2>4 DEF ab
<1> HIDE DEF c
<1>7. u \in Seq(AllIntervals) /\ Len(u) = n + 1
      /\ (\A j \in 1..k + 1 : u[j] = c[j])
      /\ (\A j \in k + 2..n + 1 : u[j] = t[j - 1])
  <2>1. u \in Seq(AllIntervals) /\ Len(u) = n + 1
        /\ (\A j \in 1..k + 1 : u[j] = c[j])
        /\ (\A j \in k + 2..n + 1 : u[j] = b[j - (k + 1)])
    BY <1>1, <1>4, <1>5, ConcatIs
  <2> HIDE DEF u
  <2>2. ASSUME NEW j \in k + 2..n + 1 PROVE u[j] = t[j - 1]
    <3>1. j - (k + 1) \in 1..n - k /\ k + (j - (k + 1)) = j - 1
      BY <1>1
    <3> QED
      BY <1>4, <2>1, <3>1
  <2> QED
    BY <2>1, <2>2
<1>8. ASSUME NEW x PROVE Count(u, x) = Count(Append(s, e), x)
  <2>1. Count(u, x) = Count(c, x) + Count(b, x)
    BY ONLY <1>4, <1>5, CountConcat DEF u
  <2>2. Count(c, x) = Count(a, x) + (IF e = x THEN 1 ELSE 0)
    BY ONLY <1>3, e \in AllIntervals, CountAppend DEF c
  <2>3. Count(t, x) = Count(a, x) + Count(b, x)
    BY ONLY <1>3, <1>4, <1>6, CountConcat
  <2>4. Count(Append(s, e), x) = Count(s, x) + (IF e = x THEN 1 ELSE 0)
    BY CountAppend
  <2>5. Count(a, x) \in Nat /\ Count(b, x) \in Nat
    BY <1>3, <1>4, CountType
  <2>6. Count(t, x) = Count(s, x)
    BY DEF Rearranged
  <2> HIDE DEF u
  <2> QED
    BY <2>1, <2>2, <2>3, <2>4, <2>5, <2>6
<1> HIDE DEF u
<1>9. StartOrder(u)
  <2>1. ASSUME NEW j \in 1..n + 1, NEW i \in 1..j - 1 PROVE ~(u[j].start < u[i].start)
    <3>1. CASE j <= k
      <4>1. j \in 1..n /\ i \in 1..j - 1 /\ u[j] = t[j] /\ u[i] = t[i]
        BY <1>1, <1>5, <1>7, <3>1
      <4> QED
        BY <1>1, <4>1 DEF Rearranged, StartOrder, intervalStartSorter
    <3>2. CASE j = k + 1
      <4>1. i \in 1..k /\ u[j] = e /\ u[i] = t[i] /\ i \in 1..n
        BY <1>1, <1>5, <1>7, <3>2
      <4> QED
        BY <1>1, <1>2, <4>1
    <3>3. CASE j > k + 1
      <4>1. j - 1 \in k + 1..n /\ u[j] = t[j - 1] /\ j - 1 \in 1..n
        BY <1>1, <1>7, <3>3
      <4>2. CASE i <= k
        <5>1. i \in 1..k /\ u[i] = t[i] /\ i \in 1..n
          BY <1>1, <1>5, <1>7, <4>2
        <5> QED
          BY <1>1, <1>2, <4>1, <5>1
      <4>3. CASE i = k + 1
        <5>1. u[i] = e
          BY <1>1, <1>5, <1>7, <4>3
        <5> QED
          BY <1>1, <1>2, <4>1, <5>1
      <4>4. CASE i > k + 1
        <5>1. u[i] = t[i - 1] /\ i - 1 \in 1..j - 1 - 1
          BY <1>1, <1>7, <4>4
        <5> QED
          BY <1>1, <4>1, <5>1 DEF Rearranged, StartOrder, intervalStartSorter
      <4> QED
        BY <4>2, <4>3, <4>4
    <3> QED
      BY <1>1, <3>1, <3>2, <3>3
  <2>2. DOMAIN u = 1..n + 1
    BY <1>7
  <2> QED
    BY <2>1, <2>2 DEF StartOrder, intervalStartSorter
<1>10. Len(u) = Len(Append(s, e))
  BY <1>1, <1>7
<1>11. Rearranged(u, Append(s, e))
  BY <1>7, <1>8, <1>9, <1>10 DEF Rearranged
<1> QED
  BY <1>11

\* Every sequence has such a rearrangement: by induction over its prefixes.
LEMMA RearrangedExists ==
  ASSUME NEW s \in Seq(AllIntervals)
  PROVE  \E t : Rearranged(t, s)
<1> DEFINE p(i) == SubSeq(s, 1, i)
           I == {i \in Nat : i <= Len(s) => \E t : Rearranged(t, p(i))}
<1>0. Len(s) \in Nat
  OBVIOUS
<1>1. 0 \in I
  <2>1. p(0) = <<>>
    BY WholePrefix
  <2>2. Rearranged(<<>>, <<>>)
    BY DEF Rearranged, StartOrder
  <2>3. Rearranged(<<>>, p(0))
    BY <2>1, <2>2
  <2> HIDE DEF p
  <2> QED
    BY <2>3
<1>2. ASSUME NEW i \in Nat, i \in I PROVE i + 1 \in I
  <2> SUFFICES ASSUME i + 1 <= Len(s) PROVE \E t : Rearranged(t, p(i + 1))
    OBVIOUS
  <2> DEFINE k == i + 1
             q == p(i)
             e == s[k]
  <2>0. k \in 1..Len(s) /\ k - 1 = i /\ i <= Len(s)
    BY <1>0
  <2>1. q \in Seq(AllIntervals) /\ e \in AllIntervals /\ p(k) = Append(q, e)
    BY ONLY s \in Seq(AllIntervals), <2>0, PrefixStep
  <2>2. PICK t : Rearranged(t, q)
    BY <1>2, <2>0
  <2> HIDE DEF q, e, p
  <2>3. \E u : Rearranged(u, Append(q, e))
    BY ONLY <2>1, <2>2, InsertFacts
  <2> QED
    BY <2>1, <2>3
<1> HIDE DEF I
<1>3. Nat \subseteq I
  BY <1>1, <1>2, InductionInSets
<1>4. \E t : Rearranged(t, p(Len(s)))
  BY <1>0, <1>3 DEF I
<1> QED
  BY <1>4, WholePrefix

\* What std::sort does: an order of the elements by their starts.
LEMMA SortedFacts ==
  ASSUME NEW s \in Seq(AllIntervals)
  PROVE  Rearranged(Sorted(s), s)
<1> DEFINE T == [DOMAIN s -> Range(s)]
           Good(t) == StartOrder(t) /\ \A x \in Range(s) : Count(t, x) = Count(s, x)
<1>1. /\ DOMAIN s = 1..Len(s) /\ Len(s) \in Nat /\ \A x : x \in Range(s) <=> \E j \in 1..Len(s) : s[j] = x
      /\ Range(s) \subseteq AllIntervals
  BY DEF Range
<1>2. PICK t : Rearranged(t, s)
  BY RearrangedExists
<1>3. t \in T
  <2>1. DOMAIN t = 1..Len(s) /\ t = [j \in 1..Len(s) |-> t[j]] /\ t \in Seq(AllIntervals) /\ Len(t) = Len(s)
    BY <1>2 DEF Rearranged
  <2>2. ASSUME NEW j \in 1..Len(s) PROVE t[j] \in Range(s)
    <3>1. Count(t, t[j]) # 0
      BY <2>1, CountType
    <3>2. Count(s, t[j]) # 0
      BY <1>2, <3>1 DEF Rearranged
    <3> QED
      BY <1>1, <3>2, CountType
  <2> QED
    BY <1>1, <2>1, <2>2
<1>4. Good(t)
  BY <1>2 DEF Rearranged
<1> DEFINE u == CHOOSE u \in T : Good(u)
<1>5. u = Sorted(s)
  BY DEF Sorted
<1>6. u \in T /\ Good(u)
  <2> HIDE DEF T, Good
  <2> QED
    BY <1>3, <1>4
<1> HIDE DEF u
<1>7. u \in Seq(AllIntervals) /\ Len(u) = Len(s)
  BY <1>1, <1>6
<1>8. ASSUME NEW x, x \notin Range(s) PROVE Count(u, x) = Count(s, x)
  <2>1. \A j \in 1..Len(s) : s[j] # x
    BY <1>1, <1>8
  <2>2. \A j \in 1..Len(u) : u[j] # x
    BY <1>1, <1>6, <1>7, <1>8
  <2>3. Count(s, x) = 0 /\ Count(u, x) = 0
    BY <1>7, <2>1, <2>2, CountType
  <2> QED
    BY <2>3
<1>9. \A x : Count(u, x) = Count(s, x)
  BY <1>6, <1>8
<1>10. StartOrder(u)
  BY <1>6
<1> QED
  BY <1>5, <1>7, <1>9, <1>10 DEF Rearranged

-----------------------------------------------------------------------------
(* The interval tree: the recursions, by the number of levels *)

LEMMA DepthFacts == Depth \in Nat /\ Depth >= 1 /\ MinBucket \in Nat /\ MinBucket >= 1
                    /\ MaxBucket \in Nat \ {0}
  BY IntervalsAssumption

Nodes(T) == [intervals : Seq(AllIntervals), center : Int, left : T, right : T]

LEMMA TreesRecursion ==
  Trees = [d \in 0..Depth |-> IF d = 0 THEN {NoTree} ELSE {NoTree} \cup [1..1 -> Nodes(Trees[d - 1])]]
<1> DEFINE Level(h) == {NoTree} \cup [1..1 -> Nodes(h)]
           Rec(f, m) == f = [d \in 0..m |-> IF d = 0 THEN {NoTree} ELSE Level(f[d - 1])]
           I == {m \in Nat : \E f : Rec(f, m)}
<1>1. 0 \in I
  <2> HIDE DEF Level
  <2> DEFINE f == [d \in 0..0 |-> {NoTree}]
  <2>1. Rec(f, 0)
    OBVIOUS
  <2> QED
    BY <2>1
<1>2. ASSUME NEW m \in Nat, m \in I PROVE m + 1 \in I
  <2> HIDE DEF Level
  <2>1. PICK f : Rec(f, m)
    BY <1>2
  <2> DEFINE g == [d \in 0..m + 1 |-> IF d <= m THEN f[d] ELSE Level(f[m])]
  <2>2. ASSUME NEW d \in 0..m + 1
        PROVE  g[d] = IF d = 0 THEN {NoTree} ELSE Level(g[d - 1])
    <3>1. CASE d <= m
      <4>1. g[d] = f[d] /\ d \in 0..m
        BY <3>1
      <4>2. f[d] = IF d = 0 THEN {NoTree} ELSE Level(f[d - 1])
        BY <2>1, <4>1
      <4>3. d # 0 => g[d - 1] = f[d - 1]
        BY <3>1
      <4> HIDE DEF g
      <4> QED
        BY <4>1, <4>2, <4>3
    <3>2. CASE d = m + 1
      <4>1. g[d] = Level(f[m]) /\ g[d - 1] = f[m] /\ d # 0
        BY <3>2
      <4> HIDE DEF g
      <4> QED
        BY <4>1
    <3> QED
      BY <3>1, <3>2
  <2>3. Rec(g, m + 1)
    <3>1. g = [d \in 0..m + 1 |-> g[d]]
      OBVIOUS
    <3> HIDE DEF g
    <3> QED
      BY <2>2, <3>1
  <2> HIDE DEF Rec, g
  <2> QED
    BY <2>3
<1>3. Nat \subseteq I
  <2> HIDE DEF I
  <2> QED
    BY <1>1, <1>2, InductionInSets
<1>4. \E f : Rec(f, Depth)
  <2> HIDE DEF Rec
  <2> QED
    BY <1>3, DepthFacts
<1> DEFINE F == CHOOSE f : Rec(f, Depth)
<1>5. Rec(F, Depth)
  <2> HIDE DEF Rec
  <2> QED
    BY <1>4
<1>6. F = Trees
  BY DEF Trees, Nodes
<1> HIDE DEF F
<1> QED
  BY <1>5, <1>6

\* A level of the construction: h constructs the children.
Built(h, depth) ==
  [c \in Calls |->
     IF IsLeaf(c, depth)
     THEN <<[intervals |-> Sorted(c.ivals), center |-> 0, left |-> NoTree, right |-> NoTree]>>
     ELSE <<[intervals |-> Divided(c).mids, center |-> Divided(c).center,
             left  |-> IF Divided(c).lefts.ivals = <<>> THEN NoTree ELSE h[Divided(c).lefts],
             right |-> IF Divided(c).rights.ivals = <<>> THEN NoTree ELSE h[Divided(c).rights]]>>]

LEMMA BuiltLast ==
  ASSUME NEW h, NEW k
  PROVE  Built(h, 1) = Built(k, 1)
<1>1. \A c \in Calls : IsLeaf(c, 1)
  BY DEF IsLeaf
<1> QED
  BY <1>1 DEF Built

LEMMA ConstructorRecursion ==
  IntervalTree = [d \in 1..Depth |-> Built(IntervalTree[d - 1], d)]
<1> DEFINE Rec(f, m) == f = [d \in 1..m |-> Built(f[d - 1], d)]
           I == {m \in Nat : \E f : Rec(f, m)}
<1>1. 0 \in I
  <2> DEFINE f == [d \in 1..0 |-> {}]
  <2>1. Rec(f, 0)
    OBVIOUS
  <2> QED
    BY <2>1
<1>2. ASSUME NEW m \in Nat, m \in I PROVE m + 1 \in I
  <2>1. PICK f : Rec(f, m)
    BY <1>2
  <2> DEFINE g == [d \in 1..m + 1 |-> IF d <= m THEN f[d] ELSE Built(f[m], m + 1)]
  <2>2. ASSUME NEW d \in 1..m + 1 PROVE g[d] = Built(g[d - 1], d)
    <3>1. d = 1 => Built(f[d - 1], d) = Built(g[d - 1], d)
      <4> HIDE DEF g
      <4> QED
        BY BuiltLast
    <3>2. d # 1 => g[d - 1] = f[d - 1]
      OBVIOUS
    <3>3. CASE d <= m
      <4>1. g[d] = f[d] /\ d \in 1..m
        BY <3>3
      <4>2. f[d] = Built(f[d - 1], d)
        BY <2>1, <4>1
      <4> HIDE DEF g
      <4> QED
        BY <3>1, <3>2, <4>1, <4>2
    <3>4. CASE d = m + 1
      <4>1. g[d] = Built(f[d - 1], d)
        BY <3>4
      <4> HIDE DEF g
      <4> QED
        BY <3>1, <3>2, <4>1
    <3> QED
      BY <3>3, <3>4
  <2>3. Rec(g, m + 1)
    <3>1. g = [d \in 1..m + 1 |-> g[d]]
      OBVIOUS
    <3> HIDE DEF g
    <3> QED
      BY <2>2, <3>1
  <2> HIDE DEF Rec, g
  <2> QED
    BY <2>3
<1>3. Nat \subseteq I
  <2> HIDE DEF I
  <2> QED
    BY <1>1, <1>2, InductionInSets
<1>4. \E f : Rec(f, Depth)
  <2> HIDE DEF Rec
  <2> QED
    BY <1>3, DepthFacts
<1> DEFINE F == CHOOSE f : Rec(f, Depth)
<1>5. Rec(F, Depth)
  <2> HIDE DEF Rec
  <2> QED
    BY <1>4
<1>6. F = IntervalTree
  BY DEF IntervalTree, Built
<1> HIDE DEF F
<1> QED
  BY <1>5, <1>6

\* A level of the search: h searches the children.
Looked(h, tree, q) ==
      InNode(tree[1], q)
  \o (IF tree[1].left # NoTree /\ q.start <= tree[1].center THEN h[tree[1].left][q] ELSE <<>>)
  \o (IF tree[1].right # NoTree /\ q.stop >= tree[1].center THEN h[tree[1].right][q] ELSE <<>>)

Look(h, d) == [tree \in Trees[d] \ {NoTree} |-> [q \in Queries |-> Looked(h, tree, q)]]

\* A tree of a level is a node over trees of the level below.
LEMMA TreeFacts ==
  ASSUME NEW d \in 1..Depth
  PROVE  /\ Trees[0] = {NoTree} /\ NoTree \in Trees[d]
         /\ \A tree \in Trees[d] \ {NoTree} : tree[1] \in Nodes(Trees[d - 1])
         /\ \A n \in Nodes(Trees[d - 1]) : <<n>> \in Trees[d] \ {NoTree}
<1>1. Trees[0] = {NoTree} /\ Trees[d] = {NoTree} \cup [1..1 -> Nodes(Trees[d - 1])]
  <2> DEFINE Level(i) == IF i = 0 THEN {NoTree} ELSE {NoTree} \cup [1..1 -> Nodes(Trees[i - 1])]
  <2>1. 0 \in 0..Depth /\ d \in 0..Depth /\ d # 0
    BY DepthFacts
  <2>2. Trees = [i \in 0..Depth |-> Level(i)]
    BY TreesRecursion
  <2> HIDE DEF Level
  <2>3. Trees[0] = Level(0) /\ Trees[d] = Level(d)
    BY <2>1, <2>2
  <2> QED
    BY <2>1, <2>3 DEF Level
<1>2. ASSUME NEW n \in Nodes(Trees[d - 1]) PROVE <<n>> \in [1..1 -> Nodes(Trees[d - 1])] /\ <<n>> # NoTree
  <2>1. <<n>> = [i \in 1..1 |-> n]
    OBVIOUS
  <2>2. <<n>> # <<>>
    OBVIOUS
  <2> QED
    BY <2>1, <2>2 DEF NoTree
<1> QED
  BY <1>1, <1>2

LEMMA LookLast ==
  ASSUME NEW h, NEW k
  PROVE  Look(h, 1) = Look(k, 1)
<1>1. \A tree \in Trees[1] \ {NoTree} : tree[1].left = NoTree /\ tree[1].right = NoTree
  <2>1. 1 \in 1..Depth /\ 1 - 1 = 0
    BY DepthFacts
  <2>2. \A tree \in Trees[1] \ {NoTree} : tree[1] \in Nodes({NoTree})
    BY <2>1, TreeFacts
  <2> QED
    BY <2>2 DEF Nodes
<1>2. \A tree \in Trees[1] \ {NoTree}, q \in Queries : Looked(h, tree, q) = Looked(k, tree, q)
  BY <1>1 DEF Looked
<1> QED
  BY <1>2 DEF Look

LEMMA SearchRecursion ==
  Find = [d \in 1..Depth |-> Look(Find[d - 1], d)]
<1> DEFINE Rec(f, m) == f = [d \in 1..m |-> Look(f[d - 1], d)]
           I == {m \in Nat : \E f : Rec(f, m)}
<1>1. 0 \in I
  <2> DEFINE f == [d \in 1..0 |-> {}]
  <2>1. Rec(f, 0)
    OBVIOUS
  <2> QED
    BY <2>1
<1>2. ASSUME NEW m \in Nat, m \in I PROVE m + 1 \in I
  <2>1. PICK f : Rec(f, m)
    BY <1>2
  <2> DEFINE g == [d \in 1..m + 1 |-> IF d <= m THEN f[d] ELSE Look(f[m], m + 1)]
  <2>2. ASSUME NEW d \in 1..m + 1 PROVE g[d] = Look(g[d - 1], d)
    <3>1. d = 1 => Look(f[d - 1], d) = Look(g[d - 1], d)
      <4> HIDE DEF g
      <4> QED
        BY LookLast
    <3>2. d # 1 => g[d - 1] = f[d - 1]
      OBVIOUS
    <3>3. CASE d <= m
      <4>1. g[d] = f[d] /\ d \in 1..m
        BY <3>3
      <4>2. f[d] = Look(f[d - 1], d)
        BY <2>1, <4>1
      <4> HIDE DEF g
      <4> QED
        BY <3>1, <3>2, <4>1, <4>2
    <3>4. CASE d = m + 1
      <4>1. g[d] = Look(f[d - 1], d)
        BY <3>4
      <4> HIDE DEF g
      <4> QED
        BY <3>1, <3>2, <4>1
    <3> QED
      BY <3>3, <3>4
  <2>3. Rec(g, m + 1)
    <3>1. g = [d \in 1..m + 1 |-> g[d]]
      OBVIOUS
    <3> HIDE DEF g
    <3> QED
      BY <2>2, <3>1
  <2> HIDE DEF Rec, g
  <2> QED
    BY <2>3
<1>3. Nat \subseteq I
  <2> HIDE DEF I
  <2> QED
    BY <1>1, <1>2, InductionInSets
<1>4. \E f : Rec(f, Depth)
  <2> HIDE DEF Rec
  <2> QED
    BY <1>3, DepthFacts
<1> DEFINE F == CHOOSE f : Rec(f, Depth)
<1>5. Rec(F, Depth)
  <2> HIDE DEF Rec
  <2> QED
    BY <1>4
<1>6. F = Find
  BY DEF Find, Look, Looked
<1> HIDE DEF F
<1> QED
  BY <1>5, <1>6

-----------------------------------------------------------------------------
(* The interval tree: one node *)

\* The greatest of the numbers f[1], ..., f[n].
LEMMA MaxOfInts ==
  ASSUME NEW n \in Nat \ {0}, NEW f \in [1..n -> Int]
  PROVE  Max({f[i] : i \in 1..n}) \in Int
<1> DEFINE Greatest(m, k) == m \in 1..k /\ \A i \in 1..k : f[i] <= f[m]
           I == {k \in Nat : k + 1 <= n => \E m : Greatest(m, k + 1)}
           T == {f[i] : i \in 1..n}
<1>1. 0 \in I
  <2>1. n >= 1 => Greatest(1, 1)
    OBVIOUS
  <2>2. 0 + 1 = 1
    OBVIOUS
  <2> HIDE DEF Greatest
  <2> QED
    BY <2>1, <2>2
<1>2. ASSUME NEW k \in Nat, k \in I PROVE k + 1 \in I
  <2> SUFFICES ASSUME (k + 1) + 1 <= n PROVE \E m : Greatest(m, (k + 1) + 1)
    OBVIOUS
  <2> DEFINE j == (k + 1) + 1
  <2>1. PICK m : Greatest(m, k + 1)
    BY <1>2
  <2>0. j \in 1..n /\ m \in 1..n /\ \A i \in 1..j : i \in 1..n /\ (i = j \/ i \in 1..k + 1)
    BY <2>1
  <2>2. CASE f[m] <= f[j]
    <3>1. Greatest(j, j)
      BY <2>0, <2>1, <2>2
    <3> HIDE DEF Greatest
    <3> QED
      BY <3>1
  <2>3. CASE ~(f[m] <= f[j])
    <3>1. Greatest(m, j)
      BY <2>0, <2>1, <2>3
    <3> HIDE DEF Greatest
    <3> QED
      BY <3>1
  <2> QED
    BY <2>2, <2>3
<1> HIDE DEF I
<1>3. Nat \subseteq I
  BY <1>1, <1>2, InductionInSets
<1>4. PICK m : Greatest(m, n)
  <2> HIDE DEF Greatest
  <2>1. n - 1 \in I /\ (n - 1) + 1 = n
    BY <1>3
  <2> QED
    BY <2>1 DEF I
<1>5. f[m] \in T /\ \A y \in T : f[m] >= y
  BY <1>4
<1>6. T \subseteq Int
  OBVIOUS
<1> HIDE DEF T
<1>7. Max(T) \in T
  BY <1>5 DEF Max
<1> QED
  BY <1>6, <1>7 DEF T

\* A call that the program makes: with extents, the intervals are in order.
Proper(c) ==
  /\ c \in Calls
  /\ c.leftextent # 0 \/ c.rightextent # 0 => StartOrder(c.ivals)

\* What is dealt out to a node and its children.
DealtOut(c, d) ==
  /\ d.center \in Int /\ d.mids \in Seq(AllIntervals) /\ StartOrder(d.mids)
  /\ Proper(d.lefts) /\ Proper(d.rights)
  /\ \A x \in AllIntervals :
       /\ Count(c.ivals, x) = Count(d.mids, x) + Count(d.lefts.ivals, x) + Count(d.rights.ivals, x)
       /\ Count(d.lefts.ivals, x) # 0 => x.stop < d.center
       /\ Count(d.rights.ivals, x) # 0 => x.start > d.center

LEMMA DividedFacts ==
  ASSUME NEW c, Proper(c), c.ivals # <<>>
  PROVE  DealtOut(c, Divided(c))
<1> DEFINE given  == c.leftextent # 0 \/ c.rightextent # 0
           v      == IF given THEN c.ivals ELSE Sorted(c.ivals)
           leftp  == IF given THEN c.leftextent ELSE v[1].start
           rightp == IF given THEN c.rightextent ELSE Max({v[i].stop : i \in DOMAIN v})
           center == v[Len(v) \div 2 + 1].start
           before == {i \in AllIntervals : i.stop < center}
           after  == {i \in AllIntervals : i.start > center} \ before
           rest   == AllIntervals \ (before \cup after)
           n      == Len(v)
           lefts  == [ivals |-> Those(v, before), leftextent |-> leftp,
                      rightextent |-> center, maxbucket |-> 512]
           rights == [ivals |-> Those(v, after), leftextent |-> center,
                      rightextent |-> rightp, maxbucket |-> 512]
           d == Divided(c)
<1>1. /\ c.ivals \in Seq(AllIntervals) /\ c.leftextent \in Int /\ c.rightextent \in Int
      /\ given => StartOrder(c.ivals)
  BY DEF Proper, Calls
<1>2. /\ v \in Seq(AllIntervals) /\ Len(v) = Len(c.ivals) /\ StartOrder(v)
      /\ \A x : Count(v, x) = Count(c.ivals, x)
  <2>1. CASE given
    BY <1>1, <2>1
  <2>2. CASE ~given
    <3>1. Rearranged(Sorted(c.ivals), c.ivals)
      BY <1>1, SortedFacts
    <3> QED
      BY <2>2, <3>1 DEF Rearranged
  <2> QED
    BY <2>1, <2>2
<1>3. d = [center |-> center, mids |-> Those(v, rest), lefts |-> lefts, rights |-> rights]
  BY DEF Divided
<1> HIDE DEF v, d, given
<1>4. n \in Nat /\ n >= 1 /\ DOMAIN v = 1..n /\ \A i \in 1..n : v[i] \in AllIntervals
  BY <1>1, <1>2
<1>5. center \in Int /\ v[1].start \in Int
  <2>1. n \div 2 + 1 \in 1..n /\ 1 \in 1..n
    BY <1>4
  <2> QED
    BY <1>4, <2>1, IntervalFacts
<1>6. Max({v[i].stop : i \in DOMAIN v}) \in Int
  <2> DEFINE f == [i \in 1..n |-> v[i].stop]
  <2>1. f \in [1..n -> Int] /\ n \in Nat \ {0}
    BY <1>4, IntervalFacts
  <2>2. {v[i].stop : i \in DOMAIN v} = {f[i] : i \in 1..n}
    BY <1>4
  <2> HIDE DEF f, n
  <2> QED
    BY <2>1, <2>2, MaxOfInts
<1>7. leftp \in Int /\ rightp \in Int
  <2> HIDE DEF n
  <2> QED
    BY <1>1, <1>5, <1>6
<1> HIDE DEF before, after, rest, center, leftp, rightp, n
<1>8. \A S : /\ Those(v, S) \in Seq(AllIntervals) /\ StartOrder(Those(v, S))
             /\ \A x : Count(Those(v, S), x) = IF x \in S THEN Count(v, x) ELSE 0
  BY <1>2, ThoseFacts
<1>9. Proper(lefts) /\ Proper(rights)
  <2>1. lefts \in Calls /\ rights \in Calls
    BY <1>5, <1>7, <1>8 DEF Calls
  <2> QED
    BY <1>8, <2>1 DEF Proper
<1>10. ASSUME NEW x \in AllIntervals
       PROVE  /\ Count(c.ivals, x)
                   = Count(Those(v, rest), x) + Count(Those(v, before), x) + Count(Those(v, after), x)
              /\ Count(Those(v, before), x) # 0 => x.stop < center
              /\ Count(Those(v, after), x) # 0 => x.start > center
  <2>0. Count(v, x) \in Nat
    BY <1>2, CountType
  <2>1. /\ Count(Those(v, rest), x) = IF x \in rest THEN Count(v, x) ELSE 0
        /\ Count(Those(v, before), x) = IF x \in before THEN Count(v, x) ELSE 0
        /\ Count(Those(v, after), x) = IF x \in after THEN Count(v, x) ELSE 0
    BY <1>8
  <2>2. /\ x \in rest <=> ~(x \in before \/ x \in after)
        /\ x \in before => x.stop < center /\ x \notin after
        /\ x \in after => x.start > center
    BY DEF rest, before, after
  <2> QED
    BY <1>2, <2>0, <2>1, <2>2
<1>11. /\ d.center = center /\ d.mids = Those(v, rest) /\ d.lefts = lefts /\ d.rights = rights
       /\ lefts.ivals = Those(v, before) /\ rights.ivals = Those(v, after)
  BY <1>3
<1> HIDE DEF lefts, rights
<1>12. DealtOut(c, d)
  BY <1>5, <1>8, <1>9, <1>10, <1>11 DEF DealtOut
<1> QED
  BY <1>12 DEF d

\* What a search has to give.
Answer(found, s, q) ==
  /\ found \in Seq(AllIntervals)
  /\ \A x \in AllIntervals : Count(found, x) = IF Wanted(x, q) THEN Count(s, x) ELSE 0

\* A wanted interval starts before the query ends and ends after it starts.
LEMMA WantedFacts ==
  ASSUME NEW x \in AllIntervals, NEW q \in Queries, Wanted(x, q)
  PROVE  x.start <= q.stop /\ x.stop >= q.start
  BY IntervalFacts DEF Wanted, Overlaps, Contained, Queries

LEMMA InNodeFacts ==
  ASSUME NEW n, n.intervals \in Seq(AllIntervals), StartOrder(n.intervals), NEW q \in Queries
  PROVE  Answer(InNode(n, q), n.intervals, q)
<1> DEFINE s == n.intervals
           W == {i \in AllIntervals : Wanted(i, q)}
<1>1. /\ Those(s, W) \in Seq(AllIntervals)
      /\ \A x : Count(Those(s, W), x) = IF x \in W THEN Count(s, x) ELSE 0
  <2> HIDE DEF W
  <2> QED
    BY ThoseFacts
<1>2. CASE s # <<>> /\ ~(q.stop < s[1].start)
  <2>1. InNode(n, q) = Those(s, W)
    BY <1>2 DEF InNode
  <2> QED
    BY <1>1, <2>1 DEF Answer
<1>3. CASE ~(s # <<>> /\ ~(q.stop < s[1].start))
  <2>1. InNode(n, q) = <<>>
    BY <1>3 DEF InNode
  <2>2. ASSUME NEW x \in AllIntervals, Wanted(x, q) PROVE Count(s, x) = 0
    <3>1. ASSUME NEW j \in 1..Len(s), s[j] = x PROVE FALSE
      <4>1. s # <<>> /\ 1 \in 1..Len(s) /\ DOMAIN s = 1..Len(s) /\ s[1] \in AllIntervals
        BY <3>1
      <4>2. q.stop < s[1].start
        BY <1>3, <4>1
      <4>3. ~(x.start < s[1].start)
        <5>1. CASE j = 1
          BY <3>1, <5>1, <4>1, IntervalFacts
        <5>2. CASE j # 1
          BY <3>1, <4>1, <5>2 DEF StartOrder, intervalStartSorter
        <5> QED
          BY <5>1, <5>2
      <4>4. x.start <= q.stop /\ x.start \in Int /\ s[1].start \in Int /\ q.stop \in Int
        BY <2>2, <4>1, WantedFacts, IntervalFacts DEF Queries
      <4> QED
        BY <4>2, <4>3, <4>4
    <3>2. \A j \in 1..Len(s) : s[j] # x
      BY <3>1
    <3> QED
      BY <3>2, CountType
  <2> QED
    BY <2>1, <2>2, CountNone DEF Answer
<1> QED
  BY <1>2, <1>3

-----------------------------------------------------------------------------
(* The interval tree: the whole tree *)

\* A tree of at most d levels that answers every query about s.
Answers(d, tree, s) ==
  /\ tree \in Trees[d] \ {NoTree}
  /\ \A q \in Queries : Answer(Find[d][tree][q], s, q)

LEMMA BuiltIs ==
  ASSUME NEW d \in 1..Depth, NEW c \in Calls
  PROVE  /\ IsLeaf(c, d) =>
              IntervalTree[d][c] =
                <<[intervals |-> Sorted(c.ivals), center |-> 0, left |-> NoTree, right |-> NoTree]>>
         /\ ~IsLeaf(c, d) =>
              IntervalTree[d][c] =
                <<[intervals |-> Divided(c).mids, center |-> Divided(c).center,
                   left  |-> IF Divided(c).lefts.ivals = <<>> THEN NoTree
                             ELSE IntervalTree[d - 1][Divided(c).lefts],
                   right |-> IF Divided(c).rights.ivals = <<>> THEN NoTree
                             ELSE IntervalTree[d - 1][Divided(c).rights]]>>
<1> DEFINE h == IntervalTree[d - 1]
<1>1. IntervalTree[d] = Built(h, d)
  <2> DEFINE B(i) == Built(IntervalTree[i - 1], i)
  <2>1. IntervalTree = [i \in 1..Depth |-> B(i)]
    BY ConstructorRecursion
  <2> HIDE DEF B
  <2>2. IntervalTree[d] = B(d)
    BY <2>1
  <2> QED
    BY <2>2 DEF B
<1> HIDE DEF h
<1>2. IntervalTree[d][c] = Built(h, d)[c]
  BY <1>1
<1>3. /\ IsLeaf(c, d) =>
           Built(h, d)[c] = <<[intervals |-> Sorted(c.ivals), center |-> 0, left |-> NoTree, right |-> NoTree]>>
      /\ ~IsLeaf(c, d) =>
           Built(h, d)[c] =
             <<[intervals |-> Divided(c).mids, center |-> Divided(c).center,
                left  |-> IF Divided(c).lefts.ivals = <<>> THEN NoTree ELSE h[Divided(c).lefts],
                right |-> IF Divided(c).rights.ivals = <<>> THEN NoTree ELSE h[Divided(c).rights]]>>
  BY DEF Built
<1> QED
  BY <1>2, <1>3 DEF h

LEMMA FindIs ==
  ASSUME NEW d \in 1..Depth, NEW tree \in Trees[d] \ {NoTree}, NEW q \in Queries
  PROVE  Find[d][tree][q] = Looked(Find[d - 1], tree, q)
<1>1. Find[d] = Look(Find[d - 1], d)
  <2> DEFINE B(i) == Look(Find[i - 1], i)
  <2>1. Find = [i \in 1..Depth |-> B(i)]
    BY SearchRecursion
  <2> HIDE DEF B
  <2>2. Find[d] = B(d)
    BY <2>1
  <2> QED
    BY <2>2 DEF B
<1>2. Look(Find[d - 1], d)[tree][q] = Looked(Find[d - 1], tree, q)
  BY DEF Look
<1> QED
  BY <1>1, <1>2

\* A leaf: everything is in the node.
LEMMA LeafAnswers ==
  ASSUME NEW d \in 1..Depth, NEW c, Proper(c), IsLeaf(c, d)
  PROVE  Answers(d, IntervalTree[d][c], c.ivals)
<1> DEFINE n == [intervals |-> Sorted(c.ivals), center |-> 0, left |-> NoTree, right |-> NoTree]
<1>1. c \in Calls /\ c.ivals \in Seq(AllIntervals)
  BY DEF Proper, Calls
<1>2. IntervalTree[d][c] = <<n>>
  BY <1>1, BuiltIs
<1>3. Rearranged(Sorted(c.ivals), c.ivals)
  BY <1>1, SortedFacts
<1>4. NoTree \in Trees[d - 1]
  <2>1. CASE d = 1
    BY <2>1, TreeFacts
  <2>2. CASE d # 1
    <3>1. d - 1 \in 1..Depth
      BY <2>2, DepthFacts
    <3> QED
      BY <3>1, TreeFacts
  <2> QED
    BY <2>1, <2>2
<1>5. n \in Nodes(Trees[d - 1])
  BY <1>3, <1>4 DEF Nodes, Rearranged
<1>6. /\ n.intervals = Sorted(c.ivals) /\ n.left = NoTree /\ n.right = NoTree
      /\ <<n>>[1] = n
  OBVIOUS
<1> HIDE DEF n
<1>7. <<n>> \in Trees[d] \ {NoTree}
  BY <1>5, TreeFacts
<1>8. ASSUME NEW q \in Queries PROVE Answer(Find[d][<<n>>][q], c.ivals, q)
  <2>1. Answer(InNode(n, q), n.intervals, q)
    BY <1>3, <1>6, InNodeFacts DEF Rearranged
  <2>2. Find[d][<<n>>][q] = InNode(n, q) \o <<>> \o <<>>
    <3>1. Find[d][<<n>>][q] = Looked(Find[d - 1], <<n>>, q)
      BY <1>7, FindIs
    <3> QED
      BY <1>6, <3>1 DEF Looked
  <2>3. InNode(n, q) \o <<>> \o <<>> = InNode(n, q)
    BY <2>1 DEF Answer
  <2> QED
    BY <1>3, <1>6, <2>1, <2>2, <2>3 DEF Answer, Rearranged
<1> QED
  BY <1>2, <1>7, <1>8 DEF Answers

\* A child, searched only if the guard allows it, gives what is wanted of its intervals.
LEMMA ChildAnswers ==
  ASSUME NEW d \in Nat, NEW s \in Seq(AllIntervals), NEW child, NEW q \in Queries,
         NEW guard \in BOOLEAN,
         s = <<>> => child = NoTree, s # <<>> => Answers(d, child, s),
         ~guard => \A x \in AllIntervals : Count(s, x) # 0 => ~Wanted(x, q)
  PROVE  Answer(IF child # NoTree /\ guard THEN Find[d][child][q] ELSE <<>>, s, q)
<1>1. CASE s # <<>> /\ guard
  BY <1>1 DEF Answers
<1>2. CASE s = <<>>
  <2>1. \A x : Count(s, x) = 0
    BY <1>2, CountNone
  <2> QED
    BY <1>2, <2>1 DEF Answer
<1>3. CASE ~guard
  BY <1>3, CountNone DEF Answer
<1> QED
  BY <1>1, <1>2, <1>3

\* An inner node: the center decides where to look.
LEMMA InnerAnswers ==
  ASSUME NEW d \in 2..Depth, NEW c, Proper(c), ~IsLeaf(c, d),
         \A e : Proper(e) => Answers(d - 1, IntervalTree[d - 1][e], e.ivals)
  PROVE  Answers(d, IntervalTree[d][c], c.ivals)
<1> DEFINE D == Divided(c)
           left  == IF D.lefts.ivals = <<>> THEN NoTree ELSE IntervalTree[d - 1][D.lefts]
           right == IF D.rights.ivals = <<>> THEN NoTree ELSE IntervalTree[d - 1][D.rights]
           n == [intervals |-> D.mids, center |-> D.center, left |-> left, right |-> right]
<1>0. d \in 1..Depth /\ d - 1 \in 1..Depth /\ d - 1 \in Nat
  BY DepthFacts
<1>1. c \in Calls /\ c.ivals # <<>>
  <2>1. c \in Calls
    BY DEF Proper
  <2>2. c.maxbucket \in Nat /\ c.maxbucket # 0
    BY <2>1 DEF Calls
  <2>3. ASSUME c.ivals = <<>> PROVE IsLeaf(c, d)
    <3>1. Len(c.ivals) = 0
      BY <2>3
    <3> QED
      BY <2>2, <3>1, DepthFacts DEF IsLeaf
  <2> QED
    BY <2>1, <2>3
<1>2. IntervalTree[d][c] = <<n>>
  BY <1>0, <1>1, BuiltIs
<1>3. DealtOut(c, D)
  BY <1>1, DividedFacts
<1> HIDE DEF D
<1>4. /\ D.center \in Int /\ D.mids \in Seq(AllIntervals) /\ StartOrder(D.mids)
      /\ D.lefts.ivals \in Seq(AllIntervals) /\ D.rights.ivals \in Seq(AllIntervals)
  BY <1>3 DEF DealtOut, Proper, Calls
<1>5. Answers(d - 1, IntervalTree[d - 1][D.lefts], D.lefts.ivals)
      /\ Answers(d - 1, IntervalTree[d - 1][D.rights], D.rights.ivals)
  BY <1>3 DEF DealtOut
<1>6. left \in Trees[d - 1] /\ right \in Trees[d - 1]
  BY <1>0, <1>5, TreeFacts DEF Answers
<1> HIDE DEF left, right
<1>7. n \in Nodes(Trees[d - 1])
  BY <1>4, <1>6 DEF Nodes
<1>8. /\ n.intervals = D.mids /\ n.center = D.center /\ n.left = left /\ n.right = right
      /\ <<n>>[1] = n
  OBVIOUS
<1> HIDE DEF n
<1>9. <<n>> \in Trees[d] \ {NoTree}
  BY <1>0, <1>7, TreeFacts
<1>10. ASSUME NEW q \in Queries PROVE Answer(Find[d][<<n>>][q], c.ivals, q)
  <2> DEFINE a == InNode(n, q)
             b == IF left # NoTree /\ q.start <= D.center THEN Find[d - 1][left][q] ELSE <<>>
             e == IF right # NoTree /\ q.stop >= D.center THEN Find[d - 1][right][q] ELSE <<>>
  <2>1. Find[d][<<n>>][q] = a \o b \o e
    <3>1. Find[d][<<n>>][q] = Looked(Find[d - 1], <<n>>, q)
      BY <1>0, <1>9, FindIs
    <3> QED
      BY <1>8, <3>1 DEF Looked
  <2>2. Answer(a, D.mids, q)
    BY <1>4, <1>8, InNodeFacts
  <2>3. q.start \in Int /\ q.stop \in Int
    BY DEF Queries
  <2>4. Answer(b, D.lefts.ivals, q)
    <3> DEFINE guard == q.start <= D.center
               s == D.lefts.ivals
    <3>1. guard \in BOOLEAN /\ s \in Seq(AllIntervals)
      BY <1>4
    <3>2. (s = <<>> => left = NoTree) /\ (s # <<>> => Answers(d - 1, left, s))
      BY <1>5 DEF left
    <3>3. ASSUME ~guard, NEW x \in AllIntervals, Count(s, x) # 0 PROVE ~Wanted(x, q)
      <4>1. x.stop < D.center
        BY <1>3, <3>3 DEF DealtOut
      <4> QED
        BY <1>4, <2>3, <3>3, <4>1, WantedFacts, IntervalFacts
    <3> HIDE DEF guard, s
    <3>4. Answer(IF left # NoTree /\ guard THEN Find[d - 1][left][q] ELSE <<>>, s, q)
      BY <1>0, <3>1, <3>2, <3>3, ChildAnswers
    <3> QED
      BY <3>4 DEF guard, s
  <2>5. Answer(e, D.rights.ivals, q)
    <3> DEFINE guard == q.stop >= D.center
               s == D.rights.ivals
    <3>1. guard \in BOOLEAN /\ s \in Seq(AllIntervals)
      BY <1>4
    <3>2. (s = <<>> => right = NoTree) /\ (s # <<>> => Answers(d - 1, right, s))
      BY <1>5 DEF right
    <3>3. ASSUME ~guard, NEW x \in AllIntervals, Count(s, x) # 0 PROVE ~Wanted(x, q)
      <4>1. x.start > D.center
        BY <1>3, <3>3 DEF DealtOut
      <4> QED
        BY <1>4, <2>3, <3>3, <4>1, WantedFacts, IntervalFacts
    <3> HIDE DEF guard, s
    <3>4. Answer(IF right # NoTree /\ guard THEN Find[d - 1][right][q] ELSE <<>>, s, q)
      BY <1>0, <3>1, <3>2, <3>3, ChildAnswers
    <3> QED
      BY <3>4 DEF guard, s
  <2> HIDE DEF a, b, e
  <2>6. a \in Seq(AllIntervals) /\ b \in Seq(AllIntervals) /\ e \in Seq(AllIntervals)
    BY <2>2, <2>4, <2>5 DEF Answer
  <2>7. a \o b \in Seq(AllIntervals) /\ a \o b \o e \in Seq(AllIntervals)
    BY <2>6
  <2>8. ASSUME NEW x \in AllIntervals
        PROVE  Count(a \o b \o e, x) = IF Wanted(x, q) THEN Count(c.ivals, x) ELSE 0
    <3> DEFINE ab == a \o b
    <3>1. Count(ab, x) = Count(a, x) + Count(b, x)
      BY ONLY <2>6, CountConcat
    <3>2. ab \in Seq(AllIntervals)
      BY <2>7
    <3> HIDE DEF ab
    <3>3. Count(ab \o e, x) = Count(ab, x) + Count(e, x)
      BY ONLY <2>6, <3>2, CountConcat
    <3>4. /\ Count(a, x) = IF Wanted(x, q) THEN Count(D.mids, x) ELSE 0
          /\ Count(b, x) = IF Wanted(x, q) THEN Count(D.lefts.ivals, x) ELSE 0
          /\ Count(e, x) = IF Wanted(x, q) THEN Count(D.rights.ivals, x) ELSE 0
      BY <2>2, <2>4, <2>5 DEF Answer
    <3>5. Count(c.ivals, x) = Count(D.mids, x) + Count(D.lefts.ivals, x) + Count(D.rights.ivals, x)
      BY <1>3 DEF DealtOut
    <3>6. Count(ab \o e, x) = IF Wanted(x, q) THEN Count(c.ivals, x) ELSE 0
      BY <3>1, <3>3, <3>4, <3>5
    <3> QED
      BY <3>6 DEF ab
  <2> QED
    BY <2>1, <2>7, <2>8 DEF Answer
<1> QED
  BY <1>2, <1>9, <1>10 DEF Answers

\* By induction over the levels.
LEMMA TreeAnswers ==
  ASSUME NEW d \in 1..Depth, NEW c, Proper(c)
  PROVE  Answers(d, IntervalTree[d][c], c.ivals)
<1> DEFINE All(i) == \A e : Proper(e) => Answers(i, IntervalTree[i][e], e.ivals)
           I == {i \in Nat : i + 1 <= Depth => All(i + 1)}
<1>1. 0 \in I
  <2>1. 0 + 1 = 1 /\ 1 \in 1..Depth
    BY DepthFacts
  <2>2. ASSUME NEW e, Proper(e) PROVE Answers(1, IntervalTree[1][e], e.ivals)
    <3>1. IsLeaf(e, 1)
      BY DEF IsLeaf
    <3> QED
      BY <2>1, <2>2, <3>1, LeafAnswers
  <2> QED
    BY <2>1, <2>2
<1>2. ASSUME NEW i \in Nat, i \in I PROVE i + 1 \in I
  <2> SUFFICES ASSUME (i + 1) + 1 <= Depth PROVE All((i + 1) + 1)
    OBVIOUS
  <2> DEFINE k == (i + 1) + 1
  <2>1. k \in 2..Depth /\ k \in 1..Depth /\ k - 1 = i + 1 /\ i + 1 <= Depth
    BY DepthFacts
  <2>2. All(k - 1)
    <3> HIDE DEF All, k
    <3> QED
      BY <1>2, <2>1
  <2> HIDE DEF k
  <2>3. ASSUME NEW e, Proper(e) PROVE Answers(k, IntervalTree[k][e], e.ivals)
    BY <2>1, <2>2, <2>3, LeafAnswers, InnerAnswers
  <2>4. All(k)
    BY <2>3
  <2> HIDE DEF All
  <2> QED
    BY <2>4 DEF k
<1> HIDE DEF I
<1>3. Nat \subseteq I
  BY <1>1, <1>2, InductionInSets
<1>4. All(d)
  <2> HIDE DEF All
  <2>1. d - 1 \in I /\ (d - 1) + 1 = d /\ d <= Depth
    BY <1>3, DepthFacts
  <2> QED
    BY <2>1 DEF I
<1> QED
  BY <1>4

LEMMA IntervalsAlways == IntervalsSpec => [](ivals \in Seq(AllIntervals))
<1>1. IntervalsInit => ivals \in Seq(AllIntervals)
  BY DEF IntervalsInit
<1>2. ivals \in Seq(AllIntervals) /\ [IntervalsNext]_intervalVars => (ivals \in Seq(AllIntervals))'
  BY DEF IntervalsNext, intervalVars
<1> QED
  BY <1>1, <1>2, PTL DEF IntervalsSpec

LEMMA TreeSearches == ivals \in Seq(AllIntervals) => SearchesMissNothing
<1> SUFFICES ASSUME ivals \in Seq(AllIntervals) PROVE SearchesMissNothing
  OBVIOUS
<1> DEFINE c == [ivals |-> ivals, leftextent |-> 0, rightextent |-> 0, maxbucket |-> MaxBucket]
<1>1. Depth \in 1..Depth /\ MaxBucket \in Nat \ {0}
  BY DepthFacts
<1>2. Proper(c) /\ c.ivals = ivals
  BY <1>1 DEF Proper, Calls
<1>3. Answers(Depth, FullTree, ivals)
  <2>1. FullTree = IntervalTree[Depth][c]
    BY DEF FullTree
  <2> HIDE DEF c
  <2>2. Answers(Depth, IntervalTree[Depth][c], c.ivals)
    BY <1>1, <1>2, TreeAnswers
  <2> QED
    BY <1>2, <2>1, <2>2
<1>4. ASSUME NEW a \in Points, NEW b \in Points, NEW how \in {"overlapping", "contained"}
      PROVE  [how |-> how, start |-> a, stop |-> b] \in Queries
  BY IntervalsAssumption DEF Queries
<1>5. ASSUME NEW a \in Points, NEW b \in Points, NEW how \in {"overlapping", "contained"}
      PROVE  LET q     == [how |-> how, start |-> a, stop |-> b]
                 found == Find[Depth][FullTree][q]
             IN  \A x \in Range(found) \cup Range(ivals) :
                   Count(found, x) = IF Wanted(x, q) THEN Count(ivals, x) ELSE 0
  <2> DEFINE q     == [how |-> how, start |-> a, stop |-> b]
             found == Find[Depth][FullTree][q]
  <2>1. q \in Queries
    BY <1>4
  <2> HIDE DEF q
  <2>2. Answer(found, ivals, q)
    BY <1>3, <2>1 DEF Answers
  <2> HIDE DEF found
  <2>3. Range(found) \cup Range(ivals) \subseteq AllIntervals
    BY <2>2 DEF Answer, Range
  <2> QED
    BY <2>2, <2>3 DEF Answer, q, found
<1> QED
  BY <1>5 DEF SearchesMissNothing

\* Whatever the intervals, in whatever order they came and however deep the tree may
\* get: both searches return each interval that overlaps (is contained in) the query
\* as often as it was given, and nothing else (IntervalTree, findOverlapping,
\* findContained).
THEOREM NothingMissed == IntervalsSpec => []SearchesMissNothing
  BY IntervalsAlways, TreeSearches, PTL

=============================================================================
