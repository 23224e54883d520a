----------------------------- MODULE HashTable -----------------------------
(***************************************************************************)
(* The chained hash table of the ZooKeeper client (hashtable.c), which     *)
(* holds the watchers of every path, and its iterator (hashtable_itr.c).   *)
(* The bucket lists are sequences; an entry keeps its hash.  malloc and    *)
(* realloc may fail at every call.                                         *)
(***************************************************************************)
EXTENDS Integers, FiniteSetsExt, SequencesExt

CONSTANTS Keys, Values,
          Hash,          \* the hash of every key
          Primes,        \* the sizes a table may have
          MaxEntries     \* bound on the entries of the model

VARIABLES table, primeindex, entrycount, loadlimit,
          itr,           \* the iterator: its bucket and the place of e in it
          visited,       \* the keys the iteration has been at
          begun,         \* the keys that were in the table when it began
          inserted,      \* what the client put and did not remove
          wild           \* the table was overwritten through a wild pointer

tableVars == <<table, primeindex, entrycount, loadlimit, itr, visited, begun, inserted, wild>>

ASSUME TableAssumption ==
  /\ Hash \in [Keys -> Nat] /\ MaxEntries \in Nat
  /\ Primes \in Seq(Nat \ {0}) /\ Len(Primes) > 0

-----------------------------------------------------------------------------

NoItr == [index |-> 0, at |-> 0]

tablelength == Len(table)

indexFor(length, h) == (h % length) + 1

\* ceil(size * max_load_factor), a factor of 0.65
LoadLimit(size) == (65 * size + 99) \div 100

Entry(k, v) == [h |-> Hash[k], k |-> k, v |-> v]

\* The smallest prime above minsize.
create_hashtable(minsize) ==
  /\ primeindex = Min({i \in DOMAIN Primes : Primes[i] > minsize} \cup {Len(Primes)})
  /\ table = [i \in 1..Primes[primeindex] |-> <<>>]
  /\ loadlimit = LoadLimit(Primes[primeindex])
  /\ entrycount = 0

TableInit ==
  /\ create_hashtable(0)
  /\ itr = NoItr /\ visited = <<>> /\ begun = {} /\ inserted = {} /\ wild = FALSE

\* An entry goes to the head of its list.
PutFirst(t, e) == [t EXCEPT ![indexFor(Len(t), e.h)] = <<e>> \o @]

MoveList(t, list) == FoldLeft(PutFirst, t, list)

\* The index for the size before.
Rehashed_OldSize(newsize) ==
  LET put(t, e)     == [t EXCEPT ![indexFor(tablelength, e.h)] = <<e>> \o @]
      move(t, list) == FoldLeft(put, t, list)
  IN  FoldLeft(move, [i \in 1..newsize |-> <<>>], table)

\* Every entry moves to the new table, list after list.
Rehashed(newsize) == FoldLeft(MoveList, [i \in 1..newsize |-> <<>>], table)

NoExpansion == [t |-> table, p |-> primeindex, l |-> loadlimit, broken |-> FALSE]

\* What hashtable_expand may leave.  When malloc fails and realloc does not,
\* memset is given the contents of a slot, not its address.
hashtable_expand ==
  LET p == primeindex + 1
  IN  IF primeindex = Len(Primes) THEN {NoExpansion}
      ELSE {NoExpansion,
            [t |-> Rehashed(Primes[p]), p |-> p, l |-> LoadLimit(Primes[p]), broken |-> FALSE],
            [t |-> table, p |-> p, l |-> LoadLimit(Primes[p]), broken |-> TRUE]}

\* Grows when the new count is above the limit; a failure to grow is ignored, a
\* failure to make the entry takes the count back.
hashtable_insert(k, v) ==
  /\ itr = NoItr /\ ~wild /\ Cardinality(inserted) < MaxEntries
  /\ \E x \in IF entrycount + 1 > loadlimit THEN hashtable_expand ELSE {NoExpansion} :
       /\ primeindex' = x.p /\ loadlimit' = x.l /\ wild' = x.broken
       /\ \/ /\ table' = PutFirst(x.t, Entry(k, v))
             /\ entrycount' = entrycount + 1
             /\ inserted' = inserted \cup {<<k, v>>}
          \/ table' = x.t /\ UNCHANGED <<entrycount, inserted>>
  /\ UNCHANGED <<itr, visited, begun>>

\* The places of k in its list; search takes the first.
Found(k) ==
  LET list == table[indexFor(tablelength, Hash[k])]
  IN  {j \in DOMAIN list : list[j].h = Hash[k] /\ list[j].k = k}

hashtable_search(k) ==
  IF Found(k) = {} THEN {} ELSE {table[indexFor(tablelength, Hash[k])][Min(Found(k))].v}

hashtable_remove(k) ==
  /\ itr = NoItr /\ ~wild
  /\ LET i == indexFor(tablelength, Hash[k])
     IN  IF Found(k) = {} THEN UNCHANGED <<table, entrycount, inserted>>
         ELSE /\ table' = [table EXCEPT ![i] = RemoveAt(@, Min(Found(k)))]
              /\ entrycount' = entrycount - 1
              /\ inserted' = {p \in inserted : p[1] # k}
  /\ UNCHANGED <<primeindex, loadlimit, itr, visited, begun, wild>>

-----------------------------------------------------------------------------
(* The iterator.  An e that is NULL is at = 0. *)

\* The first entry of a bucket after i, in table t.
NextBucket(t, i) ==
  LET rest == {j \in i + 1..Len(t) : t[j] # <<>>}
  IN  IF rest = {} THEN NoItr ELSE [index |-> Min(rest), at |-> 1]

Keep(pos, t) == IF pos = NoItr THEN visited ELSE Append(visited, t[pos.index][pos.at].k)

hashtable_iterator ==
  /\ itr = NoItr /\ ~wild /\ entrycount # 0
  /\ itr' = NextBucket(table, 0)
  /\ visited' = <<table[itr'.index][itr'.at].k>>
  /\ begun' = {p[1] : p \in inserted}
  /\ UNCHANGED <<table, primeindex, entrycount, loadlimit, inserted, wild>>

hashtable_iterator_search(k) ==
  /\ itr # NoItr
  /\ Found(k) # {}
  /\ itr' = [index |-> indexFor(tablelength, Hash[k]), at |-> Min(Found(k))]
  /\ visited' = <<k>> /\ begun' = {}        \* what follows is not a full iteration
  /\ UNCHANGED <<table, primeindex, entrycount, loadlimit, inserted, wild>>

hashtable_iterator_advance ==
  /\ itr # NoItr
  /\ itr' = IF itr.at < Len(table[itr.index]) THEN [itr EXCEPT !.at = @ + 1]
            ELSE NextBucket(table, itr.index)
  /\ visited' = Keep(itr', table)
  /\ UNCHANGED <<table, primeindex, entrycount, loadlimit, begun, inserted, wild>>

\* Where the iterator is when its entry is gone.
AfterRemoval ==
  IF itr.at < Len(table[itr.index]) THEN itr ELSE NextBucket(table, itr.index)

\* e leaves its list; the one behind it, which takes its place, is next.
hashtable_iterator_remove ==
  /\ itr # NoItr
  /\ LET k == table[itr.index][itr.at].k
     IN  inserted' = {p \in inserted : p[1] # k}
  /\ table' = [table EXCEPT ![itr.index] = RemoveAt(@, itr.at)]
  /\ entrycount' = entrycount - 1
  /\ itr' = AfterRemoval
  /\ visited' = Keep(itr', table')
  /\ UNCHANGED <<primeindex, loadlimit, begun, wild>>

\* The driver inserts a key only after a search for it failed.
TableNext ==
  \/ \E k \in Keys, v \in Values : hashtable_search(k) = {} /\ hashtable_insert(k, v)
  \/ \E k \in Keys : hashtable_remove(k) \/ hashtable_iterator_search(k)
  \/ hashtable_iterator \/ hashtable_iterator_advance \/ hashtable_iterator_remove

TableSpec == TableInit /\ [][TableNext]_tableVars

-----------------------------------------------------------------------------
(* Properties *)

\* The keys behind a position of the iterator, in table t.
Ahead(t, pos) ==
  {k \in Keys : /\ pos # NoItr
                /\ \E i \in pos.index..Len(t) : \E j \in DOMAIN t[i] :
                     t[i][j].k = k /\ (i = pos.index => j > pos.at)}

\* What an iteration has met and what is ahead of it are the keys it began with,
\* each met once; at its end it has met them all.
IterationMeetsAllOnce ==
  begun # {} =>
    /\ \A i, j \in DOMAIN visited : visited[i] = visited[j] => i = j
    /\ Range(visited) \cap Ahead(table, itr) = {}
    /\ Range(visited) \cup Ahead(table, itr) = begun

\* Through every expansion, failed expansion and failed insertion the table is
\* the map the client built: a search finds the value of every key that was put
\* and not removed and no other, entrycount is their number, so that the next
\* expansion is not early or late (hashtable_insert, hashtable_expand), and an
\* iteration meets every key once, also when it removes on its way the entry it
\* is at (hashtable_iterator_advance, hashtable_iterator_remove).
TableIsMap ==
  /\ ~wild => /\ \A k \in Keys : hashtable_search(k) = {p[2] : p \in {q \in inserted : q[1] = k}}
              /\ entrycount = Cardinality(inserted)
  /\ IterationMeetsAllOnce

=============================================================================
