----------------------------- MODULE Intervals -----------------------------
(***************************************************************************)
(* The interval tree of service_module/algorithm/trees/interval_tree       *)
(* (IntervalTree.h): how the constructor deals intervals out to the nodes, *)
(* and which subtrees the two searches leave out.                          *)
(***************************************************************************)
EXTENDS Integers, FiniteSetsExt, SequencesExt

CONSTANTS Points,           \* the end points of intervals
          Depth, MinBucket, MaxBucket,
          MaxIntervals

VARIABLE ivals              \* the vector the tree is built from

intervalVars == <<ivals>>

ASSUME IntervalsAssumption ==
  /\ Points \subseteq Int /\ {Depth, MinBucket, MaxBucket} \subseteq Nat \ {0}
  /\ MaxIntervals \in Nat

AllIntervals == {i \in [start : Points, stop : Points] : i.start <= i.stop}

IntervalsInit == ivals = <<>>

IntervalsNext ==
  /\ Len(ivals) < MaxIntervals
  /\ \E i \in AllIntervals : ivals' = Append(ivals, i)

IntervalsSpec == IntervalsInit /\ [][IntervalsNext]_intervalVars

-----------------------------------------------------------------------------
(* Vectors of intervals. *)

\* How often x occurs in s.
Count(s, x) == Cardinality({j \in DOMAIN s : s[j] = x})

intervalStartSorter(a, b) == a.start < b.start

StartOrder(s) == \A j \in DOMAIN s : \A i \in 1..j - 1 : ~intervalStartSorter(s[j], s[i])

\* std::sort: intervals with the same start may change places.
Sorted(s) ==
  CHOOSE t \in [DOMAIN s -> Range(s)] : StartOrder(t) /\ \A x \in Range(s) : Count(t, x) = Count(s, x)

\* The elements of s that are in S, one push_back after the other.
Those(s, S) ==
  LET push_back(v, i) == IF i \in S THEN Append(v, i) ELSE v
  IN  FoldLeft(push_back, <<>>, s)

-----------------------------------------------------------------------------
(* The tree. *)

NoTree == <<>>      \* a NULL child; other trees are sequences of one record

\* The trees with at most d levels.
Trees[d \in 0..Depth] ==
  IF d = 0 THEN {NoTree}
  ELSE {NoTree} \cup
         [1..1 -> [intervals : Seq(AllIntervals), center : Int,
                   left : Trees[d - 1], right : Trees[d - 1]]]

\* The arguments of the constructor that change from node to node.
Calls == [ivals : Seq(AllIntervals), leftextent : Int, rightextent : Int,
          maxbucket : Nat \ {0}]

IsLeaf(c, depth) ==
  depth - 1 = 0 \/ (Len(c.ivals) < MinBucket /\ Len(c.ivals) < c.maxbucket)

\* The intervals that cross the center stay; the others go to the children, whose
\* maxbucket is the default.  Only a call without extents sorts first.
Divided(c) ==
  LET given  == c.leftextent # 0 \/ c.rightextent # 0
      v      == IF given THEN c.ivals ELSE Sorted(c.ivals)
      leftp  == IF given THEN c.leftextent ELSE v[1].start
      rightp == IF given THEN c.rightextent ELSE Max({v[i].stop : i \in DOMAIN v})
      center == v[Len(v) \div 2 + 1].start
      before == {i \in AllIntervals : i.stop < center}
      after  == {i \in AllIntervals : i.start > center} \ before
  IN  [center |-> center, mids |-> Those(v, AllIntervals \ (before \cup after)),
       lefts  |-> [ivals |-> Those(v, before), leftextent |-> leftp,
                   rightextent |-> center, maxbucket |-> 512],
       rights |-> [ivals |-> Those(v, after), leftextent |-> center,
                   rightextent |-> rightp, maxbucket |-> 512]]

\* The constructor, by the levels it may still use.
IntervalTree[depth \in 1..Depth] ==
  [c \in Calls |->
     IF IsLeaf(c, depth)
     THEN <<[intervals |-> Sorted(c.ivals), center |-> 0, left |-> NoTree, right |-> NoTree]>>
     ELSE LET d == Divided(c)
          IN  <<[intervals |-> d.mids, center |-> d.center,
                 left  |-> IF d.lefts.ivals = <<>> THEN NoTree
                           ELSE IntervalTree[depth - 1][d.lefts],
                 right |-> IF d.rights.ivals = <<>> THEN NoTree
                           ELSE IntervalTree[depth - 1][d.rights]]>>]

-----------------------------------------------------------------------------
(* The searches. *)

Queries == [how : {"overlapping", "contained"}, start : Int, stop : Int]

Overlaps(i, start, stop)  == i.stop >= start /\ i.start <= stop
Contained(i, start, stop) == i.start >= start /\ i.stop <= stop

Wanted(i, q) ==
  IF q.how = "overlapping" THEN Overlaps(i, q.start, q.stop) ELSE Contained(i, q.start, q.stop)

\* Nor is it when the query ends where the first interval starts.
InNode_Strict(n, q) ==
  IF n.intervals # <<>> /\ ~(q.stop <= n.intervals[1].start)
  THEN Those(n.intervals, {i \in AllIntervals : Wanted(i, q)})
  ELSE <<>>

\* A node is looked through unless the query ends before its first interval.
InNode(n, q) ==
  IF n.intervals # <<>> /\ ~(q.stop < n.intervals[1].start)
  THEN Those(n.intervals, {i \in AllIntervals : Wanted(i, q)})
  ELSE <<>>

\* findOverlapping and findContained, on a tree of at most d levels.
Find[d \in 1..Depth] ==
  [tree \in Trees[d] \ {NoTree} |-> [q \in Queries |->
     LET n == tree[1]
     IN     InNode(n, q)
         \o (IF n.left # NoTree /\ q.start <= n.center THEN Find[d - 1][n.left][q] ELSE <<>>)
         \o (IF n.right # NoTree /\ q.stop >= n.center THEN Find[d - 1][n.right][q] ELSE <<>>)]]

-----------------------------------------------------------------------------

FullTree ==
  IntervalTree[Depth][[ivals |-> ivals, leftextent |-> 0, rightextent |-> 0,
                       maxbucket |-> MaxBucket]]

\* What the two searches leave out never holds an answer, whatever the intervals,
\* the order they came in and the queries: each returns every interval that
\* overlaps (is contained) as often as it was given, and nothing else
\* (findOverlapping, findContained against a scan of the vector).
SearchesMissNothing ==
  LET search == Find[Depth][FullTree]
  IN  \A a, b \in Points : \A how \in {"overlapping", "contained"} :
        LET q     == [how |-> how, start |-> a, stop |-> b]
            found == search[q]
        IN  \A x \in Range(found) \cup Range(ivals) :
              Count(found, x) = IF Wanted(x, q) THEN Count(ivals, x) ELSE 0

=============================================================================
