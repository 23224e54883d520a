------------------------------- MODULE RbTree -------------------------------
(***************************************************************************)
(* The red-black tree of service_module/algorithm/trees/red_black          *)
(* (rbtree.cpp).  Node 0 is the sentinel nil, whose parent the code writes *)
(* and reads; nodes are allocated from 1 to MaxNodes and freed by erase.   *)
(* A pass of a fix-up loop is a step: at is where it stands.  Keys are     *)
(* inserted once.                                                          *)
(***************************************************************************)
EXTENDS Integers, FiniteSetsExt, SequencesExt

CONSTANTS TreeKeys, MaxNodes

VARIABLES node,        \* key, children, parent and colour of every node
          root,
          pc, at,      \* which loop is running, and for which node
          contents,    \* the keys that were inserted and not erased
          misplaced    \* some erase took the wrong successor

treeVars == <<node, root, pc, at, contents, misplaced>>

nil   == 0
Nodes == 1..MaxNodes

ASSUME TreeAssumption == TreeKeys \subseteq Int /\ MaxNodes \in Nat

Free == [key |-> 0, left |-> nil, right |-> nil, p |-> nil, red |-> FALSE, used |-> FALSE]

TreeInit ==
  /\ node = [n \in 0..MaxNodes |-> Free]
  /\ root = nil /\ pc = "idle" /\ at = nil /\ contents = {} /\ misplaced = FALSE

-----------------------------------------------------------------------------
(* Walks.  At most MaxNodes steps are possible in a tree. *)

\* The node where a search for k stops, going down from x: one with the key, or
\* nil if it fell out of the tree.
SearchFrom(k) ==
  LET down[i \in 0..MaxNodes + 1] ==
        IF i = 0 THEN root
        ELSE LET x == down[i - 1]
             IN  IF x = nil \/ node[x].key = k THEN x
                 ELSE IF k < node[x].key THEN node[x].left ELSE node[x].right
  IN  down[MaxNodes + 1]

\* The node under which a new k is hung.
ParentFor(k) ==
  LET down[i \in 0..MaxNodes + 1] ==
        IF i = 0 THEN <<root, nil>>
        ELSE LET x == down[i - 1][1]
             IN  IF x = nil THEN down[i - 1]
                 ELSE <<IF k < node[x].key THEN node[x].left ELSE node[x].right, x>>
  IN  down[MaxNodes + 1][2]

\* treeSuccessor for a node that has a right child: it walks left from the node
\* itself, not from that child.
treeSuccessor(x) ==
  LET down[i \in 0..MaxNodes] ==
        IF i = 0 \/ node[down[i - 1]].left = nil THEN (IF i = 0 THEN x ELSE down[i - 1])
        ELSE node[down[i - 1]].left
  IN  down[MaxNodes]

-----------------------------------------------------------------------------
(* Surgery on nodes n and root r, given and returned as [n, r] *)

\* y takes the place of x under the parent of x.
Replace(t, x, y) ==
  LET up == t.n[x].p
  IN  IF up = nil THEN [t EXCEPT !.r = y]
      ELSE IF t.n[up].left = x THEN [t EXCEPT !.n[up].left = y]
      ELSE [t EXCEPT !.n[up].right = y]

leftRotate(t, x) ==
  LET y == t.n[x].right
      b == t.n[y].left
      s == Replace(t, x, y)
  IN  [s EXCEPT !.n[y].p = t.n[x].p, !.n[x].right = b, !.n[b].p = x,
                !.n[y].left = x, !.n[x].p = y]

\* The inner subtree keeps its parent.
rightRotate_ChildKept(t, x) ==
  LET y == t.n[x].left
      b == t.n[y].right
      s == Replace(t, x, y)
  IN  [s EXCEPT !.n[y].p = t.n[x].p, !.n[x].left = b, !.n[y].right = x, !.n[x].p = y]

rightRotate(t, x) ==
  LET y == t.n[x].left
      b == t.n[y].right
      s == Replace(t, x, y)
  IN  [s EXCEPT !.n[y].p = t.n[x].p, !.n[x].left = b, !.n[b].p = x,
                !.n[y].right = x, !.n[x].p = y]

Paint(t, x, red) == [t EXCEPT !.n[x].red = red]

\* The two mirror images of a fix-up: child, other child and rotation.
Near(n, x, onLeft) == IF onLeft THEN n[x].left ELSE n[x].right
Far(n, x, onLeft)  == IF onLeft THEN n[x].right ELSE n[x].left
TurnToward(t, x, onLeft) == IF onLeft THEN leftRotate(t, x) ELSE rightRotate(t, x)
TurnAway(t, x, onLeft)   == IF onLeft THEN rightRotate(t, x) ELSE leftRotate(t, x)

Now == [n |-> node, r |-> root]
Become(t) == node' = t.n /\ root' = t.r

-----------------------------------------------------------------------------
(* Insertion *)

insert(k) ==
  /\ pc = "idle" /\ \E t \in Nodes : ~node[t].used
  /\ LET t == Min({n \in Nodes : ~node[n].used})
         y == ParentFor(k)
         new == [node EXCEPT ![t] = [key |-> k, left |-> nil, right |-> nil, p |-> y,
                                     red |-> TRUE, used |-> TRUE]]
     IN  /\ Become(IF y = nil THEN [n |-> new, r |-> t]
                   ELSE IF k < node[y].key THEN [n |-> [new EXCEPT ![y].left = t], r |-> root]
                   ELSE [n |-> [new EXCEPT ![y].right = t], r |-> root])
         /\ at' = t
  /\ pc' = "inserting" /\ contents' = contents \cup {k}
  /\ UNCHANGED misplaced

\* A pass for node z whose parent is red: a red uncle is repainted, a black one
\* takes one or two rotations.
InsertPass(z) ==
  LET p      == node[z].p
      g      == node[p].p
      onLeft == p = node[g].left
      y      == Far(node, g, onLeft)
  IN  IF node[y].red
      THEN /\ Become(Paint(Paint(Paint(Now, p, FALSE), y, FALSE), g, TRUE))
           /\ at' = g
      ELSE LET inner == z = Far(node, p, onLeft)
               z2    == IF inner THEN p ELSE z
               t2    == IF inner THEN TurnToward(Now, p, onLeft) ELSE Now
               p2    == t2.n[z2].p
               t3    == Paint(Paint(t2, p2, FALSE), t2.n[p2].p, TRUE)
               t4    == Paint(t3, Far(t3.n, p2, onLeft), FALSE)
           IN  /\ Become(TurnAway(t4, t4.n[p2].p, onLeft))
               /\ at' = z2

rbInsertFixup ==
  /\ pc = "inserting"
  /\ IF node[node[at].p].red
     THEN InsertPass(at) /\ UNCHANGED pc
     ELSE Become(Paint(Now, root, FALSE)) /\ pc' = "idle" /\ at' = nil
  /\ UNCHANGED <<contents, misplaced>>

-----------------------------------------------------------------------------
(* Deletion *)

\* rbDelete cuts y, which is z or what stands for its successor, out of the tree.
erase(k) ==
  /\ pc = "idle" /\ SearchFrom(k) # nil
  /\ LET z    == SearchFrom(k)
         two  == node[z].left # nil /\ node[z].right # nil
         y    == IF two THEN treeSuccessor(z) ELSE z
         x    == IF node[y].left # nil THEN node[y].left ELSE node[y].right
         hung == Replace([Now EXCEPT !.n[x].p = node[y].p], y, x)
         kept == IF y = z THEN hung ELSE [hung EXCEPT !.n[z].key = node[y].key]
     IN  /\ Become([kept EXCEPT !.n[y] = Free])
         /\ pc' = IF node[y].red THEN "idle" ELSE "deleting"
         /\ at' = IF node[y].red THEN nil ELSE x
         /\ misplaced' = (misplaced \/ two)
  /\ contents' = contents \ {k}

\* A pass for node x, on which one black node is missing: a red sibling is turned
\* away, a sibling with black children passes the lack up, another one ends it.
\* The parent is read again after every rotation, and x may be nil, whose parent
\* a rotation sets when it moves an empty subtree.  The code then takes nil for
\* the sibling, and reads the colour of its child, which is a null pointer.
DeletePass(x) ==
  LET p      == node[x].p
      onLeft == node[p].left = x
      w      == Far(node, p, onLeft)
      t1     == IF node[w].red
                THEN TurnToward(Paint(Paint(Now, w, FALSE), p, TRUE), p, onLeft) ELSE Now
      p1     == t1.n[x].p
      w1     == Far(t1.n, p1, onLeft)
      near   == Near(t1.n, w1, onLeft)
      t2     == IF ~t1.n[Far(t1.n, w1, onLeft)].red
                THEN TurnAway(Paint(Paint(t1, near, FALSE), w1, TRUE), w1, onLeft) ELSE t1
      p2     == t2.n[x].p
      w2     == Far(t2.n, p2, onLeft)
      t3     == Paint(Paint(t2, w2, t2.n[p2].red), p2, FALSE)
      t4     == TurnToward(Paint(t3, Far(t3.n, w2, onLeft), FALSE), p2, onLeft)
  IN  IF ~t1.n[t1.n[w1].left].red /\ ~t1.n[t1.n[w1].right].red
      THEN Become(Paint(t1, w1, TRUE)) /\ at' = p1 /\ UNCHANGED pc
      ELSE IF w2 = nil THEN Become(t2) /\ at' = nil /\ pc' = "crashed"
      ELSE Become(t4) /\ at' = t4.r /\ UNCHANGED pc

rbDeleteFixup ==
  /\ pc = "deleting"
  /\ IF at # root /\ ~node[at].red
     THEN DeletePass(at)
     ELSE Become(Paint(Now, at, FALSE)) /\ pc' = "idle" /\ at' = nil
  /\ UNCHANGED <<contents, misplaced>>

TreeNext ==
  \/ \E k \in TreeKeys \ contents : insert(k)
  \/ \E k \in TreeKeys : erase(k)
  \/ rbInsertFixup \/ rbDeleteFixup

-----------------------------------------------------------------------------
(* Properties *)

Used == {n \in Nodes : node[n].used}

\* The black nodes from x down to nil, along every way; -1 when ways differ.
BlackHeight(x) ==
  LET height[d \in 0..MaxNodes, n \in 0..MaxNodes] ==
        IF n = nil THEN 0
        ELSE IF d = 0 THEN -1
        ELSE LET l == height[d - 1, node[n].left]
                 r == height[d - 1, node[n].right]
             IN  IF l = -1 \/ l # r THEN -1 ELSE l + (IF node[n].red THEN 0 ELSE 1)
  IN  height[MaxNodes, x]

\* Between operations, after any sequence of insertions and deletions that did not
\* crash: the tree holds exactly the keys inserted and not taken out, parents and
\* children agree, no red node has a red child and all ways down have as many
\* black nodes; and until an erase met a node with two children, search finds
\* every key (insert, erase and the fix-ups; such an erase puts the smallest key
\* of the left subtree in the place, treeSuccessor).
TreeKeepsKeys ==
  pc = "idle" =>
    /\ {node[n].key : n \in Used} = contents /\ Cardinality(Used) = Cardinality(contents)
    /\ ~node[root].red /\ ~node[nil].red /\ {node[nil].left, node[nil].right} = {nil}
    /\ \A n \in Used :
         /\ n = root \/ n \in {node[node[n].p].left, node[node[n].p].right}
         /\ \A c \in {node[n].left, node[n].right} \ {nil} :
              c \in Used /\ node[c].p = n /\ ~(node[n].red /\ node[c].red)
    /\ BlackHeight(root) # -1
    /\ ~misplaced => \A k \in contents : SearchFrom(k) # nil

=============================================================================
