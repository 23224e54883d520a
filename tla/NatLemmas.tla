----------------------------- MODULE NatLemmas -----------------------------
(***************************************************************************)
(* Minima, maxima, induction over Nat and sequences: what the proofs about *)
(* the libraries need of them, in a form without operator parameters.      *)
(***************************************************************************)
EXTENDS Integers, Sequences, SequencesExt, FiniteSetsExt, FiniteSetTheorems, TLAPS

-----------------------------------------------------------------------------
(* Minima and induction, from the well-foundedness of finite sets.         *)

\* A nonempty set of natural numbers has a least element.
LEMMA LeastElement ==
  ASSUME NEW T \in SUBSET Nat, T # {}
  PROVE  \E x \in T : \A y \in T : x <= y
<1> DEFINE U == {0..t : t \in T}
<1>1. U \subseteq FiniteSubsetsOf(Nat)
  <2>1. ASSUME NEW t \in T PROVE 0..t \in FiniteSubsetsOf(Nat)
    <3>1. IsFiniteSet(0..t)
      BY FS_Interval
    <3>2. 0..t \in SUBSET Nat
      OBVIOUS
    <3> QED
      BY <3>1, <3>2, Zenon DEF FiniteSubsetsOf
  <2> QED
    BY <2>1
<1>2. U # {}
  OBVIOUS
<1>3. PICK X \in U : \A Y \in U : ~(<<Y, X>> \in StrictSubsetOrdering(Nat))
  <2>1. IsWellFoundedOn(StrictSubsetOrdering(Nat), FiniteSubsetsOf(Nat))
    BY FS_StrictSubsetOrderingWellFounded
  <2> HIDE DEF U
  <2> QED
    BY <1>1, <1>2, <2>1, WFMin
<1>4. PICK x \in T : X = 0..x
  OBVIOUS
<1>5. ASSUME NEW y \in T, y < x PROVE FALSE
  <2>1. 0..y \subseteq 0..x /\ 0..y # 0..x /\ 0..y \in SUBSET Nat /\ 0..x \in SUBSET Nat
    <3>1. x \in 0..x /\ x \notin 0..y
      BY <1>5
    <3> QED
      BY <1>5, <3>1
  <2>2. <<0..y, 0..x>> \in StrictSubsetOrdering(Nat)
    BY <2>1, Zenon DEF StrictSubsetOrdering
  <2> QED
    BY <1>3, <1>4, <2>2
<1> QED
  BY <1>5

LEMMA MinFacts ==
  ASSUME NEW T \in SUBSET Nat, T # {}
  PROVE  Min(T) \in T /\ \A y \in T : Min(T) <= y
  BY LeastElement DEF Min

\* A set that has 0 and the successor of each of its numbers has every number.
LEMMA InductionInSets ==
  ASSUME NEW S, 0 \in S, \A n \in Nat : n \in S => n + 1 \in S
  PROVE  Nat \subseteq S
<1>1. SUFFICES ASSUME NEW k \in Nat, k \notin S PROVE FALSE
  OBVIOUS
<1> DEFINE T == {n \in Nat : n \notin S}
<1>2. PICK x \in T : \A y \in T : x <= y
  BY <1>1, LeastElement
<1>3. x # 0 /\ x - 1 \in Nat /\ x - 1 \notin T
  BY <1>2
<1> QED
  BY <1>3

\* The maximum of a set that has a largest element.
LEMMA MaxFacts ==
  ASSUME NEW T \in SUBSET Nat, NEW m \in T, \A y \in T : y <= m
  PROVE  Max(T) = m
<1>1. \A x \in T : (\A y \in T : x >= y) => x = m
  OBVIOUS
<1> QED
  BY <1>1 DEF Max

\* A nonempty set of indices has a largest one.
LEMMA LargestIndex ==
  ASSUME NEW n \in Nat, NEW T \in SUBSET (1..n), T # {}
  PROVE  Max(T) \in T /\ \A y \in T : y <= Max(T)
<1> DEFINE U == {n - t : t \in T}
<1>1. U \in SUBSET Nat /\ U # {}
  <2>1. \A t \in T : t \in 1..n
    OBVIOUS
  <2>2. \A t \in T : n - t \in Nat
    BY <2>1
  <2> QED
    BY <2>2
<1> HIDE DEF U
<1>2. PICK u \in U : \A y \in U : u <= y
  BY <1>1, LeastElement
<1> USE DEF U
<1>3. PICK m \in T : u = n - m
  OBVIOUS
<1>4. ASSUME NEW y \in T PROVE y <= m
  <2>1. n - y \in U /\ n - m <= n - y
    BY <1>2, <1>3
  <2> QED
    BY <2>1
<1>5. Max(T) = m
  <2>1. T \in SUBSET Nat
    OBVIOUS
  <2> QED
    BY <1>4, <2>1, MaxFacts
<1> QED
  BY <1>4, <1>5

-----------------------------------------------------------------------------
(* Sequences *)

LEMMA AppendIs ==
  ASSUME NEW S, NEW s \in Seq(S), NEW e \in S
  PROVE  Append(s, e) = [i \in 1..Len(s) + 1 |-> IF i = Len(s) + 1 THEN e ELSE s[i]]
<1> DEFINE q == Append(s, e)
<1>1. q \in Seq(S) /\ Len(q) = Len(s) + 1 /\ Len(s) \in Nat
  OBVIOUS
<1>2. \A i \in 1..Len(s) + 1 : q[i] = IF i = Len(s) + 1 THEN e ELSE s[i]
  OBVIOUS
<1> HIDE DEF q
<1>3. q = [i \in 1..Len(q) |-> q[i]]
  BY <1>1
<1>4. q = [i \in 1..Len(s) + 1 |-> IF i = Len(s) + 1 THEN e ELSE s[i]]
  BY <1>1, <1>2, <1>3
<1> QED
  BY <1>4 DEF q

\* What the concatenation of two sequences is.
LEMMA ConcatIs ==
  ASSUME NEW S, NEW s \in Seq(S), NEW t \in Seq(S)
  PROVE  /\ s \o t \in Seq(S) /\ Len(s \o t) = Len(s) + Len(t)
         /\ \A i \in 1..Len(s) : (s \o t)[i] = s[i]
         /\ \A i \in Len(s) + 1..Len(s) + Len(t) : (s \o t)[i] = t[i - Len(s)]
  OBVIOUS

\* What is left of a sequence without its element at i.
LEMMA RemoveAtIs ==
  ASSUME NEW S, NEW s \in Seq(S), NEW i \in 1..Len(s)
  PROVE  /\ RemoveAt(s, i) \in Seq(S) /\ Len(RemoveAt(s, i)) = Len(s) - 1
         /\ \A j \in 1..i - 1 : RemoveAt(s, i)[j] = s[j]
         /\ \A j \in i..Len(s) - 1 : RemoveAt(s, i)[j] = s[j + 1]
<1> DEFINE a == SubSeq(s, 1, i - 1)
           b == SubSeq(s, i + 1, Len(s))
<1>1. a \in Seq(S) /\ Len(a) = i - 1 /\ \A j \in 1..i - 1 : a[j] = s[j]
  OBVIOUS
<1>2. b \in Seq(S) /\ Len(b) = Len(s) - i /\ \A j \in 1..Len(s) - i : b[j] = s[i + j]
  OBVIOUS
<1>3. RemoveAt(s, i) = a \o b
  BY DEF RemoveAt
<1> HIDE DEF a, b
<1>4. /\ a \o b \in Seq(S) /\ Len(a \o b) = Len(a) + Len(b)
      /\ \A j \in 1..Len(a) : (a \o b)[j] = a[j]
      /\ \A j \in Len(a) + 1..Len(a) + Len(b) : (a \o b)[j] = b[j - Len(a)]
  BY <1>1, <1>2, ConcatIs, ZenonT(20)
<1>5. ASSUME NEW j \in i..Len(s) - 1 PROVE (a \o b)[j] = s[j + 1]
  <2>1. j \in Len(a) + 1..Len(a) + Len(b) /\ j - Len(a) \in 1..Len(s) - i /\ i + (j - Len(a)) = j + 1
    BY <1>1, <1>2
  <2> QED
    BY <1>2, <1>4, <2>1
<1>6. Len(a) + Len(b) = Len(s) - 1
  BY <1>1, <1>2
<1> QED
  BY <1>1, <1>3, <1>4, <1>5, <1>6

-----------------------------------------------------------------------------
(* Folds.  FoldLeft recurs over the sets of indices: the intervals 1..i    *)
(* are the steps of a walk from left to right.                             *)

LEMMA IntervalSteps ==
  ASSUME NEW n \in Nat
  PROVE  /\ 1..0 = {}
         /\ \A i \in 0..n : 1..i \in SUBSET (1..n)
         /\ \A i \in 1..n : 1..i # {} /\ Max(1..i) = i /\ (1..i) \ {i} = 1..i - 1
<1>1. ASSUME NEW i \in 1..n PROVE Max(1..i) = i
  <2>1. 1..i \in SUBSET Nat /\ i \in 1..i /\ \A y \in 1..i : y <= i
    OBVIOUS
  <2> QED
    BY <2>1, MaxFacts
<1>2. ASSUME NEW i \in 1..n PROVE 1..i # {} /\ (1..i) \ {i} = 1..i - 1
  OBVIOUS
<1> QED
  BY <1>1, <1>2

\* V is the recursion of a fold over 1..n from b, with a function F of the state
\* so far and the index.
FoldOf(V, F, b, n) ==
  \A s \in SUBSET (1..n) : V[s] = IF s = {} THEN b ELSE F[<<V[s \ {Max(s)}], Max(s)>>]

LEMMA FoldExists ==
  ASSUME NEW St, NEW b \in St, NEW n \in Nat, NEW F \in [St \X (1..n) -> St]
  PROVE  \E V \in [SUBSET (1..n) -> St] : FoldOf(V, F, b, n)
<1> USE DEF FoldOf
<1> DEFINE Good(V, m) == V \in [SUBSET (1..m) -> St] /\ FoldOf(V, F, b, m)
           S == {m \in Nat : m <= n => \E V : Good(V, m)}
<1>1. 0 \in S
  <2> DEFINE V == [s \in SUBSET (1..0) |-> b]
  <2>1. SUBSET (1..0) = {{}}
    OBVIOUS
  <2>2. Good(V, 0)
    BY <2>1
  <2> QED
    BY <2>2
<1>2. ASSUME NEW m \in Nat, m \in S PROVE m + 1 \in S
  <2> HIDE DEF Good
  <2> SUFFICES ASSUME m + 1 <= n PROVE \E V : Good(V, m + 1)
    OBVIOUS
  <2>0. m <= n
    OBVIOUS
  <2>1. PICK V : Good(V, m)
    BY <1>2, <2>0
  <2> USE DEF Good
  <2> DEFINE W == [s \in SUBSET (1..m + 1) |->
                     IF m + 1 \in s THEN F[<<V[s \ {m + 1}], m + 1>>] ELSE V[s]]
  <2>2. ASSUME NEW s \in SUBSET (1..m + 1), m + 1 \notin s
        PROVE  s \in SUBSET (1..m) /\ V[s] \in St
    <3>1. s \in SUBSET (1..m)
      BY <2>2
    <3> QED
      BY <2>1, <3>1
  <2>3. ASSUME NEW s \in SUBSET (1..m + 1), m + 1 \in s
        PROVE  /\ s \ {m + 1} \in SUBSET (1..m) /\ V[s \ {m + 1}] \in St
               /\ Max(s) = m + 1
    <3>1. s \ {m + 1} \in SUBSET (1..m)
      BY <2>3
    <3>2. s \in SUBSET Nat /\ \A y \in s : y <= m + 1
      OBVIOUS
    <3>3. Max(s) = m + 1
      BY <2>3, <3>2, MaxFacts
    <3> QED
      BY <2>1, <3>1, <3>3
  <2>4. m + 1 \in 1..n
    OBVIOUS
  <2>5. ASSUME NEW s \in SUBSET (1..m + 1) PROVE W[s] \in St
    <3>1. CASE m + 1 \in s
      <4>1. <<V[s \ {m + 1}], m + 1>> \in St \X (1..n)
        BY <2>3, <2>4, <3>1
      <4>2. F[<<V[s \ {m + 1}], m + 1>>] \in St
        BY <4>1
      <4> QED
        BY <3>1, <4>2
    <3>2. CASE m + 1 \notin s
      BY <2>2, <3>2
    <3> QED
      BY <3>1, <3>2
  <2>6. W \in [SUBSET (1..m + 1) -> St]
    BY <2>5
  <2>7. ASSUME NEW s \in SUBSET (1..m) PROVE W[s] = V[s]
    <3>1. s \in SUBSET (1..m + 1) /\ m + 1 \notin s
      OBVIOUS
    <3> QED
      BY <3>1
  <2>8. ASSUME NEW s \in SUBSET (1..m + 1)
        PROVE  W[s] = IF s = {} THEN b ELSE F[<<W[s \ {Max(s)}], Max(s)>>]
    <3>1. CASE m + 1 \in s
      <4>1. W[s] = F[<<V[s \ {m + 1}], m + 1>>]
        BY <3>1
      <4>2. W[s \ {m + 1}] = V[s \ {m + 1}]
        BY <2>3, <2>7, <3>1
      <4> HIDE DEF W
      <4> QED
        BY <2>3, <3>1, <4>1, <4>2
    <3>2. CASE m + 1 \notin s
      <4>1. s \in SUBSET (1..m) /\ s \ {Max(s)} \in SUBSET (1..m)
        BY <2>2, <3>2
      <4>2. W[s] = V[s] /\ W[s \ {Max(s)}] = V[s \ {Max(s)}]
        BY <2>7, <4>1
      <4>3. V[s] = IF s = {} THEN b ELSE F[<<V[s \ {Max(s)}], Max(s)>>]
        BY <2>1, <4>1
      <4> HIDE DEF W
      <4> QED
        BY <4>2, <4>3
    <3> QED
      BY <3>1, <3>2
  <2> HIDE DEF W
  <2>9. Good(W, m + 1)
    BY <2>6, <2>8
  <2> HIDE DEF Good
  <2> QED
    BY <2>9
<1> HIDE DEF S
<1>3. Nat \subseteq S
  BY <1>1, <1>2, InductionInSets
<1>4. \E V : Good(V, n)
  <2> HIDE DEF Good
  <2>1. n \in S /\ n <= n
    BY <1>3
  <2> QED
    BY <2>1 DEF S
<1> QED
  BY <1>4

=============================================================================
