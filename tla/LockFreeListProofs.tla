---------------------------- MODULE LockFreeListProofs ----------------------------
(****************************************************************************)
(* Proofs about LockFreeList, for every number of threads, keys, calls and  *)
(* nodes: no insertion is lost, and the list is a set whose calls answer    *)
(* what was true while they ran.                                            *)
(*                                                                          *)
(* The first part is about ListHeap, and LockedListsProofs rests on it too. *)
(* It says, for every heap, what the walk of ListHeap visits and what       *)
(* becomes of it when a node is linked or taken out.  Its lemmas speak of   *)
(* any function nxt in the place of next, so that they apply before a step  *)
(* and after it.                                                            *)
(****************************************************************************)
EXTENDS LockFreeList, FiniteSetTheorems, WellFoundedInduction, TLAPS

-----------------------------------------------------------------------------
(* Induction.  It is stated with a set in the place of the formula.         *)

\* A set of natural numbers has a least one.
LEMMA LeastNatural ==
  ASSUME NEW T \in SUBSET Nat, T # {}
  PROVE  \E x \in T : \A y \in T : x <= y
<1>1. PICK R : R = OpToRel(<, Nat)
  OBVIOUS
<1>2. IsWellFoundedOn(R, Nat)
  BY <1>1, NatLessThanWellFounded
<1>3. \A x, y \in Nat : x < y => <<x, y>> \in R
  BY <1>1 DEF OpToRel
<1>4. PICK x \in T : \A y \in T : ~ (<<y, x>> \in R)
  BY <1>2, WFMin
<1>5. ASSUME NEW y \in T PROVE x <= y
  <2>1. x \in Nat /\ y \in Nat
    OBVIOUS
  <2>2. ~ (y < x)
    BY <1>3, <1>4, <2>1
  <2> QED BY <2>1, <2>2
<1> QED BY <1>5

\* A set with 0 and with the successors of its numbers has all up to m.
LEMMA Counting ==
  ASSUME NEW m \in Nat, NEW S, 0 \in S, \A n \in 0 .. m - 1 : n \in S => n + 1 \in S
  PROVE  0 .. m \subseteq S
<1> SUFFICES ASSUME (0 .. m) \ S # {} PROVE FALSE
  OBVIOUS
<1>1. PICK n \in (0 .. m) \ S : \A y \in (0 .. m) \ S : n <= y
  <2>1. (0 .. m) \ S \in SUBSET Nat
    OBVIOUS
  <2> QED BY <2>1, LeastNatural
<1>2. n \in 1 .. m /\ n - 1 \in 0 .. m - 1
  BY <1>1
<1>3. n - 1 \in S
  BY <1>1, <1>2
<1> QED BY <1>1, <1>2, <1>3

-----------------------------------------------------------------------------
(* The walk.                                                                *)

\* The walk ends at tail, or goes on.
After(nxt, n) == IF n \in {tail, Null} THEN n ELSE nxt[n]

\* v[0 .. m] is the beginning of the walk along nxt.
Walks(nxt, m, v) == v = [n \in 0 .. m |-> IF n = 0 THEN head ELSE After(nxt, v[n - 1])]

VisitedBy(nxt) == CHOOSE v : Walks(nxt, HeapSize + 1, v)

ListedBy(nxt) == {VisitedBy(nxt)[n] : n \in 0 .. HeapSize + 1}

LEMMA ListedNow == Listed = ListedBy(next) /\ Listed' = ListedBy(next')
<1>1. Visited = VisitedBy(next)
  BY DEF Visited, VisitedBy, Walks, After
<1>2. Visited' = VisitedBy(next')
  BY DEF Visited, VisitedBy, Walks, After
<1> QED BY <1>1, <1>2 DEF Listed, ListedBy

\* There is such a walk.
LEMMA VisitedFacts ==
  ASSUME NEW nxt
  PROVE  /\ VisitedBy(nxt)[0] = head
         /\ \A n \in 1 .. HeapSize + 1 :
              VisitedBy(nxt)[n] = After(nxt, VisitedBy(nxt)[n - 1])
<1> DEFINE S == {m \in Nat : \E v : Walks(nxt, m, v)}
<1>1. 0 \in S
  <2>1. Walks(nxt, 0, [n \in 0 .. 0 |-> head])
    BY DEF Walks
  <2> QED BY <2>1
<1>2. ASSUME NEW m \in Nat, m \in S PROVE m + 1 \in S
  <2>1. PICK v : Walks(nxt, m, v)
    BY <1>2
  <2>2. v[0] = head /\ \A n \in 1 .. m : v[n] = After(nxt, v[n - 1])
    BY <2>1 DEF Walks
  <2> DEFINE w == [n \in 0 .. m + 1 |-> IF n <= m THEN v[n] ELSE After(nxt, v[m])]
  <2>3. ASSUME NEW n \in 0 .. m + 1
        PROVE  w[n] = IF n = 0 THEN head ELSE After(nxt, w[n - 1])
    <3>1. CASE n = 0
      BY <2>2, <3>1
    <3>2. CASE n \in 1 .. m
      BY <2>2, <3>2
    <3>3. CASE n = m + 1
      BY <3>3
    <3> QED BY <3>1, <3>2, <3>3
  <2>4. w = [n \in 0 .. m + 1 |-> IF n = 0 THEN head ELSE After(nxt, w[n - 1])]
    BY <2>3
  <2>5. Walks(nxt, m + 1, w)
    BY <2>4 DEF Walks
  <2> QED BY <2>5
<1>3. HeapSize + 1 \in S
  <2>1. HeapSize + 1 \in Nat
    BY HeapSizeAssumption
  <2>2. \A m \in 0 .. (HeapSize + 1) - 1 : m \in S => m + 1 \in S
    BY <1>2
  <2>3. 0 .. HeapSize + 1 \subseteq S
    BY ONLY <1>1, <2>1, <2>2, Counting
  <2> QED BY <2>1, <2>3
<1>4. Walks(nxt, HeapSize + 1, VisitedBy(nxt))
  BY <1>3 DEF VisitedBy
<1> QED BY <1>4, HeapSizeAssumption DEF Walks

\* What is listed is the least set with head that is closed under nxt.
LEMMA ListedLeast ==
  ASSUME NEW nxt, NEW S, head \in S, \A n \in S \ {tail, Null} : nxt[n] \in S
  PROVE  ListedBy(nxt) \subseteq S
<1> DEFINE V == VisitedBy(nxt)
<1> DEFINE T == {j \in 0 .. HeapSize + 1 : V[j] \in S}
<1>1. HeapSize + 1 \in Nat
  BY HeapSizeAssumption
<1>2. V[0] = head /\ \A j \in 1 .. HeapSize + 1 : V[j] = After(nxt, V[j - 1])
  BY VisitedFacts
<1>3. 0 \in T
  BY <1>1, <1>2
<1>4. ASSUME NEW j \in 0 .. (HeapSize + 1) - 1, j \in T PROVE j + 1 \in T
  <2>1. j + 1 \in 1 .. HeapSize + 1 /\ (j + 1) - 1 = j
    BY <1>1
  <2>2. V[j + 1] = After(nxt, V[j])
    BY <1>2, <2>1
  <2>3. V[j] \in S
    BY <1>4
  <2> QED BY <2>1, <2>2, <2>3 DEF After
<1>5. 0 .. HeapSize + 1 \subseteq T
  <2> HIDE DEF T
  <2> QED BY <1>1, <1>3, <1>4, Counting
<1> QED BY <1>5 DEF ListedBy

\* When the walk gets to tail, what it visits is closed.
LEMMA ListedClosed ==
  ASSUME NEW nxt, tail \in ListedBy(nxt)
  PROVE  /\ head \in ListedBy(nxt)
         /\ \A n \in ListedBy(nxt) \ {tail, Null} : nxt[n] \in ListedBy(nxt)
<1> DEFINE V == VisitedBy(nxt)
<1> DEFINE M == HeapSize + 1
<1>1. M \in Nat
  BY HeapSizeAssumption
<1>2. V[0] = head /\ \A j \in 1 .. M : V[j] = After(nxt, V[j - 1])
  BY VisitedFacts
<1>3. PICK i \in 0 .. M : V[i] = tail
  BY DEF ListedBy
<1>4. V[M] = tail
  <2> DEFINE T == {j \in 0 .. M : j >= i => V[j] = tail}
  <2>1. 0 \in T
    BY <1>1, <1>3
  <2>2. ASSUME NEW j \in 0 .. M - 1, j \in T PROVE j + 1 \in T
    <3>1. j + 1 \in 1 .. M /\ (j + 1) - 1 = j
      BY <1>1
    <3>2. V[j + 1] = After(nxt, V[j])
      BY <1>2, <3>1
    <3>3. CASE j >= i
      BY <2>2, <3>1, <3>2, <3>3 DEF After
    <3>4. CASE j + 1 = i
      BY <1>3, <3>1, <3>4
    <3>5. CASE j + 1 < i
      BY <3>1, <3>5
    <3> QED BY <1>1, <3>3, <3>4, <3>5
  <2>3. 0 .. M \subseteq T
    <3> HIDE DEF T, M
    <3> QED BY <1>1, <2>1, <2>2, Counting
  <2> QED BY <1>1, <2>3
<1>5. head \in ListedBy(nxt)
  BY <1>1, <1>2 DEF ListedBy
<1>6. ASSUME NEW n \in ListedBy(nxt) \ {tail, Null} PROVE nxt[n] \in ListedBy(nxt)
  <2>1. PICK j \in 0 .. M : n = V[j]
    BY DEF ListedBy
  <2>2. j # M
    BY <1>4, <2>1
  <2>3. j + 1 \in 1 .. M /\ (j + 1) - 1 = j /\ j + 1 \in 0 .. M
    BY <1>1, <2>2
  <2>4. V[j + 1] = nxt[n]
    BY <1>2, <2>1, <2>3 DEF After
  <2> QED BY <2>3, <2>4 DEF ListedBy
<1> QED BY <1>5, <1>6

-----------------------------------------------------------------------------
(* A way with increasing keys.                                              *)

\* The walk stays in S, and its keys increase until it gets to tail.
LEMMA VisitedIncreasing ==
  ASSUME NEW nxt, NEW ky \in [Nodes -> Nat], NEW S, Leads(nxt, ky, S),
         NEW i \in 0 .. HeapSize + 1, NEW j \in 0 .. HeapSize + 1, i < j
  PROVE  LET V == VisitedBy(nxt)
         IN  \/ V[i] = tail /\ V[j] = tail
             \/ V[i] # tail /\ ky[V[i]] < ky[V[j]]
<1> DEFINE V == VisitedBy(nxt)
<1> DEFINE M == HeapSize + 1
<1> DEFINE Up(a, b) == (V[a] = tail /\ V[b] = tail) \/ (V[a] # tail /\ ky[V[a]] < ky[V[b]])
<1> DEFINE T == {b \in 0 .. M : \A a \in 0 .. b - 1 : Up(a, b)}
<1>1. M \in Nat
  BY HeapSizeAssumption
<1>2. V[0] = head /\ \A b \in 1 .. M : V[b] = After(nxt, V[b - 1])
  BY VisitedFacts
<1>3. \A b \in 0 .. M : V[b] \in S
  <2>1. \A n \in S \ {tail, Null} : nxt[n] \in S
    BY DEF Leads
  <2>2. ListedBy(nxt) \subseteq S
    BY <2>1, ListedLeast DEF Leads
  <2> QED BY <2>2 DEF ListedBy
<1>4. Null \notin S
  BY DEF Leads, Nodes, head, tail, Null, Heap
<1>5. \A n \in S : ky[n] \in Nat
  BY DEF Leads
<1>6. 0 \in T
  BY <1>1
<1>7. ASSUME NEW b \in 0 .. M - 1, b \in T PROVE b + 1 \in T
  <2>1. b + 1 \in 1 .. M /\ b \in 0 .. M /\ b + 1 \in 0 .. M /\ (b + 1) - 1 = b
    BY <1>1
  <2>2. V[b + 1] = After(nxt, V[b])
    BY <1>2, <2>1
  <2>3. V[b] \in S /\ V[b + 1] \in S
    BY <1>3, <2>1
  <2>4. V[b] # Null
    BY <1>4, <2>3
  <2>5. Up(b, b + 1)
    BY <2>2, <2>3, <2>4 DEF After, Leads
  <2>6. ASSUME NEW a \in 0 .. b - 1 PROVE Up(a, b + 1)
    <3>1. Up(a, b)
      BY <1>7
    <3>2. a \in 0 .. M /\ V[a] \in S
      BY <1>1, <1>3, <2>1
    <3>3. ky[V[a]] \in Nat /\ ky[V[b]] \in Nat /\ ky[V[b + 1]] \in Nat
      BY <1>5, <2>3, <3>2
    <3>4. CASE V[b] = tail
      <4>1. V[b + 1] = tail
        BY <2>2, <3>4 DEF After
      <4> QED BY <3>1, <3>4, <4>1
    <3>5. CASE V[b] # tail
      <4>1. ky[V[a]] < ky[V[b]] /\ V[a] # tail
        BY <3>1, <3>5
      <4>2. ky[V[b]] < ky[V[b + 1]]
        BY <2>5, <3>5
      <4> QED BY <3>3, <4>1, <4>2
    <3> QED BY <3>4, <3>5
  <2>7. \A a \in 0 .. b : a = b \/ a \in 0 .. b - 1
    BY <2>1
  <2> HIDE DEF Up
  <2>8. \A a \in 0 .. (b + 1) - 1 : Up(a, b + 1)
    BY <2>1, <2>5, <2>6, <2>7
  <2> QED BY <2>1, <2>8
<1>8. 0 .. M \subseteq T
  <2> HIDE DEF T, M
  <2> QED BY <1>1, <1>6, <1>7, Counting
<1>9. Up(i, j)
  BY <1>8
<1> QED BY <1>9

\* So it gets to tail: there are not nodes enough to go on for ever.
LEMMA TailListed ==
  ASSUME NEW nxt, NEW ky \in [Nodes -> Nat], NEW S, Leads(nxt, ky, S)
  PROVE  tail \in ListedBy(nxt) /\ ListedBy(nxt) \subseteq S
<1> DEFINE V == VisitedBy(nxt)
<1> DEFINE M == HeapSize + 1
<1>1. M \in Nat
  BY HeapSizeAssumption
<1>2. ListedBy(nxt) \subseteq S /\ S \subseteq Nodes
  BY ListedLeast DEF Leads
<1>3. SUFFICES ASSUME tail \notin ListedBy(nxt) PROVE FALSE
  BY <1>2
<1>4. \A n \in 0 .. M : V[n] \in Nodes \ {tail}
  BY <1>2, <1>3 DEF ListedBy
<1> DEFINE f == [n \in 0 .. M |-> V[n]]
<1>5. f \in [0 .. M -> Nodes \ {tail}]
  BY <1>4
<1>6. IsFiniteSet(0 .. M) /\ Cardinality(0 .. M) = HeapSize + 2
  BY <1>1, FS_Interval, HeapSizeAssumption
<1>7. IsFiniteSet(Nodes \ {tail}) /\ Cardinality(Nodes \ {tail}) = HeapSize + 1
  <2>1. Nodes = 1 .. HeapSize + 2 /\ tail \in Nodes
    BY HeapSizeAssumption DEF Nodes, head, tail, Heap
  <2>2. IsFiniteSet(Nodes) /\ Cardinality(Nodes) = HeapSize + 2
    BY <2>1, FS_Interval, HeapSizeAssumption
  <2>3. tail \in Nodes
    BY <2>1
  <2>4. /\ IsFiniteSet(Nodes \ {tail})
        /\ Cardinality(Nodes \ {tail}) = Cardinality(Nodes) - 1
    BY ONLY <2>2, <2>3, FS_RemoveElement
  <2> QED BY <2>2, <2>4, HeapSizeAssumption
<1>8. Cardinality(Nodes \ {tail}) < Cardinality(0 .. M)
  BY <1>6, <1>7, HeapSizeAssumption
<1>9. PICK x \in 0 .. M, y \in 0 .. M : x # y /\ f[x] = f[y]
  <2> HIDE DEF f, M
  <2> QED BY <1>5, <1>6, <1>7, <1>8, FS_PigeonHole
<1>10. \A n \in Nodes : ky[n] \in Nat
  OBVIOUS
<1>11. PICK i \in 0 .. M, j \in 0 .. M : i < j /\ V[i] = V[j]
  <2>1. V[x] = V[y] /\ (x < y \/ y < x)
    BY <1>1, <1>9
  <2> QED BY <2>1
<1>12. V[i] \in Nodes /\ V[i] # tail
  BY <1>4, <1>11
<1>13. ky[V[i]] < ky[V[j]]
  <2>1. i < j
    BY <1>11
  <2>2. \/ V[i] = tail /\ V[j] = tail
        \/ V[i] # tail /\ ky[V[i]] < ky[V[j]]
    BY <2>1, VisitedIncreasing
  <2> QED BY <1>12, <2>2
<1>14. ky[V[i]] \in Nat
  BY <1>10, <1>12
<1> HIDE DEF V
<1> QED BY <1>11, <1>13, <1>14

\* What is listed leads to tail, each node to the one with the next key.
LEMMA ListedOrdered ==
  ASSUME NEW nxt, NEW ky \in [Nodes -> Nat], NEW S, Leads(nxt, ky, S)
  PROVE  /\ Leads(nxt, ky, ListedBy(nxt)) /\ tail \in ListedBy(nxt)
         /\ ListedBy(nxt) \subseteq S /\ Null \notin ListedBy(nxt)
         /\ \A m, n \in ListedBy(nxt) :
              /\ ky[m] = ky[n] => m = n
              /\ m # tail /\ ky[m] < ky[n] => ky[nxt[m]] <= ky[n]
<1> DEFINE V == VisitedBy(nxt)
<1> DEFINE M == HeapSize + 1
<1>1. M \in Nat
  BY HeapSizeAssumption
<1>2. ListedBy(nxt) \subseteq S /\ tail \in ListedBy(nxt)
  BY TailListed
<1>3. Null \notin ListedBy(nxt)
  BY <1>2 DEF Leads, Nodes, head, tail, Null, Heap
<1>4. Leads(nxt, ky, ListedBy(nxt))
  BY <1>2, <1>3, ListedClosed DEF Leads
<1>5. ASSUME NEW m \in ListedBy(nxt), NEW n \in ListedBy(nxt)
      PROVE  /\ ky[m] = ky[n] => m = n
             /\ m # tail /\ ky[m] < ky[n] => ky[nxt[m]] <= ky[n]
  <2>1. PICK i \in 0 .. M : m = V[i]
    BY DEF ListedBy
  <2>2. PICK j \in 0 .. M : n = V[j]
    BY DEF ListedBy
  <2>3. ky[m] \in Nat /\ ky[n] \in Nat
    BY <1>4 DEF Leads
  <2>4. CASE i < j
    <3>1. (m = tail /\ n = tail) \/ (m # tail /\ ky[m] < ky[n])
      BY <2>1, <2>2, <2>4, VisitedIncreasing
    <3>2. ASSUME m # tail PROVE ky[nxt[m]] <= ky[n]
      <4>1. i + 1 \in 1 .. M /\ i + 1 \in 0 .. M /\ (i + 1) - 1 = i
        BY <1>1, <2>4
      <4>2. V[i + 1] = nxt[m]
        BY <1>3, <2>1, <3>2, <4>1, VisitedFacts DEF After
      <4>3. nxt[m] \in Nodes /\ n \in Nodes
        BY <1>4, <3>2 DEF Leads
      <4>4. CASE i + 1 = j
        BY <2>2, <2>3, <4>2, <4>4
      <4>5. CASE i + 1 < j
        <5>1. (nxt[m] = tail /\ n = tail) \/ (nxt[m] # tail /\ ky[nxt[m]] < ky[n])
          BY <2>2, <4>1, <4>2, <4>5, VisitedIncreasing
        <5>2. ky[nxt[m]] \in Nat
          BY <4>3
        <5> QED BY <2>3, <5>1, <5>2
      <4> QED BY <2>4, <4>1, <4>4, <4>5
    <3> QED BY <2>3, <3>1, <3>2
  <2>5. CASE j < i
    <3>1. (n = tail /\ m = tail) \/ (n # tail /\ ky[n] < ky[m])
      BY <2>1, <2>2, <2>5, VisitedIncreasing
    <3> QED BY <2>3, <3>1
  <2>6. CASE i = j
    BY <2>1, <2>2, <2>3, <2>6
  <2> QED BY <2>4, <2>5, <2>6
<1> QED BY <1>2, <1>3, <1>4, <1>5

\* What is not listed does not matter.
LEMMA ListedSame ==
  ASSUME NEW nxt, NEW ky \in [Nodes -> Nat], NEW S, Leads(nxt, ky, S),
         NEW nxt2, \A n \in ListedBy(nxt) \ {tail} : nxt2[n] = nxt[n]
  PROVE  ListedBy(nxt2) = ListedBy(nxt)
<1> DEFINE L == ListedBy(nxt)
<1>1. Leads(nxt, ky, L) /\ Null \notin L
  BY ListedOrdered
<1>2. Leads(nxt2, ky, L)
  BY <1>1 DEF Leads
<1>3. ListedBy(nxt2) \subseteq L /\ tail \in ListedBy(nxt2)
  <2> HIDE DEF L
  <2> QED BY <1>2, TailListed
<1>4. /\ head \in ListedBy(nxt2)
      /\ \A n \in ListedBy(nxt2) \ {tail, Null} : nxt2[n] \in ListedBy(nxt2)
  BY <1>3, ListedClosed
<1>5. \A n \in ListedBy(nxt2) \ {tail, Null} : nxt[n] \in ListedBy(nxt2)
  BY <1>3, <1>4
<1>6. L \subseteq ListedBy(nxt2)
  BY <1>4, <1>5, ListedLeast
<1> QED BY <1>3, <1>6

\* A node linked between two that are listed is listed, and no node is lost.
LEMMA ListedInsert ==
  ASSUME NEW nxt, NEW ky \in [Nodes -> Nat], NEW S, Leads(nxt, ky, S),
         NEW p \in ListedBy(nxt) \ {tail}, NEW n \in Nodes \ ListedBy(nxt),
         ky[p] < ky[n], ky[n] < ky[nxt[p]],
         NEW nxt2, nxt2[p] = n, nxt2[n] = nxt[p],
         \A m \in ListedBy(nxt) \ {p, tail} : nxt2[m] = nxt[m]
  PROVE  Leads(nxt2, ky, ListedBy(nxt2)) /\ ListedBy(nxt2) = ListedBy(nxt) \union {n}
<1> DEFINE L == ListedBy(nxt)
<1>1. Leads(nxt, ky, L) /\ tail \in L
  BY ListedOrdered
<1>2. /\ p \in Nodes /\ p # n /\ nxt2[p] = n /\ nxt2[n] = nxt[p] /\ nxt[p] \in L
      /\ \A m \in L \ {p, tail} : nxt2[m] = nxt[m]
  BY <1>1 DEF Leads
<1> DEFINE L2 == L \union {n}
<1>3. Leads(nxt2, ky, L2)
  BY <1>1, <1>2 DEF Leads
<1>4. /\ Leads(nxt2, ky, ListedBy(nxt2)) /\ ListedBy(nxt2) \subseteq L2
      /\ Null \notin ListedBy(nxt2)
  <2> HIDE DEF L, L2
  <2> QED BY <1>3, ListedOrdered
<1>5. L \subseteq ListedBy(nxt2)
  <2> DEFINE T == L \cap ListedBy(nxt2)
  <2>1. head \in T
    BY <1>1, <1>4 DEF Leads
  <2>2. ASSUME NEW m \in T \ {tail, Null} PROVE nxt[m] \in T
    <3>1. nxt[m] \in L /\ nxt2[m] \in ListedBy(nxt2)
      BY <1>1, <1>4 DEF Leads
    <3>2. CASE m = p
      <4>1. n \in ListedBy(nxt2) /\ n # tail
        BY <1>1, <1>2, <3>1, <3>2
      <4>2. nxt2[n] \in ListedBy(nxt2)
        BY <1>4, <4>1 DEF Leads
      <4> QED BY <1>2, <3>1, <3>2, <4>2
    <3>3. CASE m # p
      BY <1>2, <3>1, <3>3
    <3> QED BY <3>2, <3>3
  <2>3. L \subseteq T
    <3> HIDE DEF T
    <3> QED BY <2>1, <2>2, ListedLeast
  <2> QED BY <2>3
<1>6. n \in ListedBy(nxt2)
  BY <1>2, <1>4, <1>5 DEF Leads
<1> QED BY <1>4, <1>5, <1>6

\* A node taken out is no longer listed, and all others still are.
LEMMA ListedRemove ==
  ASSUME NEW nxt, NEW ky \in [Nodes -> Nat], NEW S, Leads(nxt, ky, S),
         NEW p \in ListedBy(nxt) \ {tail}, nxt[p] # tail,
         NEW nxt2, nxt2[p] = nxt[nxt[p]],
         \A m \in ListedBy(nxt) \ {p, tail} : nxt2[m] = nxt[m]
  PROVE  Leads(nxt2, ky, ListedBy(nxt2)) /\ ListedBy(nxt2) = ListedBy(nxt) \ {nxt[p]}
<1> DEFINE L == ListedBy(nxt)
<1> DEFINE c == nxt[p]
<1>1. Leads(nxt, ky, L) /\ tail \in L
  BY ListedOrdered
<1>2. /\ p \in Nodes /\ c \in L \ {tail} /\ nxt[c] \in L /\ nxt2[p] = nxt[c]
      /\ \A m \in L \ {p, tail} : nxt2[m] = nxt[m]
  BY <1>1 DEF Leads
<1>3. \A m \in L : ky[m] \in Nat
  BY <1>1 DEF Leads
<1>4. ky[p] < ky[c] /\ ky[c] < ky[nxt[c]]
  BY <1>1, <1>2 DEF Leads
<1>5. head # c
  <2>1. ASSUME head = c PROVE FALSE
    <3> DEFINE T == {m \in L : ky[c] <= ky[m]}
    <3>1. head \in T
      BY <1>2, <1>3, <2>1
    <3>2. ASSUME NEW m \in T \ {tail, Null} PROVE nxt[m] \in T
      <4>1. nxt[m] \in L /\ ky[m] < ky[nxt[m]]
        BY <1>1 DEF Leads
      <4> QED BY <1>2, <1>3, <4>1
    <3>3. L \subseteq T
      <4> HIDE DEF T
      <4> QED BY <3>1, <3>2, ListedLeast
    <3> QED BY <1>2, <1>3, <1>4, <3>3
  <2> QED BY <2>1
<1>6. \A m \in L \ {tail, p} : nxt[m] # c
  <2> SUFFICES ASSUME NEW m \in L \ {tail, p}, nxt[m] = c PROVE FALSE
    OBVIOUS
  <2>1. /\ ky[m] < ky[p] => ky[nxt[m]] <= ky[p]
        /\ ky[p] < ky[m] => ky[nxt[p]] <= ky[m]
        /\ ky[m] = ky[p] => m = p
    BY ListedOrdered
  <2>2. ky[m] < ky[c] /\ ky[m] \in Nat /\ ky[p] \in Nat /\ ky[c] \in Nat
    BY <1>1, <1>2, <1>3 DEF Leads
  <2> QED BY <1>4, <2>1, <2>2
<1>7. Leads(nxt2, ky, L \ {c})
  <2>1. ASSUME NEW m \in (L \ {c}) \ {tail}
        PROVE  nxt2[m] \in L \ {c} /\ ky[m] < ky[nxt2[m]]
    <3>1. CASE m = p
      BY <1>2, <1>3, <1>4, <3>1
    <3>2. CASE m # p
      BY <1>1, <1>2, <1>6, <3>2 DEF Leads
    <3> QED BY <3>1, <3>2
  <2> QED BY <1>1, <1>5, <2>1 DEF Leads
<1> DEFINE L2 == L \ {c}
<1>8. /\ Leads(nxt2, ky, ListedBy(nxt2)) /\ ListedBy(nxt2) \subseteq L2
      /\ Null \notin ListedBy(nxt2)
  <2>1. Leads(nxt2, ky, L2)
    BY <1>7
  <2> HIDE DEF L, c, L2
  <2> QED BY <2>1, ListedOrdered
<1>9. L \ {c} \subseteq ListedBy(nxt2)
  <2> DEFINE T == {m \in L : \/ m = c /\ p \in ListedBy(nxt2)
                            \/ m \in ListedBy(nxt2)}
  <2>1. head \in T
    BY <1>1, <1>8 DEF Leads
  <2>2. ASSUME NEW m \in T \ {tail, Null} PROVE nxt[m] \in T
    <3>1. nxt[m] \in L
      BY <1>1 DEF Leads
    <3>2. CASE m = p
      BY <1>3, <1>4, <3>1, <3>2
    <3>3. CASE m # p /\ m # c
      <4>1. nxt2[m] \in ListedBy(nxt2)
        BY <1>8, <3>3 DEF Leads
      <4> QED BY <1>2, <3>1, <3>3, <4>1
    <3>4. CASE m = c
      <4>1. p \in ListedBy(nxt2)
        BY <1>8, <3>4
      <4> QED BY <1>2, <1>8, <3>1, <3>4, <4>1 DEF Leads
    <3> QED BY <3>2, <3>3, <3>4
  <2>3. L \subseteq T
    <3> HIDE DEF T
    <3> QED BY <2>1, <2>2, ListedLeast
  <2> QED BY <2>3
<1> QED BY <1>8, <1>9

-----------------------------------------------------------------------------
(* What the invariant says of the list.                                     *)

LEMMA Types ==
  ASSUME HeapTypeOK
  PROVE  /\ key \in [Nodes -> Nat] /\ next \in [Nodes -> Nodes \union {Null}]
         /\ \A n \in Nodes : key[n] \in Nat
         /\ \A x \in Keys : x \in Nat /\ 0 < x /\ x < MaxKey + 1
<1>1. 0 .. MaxKey + 1 \subseteq Nat
  BY MaxKeyAssumption
<1>2. key \in [Nodes -> Nat]
  BY <1>1 DEF HeapTypeOK
<1> QED BY <1>2, MaxKeyAssumption DEF HeapTypeOK, Keys

LEMMA Sentinels == head # tail /\ head \in Nodes /\ tail \in Nodes /\ Null \notin Nodes
                   /\ head \notin Heap /\ tail \notin Heap /\ Null \notin Heap
                   /\ Heap \subseteq Nodes
BY DEF head, tail, Null, Nodes, Heap

LEMMA ListFacts ==
  ASSUME LockFreeInv
  PROVE  /\ Listed = ListedBy(next) /\ Leads(next, key, Listed)
         /\ Listed \subseteq Linked /\ tail \in Listed /\ head \in Listed
         /\ Linked \subseteq Nodes /\ Linked \ marked \subseteq Listed
         /\ \A m, n \in Listed :
              /\ key[m] = key[n] => m = n
              /\ m # tail /\ key[m] < key[n] => key[next[m]] <= key[n]
<1>1. key \in [Nodes -> Nat] /\ Leads(next, key, Linked)
  BY Types DEF LockFreeInv, MarkInv, LinkedOK
<1>2. Listed = ListedBy(next)
  BY ListedNow
<1>3. /\ Leads(next, key, ListedBy(next)) /\ tail \in ListedBy(next)
      /\ ListedBy(next) \subseteq Linked
      /\ \A m, n \in ListedBy(next) :
           /\ key[m] = key[n] => m = n
           /\ m # tail /\ key[m] < key[n] => key[next[m]] <= key[n]
  <2> HIDE DEF Linked
  <2> QED BY <1>1, ListedOrdered
<1>4. Linked \ marked \subseteq Listed
  BY DEF LockFreeInv, MarkInv, Linked
<1>5. head \in ListedBy(next) /\ Linked \subseteq Nodes
  BY <1>1, <1>3 DEF Leads
<1> QED BY <1>2, <1>3, <1>4, <1>5

\* A node that was linked and is not marked has its key in the set.
LEMMA UnmarkedIsMember ==
  ASSUME LockFreeInv, NEW n \in Linked \ marked, key[n] \in Keys
  PROVE  key[n] \in members
<1>1. n \in Listed
  BY ListFacts
<1>2. key[head] \notin Keys /\ key[tail] \notin Keys
  BY MaxKeyAssumption DEF LockFreeInv, LinkedOK, Keys
<1> QED BY <1>1, <1>2 DEF members

\* A key between two neighbours is not in the set.
LEMMA BetweenIsAbsent ==
  ASSUME LockFreeInv, NEW p \in Listed \ {tail}, NEW x \in Nat,
         key[p] < x, x < key[next[p]]
  PROVE  x \notin members
<1> SUFFICES ASSUME NEW n \in Listed, key[n] = x PROVE FALSE
  BY DEF members
<1>1. key[p] < key[n]
  OBVIOUS
<1>2. key[next[p]] <= key[n]
  BY <1>1, ListFacts
<1>3. key[next[p]] \in Nat
  <2>1. next[p] \in Nodes
    BY ListFacts DEF Leads
  <2> QED BY <2>1, Types DEF LockFreeInv, MarkInv
<1> QED BY <1>2, <1>3

-----------------------------------------------------------------------------
(* What a step does to the list.                                            *)

\* MarkInv of the next state, from what a step shows of it.
LEMMA MarkInvAfter ==
  ASSUME HeapTypeOK', LinkedOK', Linked' \ marked' \subseteq Listed',
         head \notin marked', tail \notin marked'
  PROVE  MarkInv' /\ Listed' \subseteq Linked'
<1>1. PICK nx, ky, L : nx = next' /\ ky = key' /\ L = Linked'
  OBVIOUS
<1>2. ky \in [Nodes -> Nat]
  <2>1. 0 .. MaxKey + 1 \subseteq Nat
    BY MaxKeyAssumption
  <2> QED BY <1>1, <2>1 DEF HeapTypeOK
<1>3. Leads(nx, ky, L)
  BY <1>1 DEF LinkedOK, Leads
<1>4. Leads(nx, ky, ListedBy(nx)) /\ tail \in ListedBy(nx) /\ ListedBy(nx) \subseteq L
  BY <1>2, <1>3, ListedOrdered
<1>5. Listed' = ListedBy(nx)
  BY <1>1, ListedNow
<1>6. Sorted'
  <2>1. tail \in Listed' /\ Listed' \subseteq live'
    BY <1>1, <1>4, <1>5 DEF Linked
  <2>2. \A n \in Listed' \ {tail} : key'[n] < key'[next'[n]]
    BY <1>1, <1>4, <1>5 DEF Leads
  <2> QED BY <2>1, <2>2 DEF Sorted
<1>7. marked' \subseteq live' \ {head, tail}
  BY DEF LinkedOK, Linked
<1>8. live' \ (Private' \union marked') \subseteq Listed'
  BY DEF Linked
<1> QED BY <1>1, <1>4, <1>5, <1>6, <1>7, <1>8 DEF MarkInv

\* A step that leaves the nodes that were linked alone.
Quiet == /\ Linked' = Linked /\ marked' = marked
         /\ \A n \in Linked : key'[n] = key[n] /\ next'[n] = next[n]

LEMMA QuietList ==
  ASSUME LockFreeInv, HeapTypeOK', Quiet
  PROVE  MarkInv' /\ LinkedOK' /\ Listed' = Listed /\ members' = members
<1>1. /\ Listed = ListedBy(next) /\ Leads(next, key, Listed) /\ Listed \subseteq Linked
      /\ head \in Listed /\ tail \in Listed
  BY ListFacts
<1>2. key \in [Nodes -> Nat]
  BY Types DEF LockFreeInv, MarkInv
<1>3. Listed' = Listed
  <2>1. Listed' = ListedBy(next')
    BY ListedNow
  <2>2. PICK nx : nx = next'
    OBVIOUS
  <2>3. \A n \in ListedBy(next) \ {tail} : nx[n] = next[n]
    BY <1>1, <2>2 DEF Quiet
  <2>4. ListedBy(nx) = ListedBy(next)
    BY <1>1, <1>2, <2>3, ListedSame
  <2> QED BY <1>1, <2>1, <2>2, <2>4
<1>4. members' = members
  BY <1>1, <1>3 DEF members, Quiet
<1>5. LinkedOK'
  <2>1. LinkedOK /\ Linked' = Linked /\ head \in Linked
    BY <1>1 DEF LockFreeInv, Quiet
  <2>2. Leads(next, key, Linked)'
    BY <2>1 DEF LinkedOK, Leads, Quiet
  <2> QED BY <2>1, <2>2 DEF LinkedOK, Quiet
<1>6. MarkInv'
  BY <1>3, <1>5, ListFacts, MarkInvAfter DEF LockFreeInv, MarkInv, Quiet
<1> QED BY <1>3, <1>4, <1>5, <1>6

\* n, which was private, is linked between p and what followed it.
LEMMA LinkList ==
  ASSUME LockFreeInv, HeapTypeOK', NEW p \in Linked \ marked, NEW n \in Nodes \ Linked,
         p # tail, n \in live, key[n] \in Keys, key[p] < key[n], key[n] < key[next[p]],
         next' = [next EXCEPT ![p] = n, ![n] = next[p]], UNCHANGED <<key, marked, live>>,
         Linked' = Linked \union {n}
  PROVE  /\ MarkInv' /\ LinkedOK' /\ Listed' = Listed \union {n}
         /\ key[n] \notin members /\ members' = members \union {key[n]}
<1>1. /\ Listed = ListedBy(next) /\ Leads(next, key, Listed) /\ Listed \subseteq Linked
      /\ head \in Listed /\ tail \in Listed /\ p \in Listed
  BY ListFacts
<1>2. key \in [Nodes -> Nat] /\ next \in [Nodes -> Nodes \union {Null}]
  BY Types DEF LockFreeInv, MarkInv
<1>3. Listed' = Listed \union {n}
  <2>1. Listed' = ListedBy(next')
    BY ListedNow
  <2>2. PICK nx : nx = next'
    OBVIOUS
  <2>3. /\ nx[p] = n /\ nx[n] = next[p]
        /\ \A m \in ListedBy(next) \ {p, tail} : nx[m] = next[m]
    BY <1>1, <1>2, <2>2, ListFacts
  <2>4. /\ p \in ListedBy(next) \ {tail} /\ n \in Nodes \ ListedBy(next)
        /\ Leads(next, key, ListedBy(next)) /\ key[p] < key[n] /\ key[n] < key[next[p]]
    BY <1>1
  <2>5. ListedBy(nx) = ListedBy(next) \union {n}
    BY ONLY <1>2, <2>3, <2>4, ListedInsert
  <2> QED BY <1>1, <2>1, <2>2, <2>5
<1>4. n \notin marked /\ head \notin marked /\ tail \notin marked /\ n # head /\ n # tail
  BY <1>1 DEF LockFreeInv, LinkedOK, MarkInv
<1>5. key[n] \notin members
  <2>1. key[n] \in Nat
    BY <1>2
  <2> QED BY <1>1, <2>1, BetweenIsAbsent
<1>6. members' = members \union {key[n]}
  BY <1>3, <1>4 DEF members
<1>7. LinkedOK'
  <2>1. /\ next'[p] = n /\ next'[n] = next[p] /\ p # n
        /\ \A m \in Linked \ {p} : next'[m] = next[m]
    BY <1>1, <1>2, ListFacts
  <2>2. Leads(next, key, Linked)
    BY DEF LockFreeInv, LinkedOK
  <2>3. next[p] \in Linked
    BY <2>2 DEF Leads
  <2>4. Leads(next, key, Linked)'
    <3>1. ASSUME NEW m \in Linked' \ {tail}
          PROVE  next'[m] \in Linked' /\ key[m] < key[next'[m]]
      <4>1. CASE m = p
        BY <2>1, <4>1
      <4>2. CASE m = n
        BY <2>1, <2>3, <4>2
      <4>3. CASE m # p /\ m # n
        <5>1. m \in Linked \ {tail} /\ next'[m] = next[m]
          BY <2>1, <4>3
        <5>2. next[m] \in Linked /\ key[m] < key[next[m]]
          BY <2>2, <5>1 DEF Leads
        <5> QED BY <5>1, <5>2
      <4> QED BY <4>1, <4>2, <4>3
    <3>2. Linked' \subseteq Nodes /\ head \in Linked'
      BY <2>2 DEF Leads
    <3> QED BY <3>1, <3>2 DEF Leads
  <2> QED BY <2>4 DEF LockFreeInv, LinkedOK
<1>8. Linked' \ marked' \subseteq Listed'
  BY <1>3, ListFacts
<1>9. MarkInv'
  BY <1>4, <1>7, <1>8, MarkInvAfter
<1> QED BY <1>3, <1>5, <1>6, <1>7, <1>9

\* The marked node after p is taken out.
LEMMA SnipList ==
  ASSUME LockFreeInv, HeapTypeOK', NEW p \in Linked \ marked, p # tail, next[p] \in marked,
         next' = [next EXCEPT ![p] = next[next[p]]], UNCHANGED <<key, marked, live>>,
         Linked' = Linked
  PROVE  MarkInv' /\ LinkedOK' /\ Listed' = Listed \ {next[p]} /\ members' = members
<1>1. /\ Listed = ListedBy(next) /\ Leads(next, key, Listed) /\ Listed \subseteq Linked
      /\ head \in Listed /\ tail \in Listed /\ p \in Listed
  BY ListFacts
<1>2. key \in [Nodes -> Nat] /\ next \in [Nodes -> Nodes \union {Null}]
  BY Types DEF LockFreeInv, MarkInv
<1>3. head \notin marked /\ tail \notin marked /\ next[p] # tail
  BY DEF LockFreeInv, MarkInv
<1>4. Listed' = Listed \ {next[p]}
  <2>1. Listed' = ListedBy(next')
    BY ListedNow
  <2>2. PICK nx : nx = next'
    OBVIOUS
  <2>3. /\ nx[p] = next[next[p]]
        /\ \A m \in ListedBy(next) \ {p, tail} : nx[m] = next[m]
    BY <1>1, <1>2, <2>2, ListFacts
  <2>4. p \in ListedBy(next) \ {tail} /\ Leads(next, key, ListedBy(next))
    BY <1>1
  <2>5. ListedBy(nx) = ListedBy(next) \ {next[p]}
    BY ONLY <1>2, <1>3, <2>3, <2>4, ListedRemove
  <2> QED BY <1>1, <2>1, <2>2, <2>5
<1>5. members' = members
  BY <1>4 DEF members
<1>6. LinkedOK'
  <2>1. /\ p \in Nodes /\ next'[p] = next[next[p]]
        /\ \A m \in Linked \ {p} : next'[m] = next[m]
    BY <1>2, ListFacts
  <2>2. Leads(next, key, Linked)
    BY DEF LockFreeInv, LinkedOK
  <2>3. /\ next[p] \in Linked /\ next[next[p]] \in Linked
        /\ key[p] < key[next[p]] /\ key[next[p]] < key[next[next[p]]]
    BY <1>3, <2>2 DEF Leads
  <2>4. key[p] < key[next[next[p]]]
    <3>1. key[p] \in Nat /\ key[next[p]] \in Nat /\ key[next[next[p]]] \in Nat
      BY <1>2, <2>1, <2>3, ListFacts
    <3> QED BY <2>3, <3>1
  <2>5. Leads(next, key, Linked)'
    BY <2>1, <2>2, <2>3, <2>4 DEF Leads
  <2> QED BY <2>5 DEF LockFreeInv, LinkedOK
<1>7. Linked' \ marked' \subseteq Listed'
  BY <1>4, ListFacts
<1>8. MarkInv'
  BY <1>3, <1>6, <1>7, MarkInvAfter
<1> QED BY <1>4, <1>5, <1>6, <1>8

\* A node that is listed is marked.
LEMMA MarkList ==
  ASSUME LockFreeInv, HeapTypeOK', NEW c \in Linked \ marked, key[c] \in Keys,
         marked' = marked \union {c}, UNCHANGED <<key, next, live>>, Linked' = Linked
  PROVE  /\ MarkInv' /\ LinkedOK' /\ Listed' = Listed
         /\ key[c] \in members /\ members' = members \ {key[c]}
<1>1. c \in Listed /\ \A m, n \in Listed : key[m] = key[n] => m = n
  BY ListFacts
<1>2. key[c] \in members
  BY UnmarkedIsMember
<1>3. Listed' = Listed
  BY ListedNow
<1>4. key[head] \notin Keys /\ key[tail] \notin Keys
  BY MaxKeyAssumption DEF LockFreeInv, LinkedOK, Keys
<1>5. c # head /\ c # tail
  BY <1>4
<1>6. members' = members \ {key[c]}
  BY <1>1, <1>3 DEF members
<1>7. LinkedOK'
  BY DEF LockFreeInv, LinkedOK, Leads
<1>8. Linked' \ marked' \subseteq Listed'
  BY <1>3, ListFacts
<1>9. MarkInv'
  BY <1>5, <1>7, <1>8, MarkInvAfter DEF LockFreeInv, MarkInv
<1> QED BY <1>2, <1>3, <1>6, <1>7, <1>9

-----------------------------------------------------------------------------
(* Types.                                                                   *)

LocalType == [pc : Places, prev : Nodes \union {Null}, curr : Nodes \union {Null},
              node : Heap \union {Null}, it : Nodes \union {Null}, ret : BOOLEAN]

CallType == [op : Ops \union {"none"}, key : 0 .. MaxKey, seen : SUBSET BOOLEAN,
             changed : BOOLEAN, answer : BOOLEAN]

\* The pointers of a walk are nodes, and so is what they point to.
LEMMA Pointers ==
  ASSUME LockFreeInv, NEW t \in Threads
  PROVE  /\ local[t] \in LocalType /\ call[t] \in CallType
         /\ \A n \in Nodes : next[n] \in Nodes \union {Null}
         /\ local[t].pc \in {"succ", "snip", "found", "mark"} =>
              Prev(t) \in Nodes /\ Curr(t) \in Nodes /\ k(t) \in Keys
         /\ local[t].pc = "seek" => Curr(t) \in Nodes /\ k(t) \in Keys
<1>1. HeapTypeOK /\ CallOK(t) /\ WalkOK(t) /\ SeekOK(t) /\ Linked \subseteq Nodes
  BY ListFacts DEF LockFreeInv, MarkInv
<1>2. local[t].pc # "idle" => k(t) \in Keys
  BY <1>1 DEF CallOK, PlacesOf, HeapTypeOK
<1>3. /\ local[t].pc \in {"succ", "snip", "found", "mark"} =>
           Prev(t) \in Nodes /\ Curr(t) \in Nodes
      /\ local[t].pc = "seek" => Curr(t) \in Nodes
  BY <1>1 DEF WalkOK, SeekOK, At
<1> QED BY <1>1, <1>2, <1>3 DEF HeapTypeOK, LocalType, CallType

\* What an assignment to the locals of one thread does.
LEMMA LocalStep ==
  ASSUME HeapTypeOK, NEW t \in Threads, NEW r \in LocalType, local' = [local EXCEPT ![t] = r]
  PROVE  /\ local'[t] = r /\ \A u \in Threads \ {t} : local'[u] = local[u]
         /\ local' \in [Threads -> LocalType]
BY DEF HeapTypeOK, LocalType

\* What Noticed does to the call of u.
Hears(u, t, x, in) ==
    /\ call'[u].op = call[u].op /\ call'[u].key = call[u].key
    /\ call[u].seen \subseteq call'[u].seen
    /\ u # t => call'[u].changed = call[u].changed
    /\ u = t /\ call[u].op \in Ops /\ call[u].key = x => call'[u].changed = TRUE
    /\ call[u].op \in Ops /\ call[u].key = x => in \in call'[u].seen

LEMMA NoticedFacts ==
  ASSUME HeapTypeOK, NEW t \in Threads, NEW x, NEW in \in BOOLEAN,
         call' = Noticed(call, t, x, in)
  PROVE  call' \in [Threads -> CallType] /\ \A u \in Threads : Hears(u, t, x, in)
<1>1. call \in [Threads -> CallType]
  BY DEF HeapTypeOK, CallType
<1>2. \A u \in Threads : call'[u] = IF call[u].op \in Ops /\ call[u].key = x
                                    THEN [call[u] EXCEPT !.seen = @ \union {in},
                                                         !.changed = @ \/ u = t]
                                    ELSE call[u]
  BY <1>1 DEF Noticed
<1>3. ASSUME NEW u \in Threads PROVE call'[u] \in CallType /\ Hears(u, t, x, in)
  <2>1. call[u] \in CallType
    BY <1>1
  <2>2. CASE call[u].op \in Ops /\ call[u].key = x
    <3>1. call'[u] = [call[u] EXCEPT !.seen = @ \union {in}, !.changed = @ \/ u = t]
      BY <1>2, <2>2
    <3>2. call[u].changed = TRUE \/ call[u].changed = FALSE
      BY <2>1 DEF CallType
    <3>3. PICK b : b = (call[u].changed \/ u = t)
      OBVIOUS
    <3>4. b \in BOOLEAN
      BY <3>2, <3>3
    <3>5. call'[u] = [call[u] EXCEPT !.seen = @ \union {in}, !.changed = b]
      BY <3>1, <3>3
    <3>6. call'[u].changed = b
      BY <2>1, <3>5 DEF CallType
    <3>7. /\ call'[u].op = call[u].op /\ call'[u].key = call[u].key
          /\ call'[u].seen = call[u].seen \union {in} /\ call'[u].answer = call[u].answer
      BY <2>1, <3>5 DEF CallType
    <3>8. call'[u] \in CallType
      <4>1. PICK s : s = call[u].seen \union {in}
        OBVIOUS
      <4>2. s \in SUBSET BOOLEAN
        BY <2>1, <4>1 DEF CallType
      <4>3. call'[u] = [call[u] EXCEPT !.seen = s, !.changed = b]
        BY <3>5, <4>1
      <4> QED BY <2>1, <3>4, <4>2, <4>3 DEF CallType
    <3>9. call[u].seen \subseteq call'[u].seen /\ in \in call'[u].seen
      BY <3>7
    <3>10. ASSUME u # t PROVE call'[u].changed = call[u].changed
      <4>1. CASE call[u].changed = TRUE
        <5>1. b = TRUE
          BY <3>3, <4>1
        <5> QED BY <3>6, <4>1, <5>1
      <4>2. CASE call[u].changed = FALSE
        <5>1. b = FALSE
          BY <3>3, <3>10, <4>2
        <5> QED BY <3>6, <4>2, <5>1
      <4> QED BY <3>2, <4>1, <4>2
    <3>11. ASSUME u = t PROVE call'[u].changed = TRUE
      <4>1. b = TRUE
        BY <3>3, <3>11
      <4> QED BY <3>6, <4>1
    <3>12. call'[u].op = call[u].op /\ call'[u].key = call[u].key
      BY <3>7
    <3> QED BY <3>8, <3>9, <3>10, <3>11, <3>12 DEF Hears
  <2>3. CASE ~ (call[u].op \in Ops /\ call[u].key = x)
    <3>1. call'[u] = call[u]
      BY <1>2, <2>3
    <3>2. ~ (u = t /\ call[u].op \in Ops /\ call[u].key = x)
      BY <2>3
    <3>3. Hears(u, t, x, in)
      BY <2>3, <3>1, <3>2 DEF Hears
    <3> QED BY <2>1, <3>1, <3>3
  <2> QED BY <2>2, <2>3
<1>4. call' = [u \in Threads |-> call'[u]]
  BY <1>1 DEF Noticed
<1> QED BY <1>3, <1>4

\* Every step keeps the types.
LEMMA TypeStep ==
  ASSUME LockFreeInv, NEW t \in Threads, Step(t)
  PROVE  HeapTypeOK'
<1>1. /\ HeapTypeOK /\ local[t] \in LocalType /\ call[t] \in CallType
      /\ \A n \in Nodes : next[n] \in Nodes \union {Null}
      /\ local[t].pc \in {"succ", "snip", "found", "mark"} =>
           Prev(t) \in Nodes /\ Curr(t) \in Nodes /\ k(t) \in Keys
      /\ local[t].pc = "seek" => Curr(t) \in Nodes /\ k(t) \in Keys
      /\ head \in Nodes /\ tail \in Nodes /\ Null \notin Nodes
  BY Pointers, Sentinels DEF LockFreeInv, MarkInv
<1>2. /\ key \in [Nodes -> 0 .. MaxKey + 1] /\ next \in [Nodes -> Nodes \union {Null}]
      /\ live \subseteq Nodes /\ local \in [Threads -> LocalType]
      /\ works \in [Threads -> 0 .. NumWork] /\ call \in [Threads -> CallType]
  BY <1>1 DEF HeapTypeOK, LocalType, CallType
<1>3. SUFFICES /\ key' \in [Nodes -> 0 .. MaxKey + 1]
               /\ next' \in [Nodes -> Nodes \union {Null}] /\ live' \subseteq Nodes
               /\ local' \in [Threads -> LocalType]
               /\ works' \in [Threads -> 0 .. NumWork] /\ call' \in [Threads -> CallType]
  BY DEF HeapTypeOK, LocalType, CallType
<1>4. CASE Begin(t, members) /\ UNCHANGED marked
  <2>1. works' \in [Threads -> 0 .. NumWork]
    BY <1>2, <1>4, NumWorkAssumption DEF Begin
  <2>2. PICK op \in Ops, x \in Keys :
          /\ call' = [call EXCEPT ![t] = Began(op, x, x \in members)]
          /\ IF op = "add" THEN Malloc(t, x)
             ELSE Goto(t, "start") /\ UNCHANGED <<key, live>>
    BY <1>4 DEF Begin
  <2>3. x \in 0 .. MaxKey /\ x \in 0 .. MaxKey + 1
    BY MaxKeyAssumption DEF Keys
  <2>4. call' \in [Threads -> CallType]
    <3>1. PICK b : b = (x \in members)
      OBVIOUS
    <3>2. b \in BOOLEAN
      BY <3>1
    <3>3. Began(op, x, b) \in CallType
      BY <2>3, <3>2 DEF Began, CallType
    <3>4. call' = [call EXCEPT ![t] = Began(op, x, b)]
      BY <2>2, <3>1
    <3> QED BY <1>2, <3>3, <3>4
  <2>5. CASE op = "add"
    <3>1. PICK n \in Heap \ live :
            /\ live' = live \union {n} /\ key' = [key EXCEPT ![n] = x]
            /\ local' = [local EXCEPT ![t].pc = "start", ![t].node = n]
      BY <2>2, <2>5 DEF Malloc
    <3>2. n \in Nodes
      BY Sentinels
    <3>3. local' \in [Threads -> LocalType]
      BY <1>1, <1>2, <3>1 DEF LocalType, Places
    <3>4. key' \in [Nodes -> 0 .. MaxKey + 1] /\ live' \subseteq Nodes
      BY <1>2, <2>3, <3>1, <3>2
    <3> QED BY <1>2, <1>4, <2>1, <2>4, <3>3, <3>4 DEF Begin
  <2>6. CASE op # "add"
    <3>1. local' = [local EXCEPT ![t].pc = "start"] /\ UNCHANGED <<key, live>>
      BY <2>2, <2>6 DEF Goto
    <3>2. local' \in [Threads -> LocalType]
      BY <1>1, <1>2, <3>1 DEF LocalType, Places
    <3> QED BY <1>2, <1>4, <2>1, <2>4, <3>1, <3>2 DEF Begin
  <2> QED BY <2>5, <2>6
<1>5. CASE \/ Find(t) \/ MeetMarked(t) \/ MeetSmaller(t) \/ Found(t) \/ SnipFails(t)
           \/ LoadVictim(t) \/ MarkFails(t) \/ StartSeek(t) \/ Seek(t)
  <2>1. UNCHANGED <<heap, works, call>>
    BY <1>5 DEF Find, MeetMarked, MeetSmaller, Found, SnipFails, LoadVictim, MarkFails,
                StartSeek, Seek
  <2>2. local' \in [Threads -> LocalType]
    <3>1. CASE Find(t)
      BY <1>1, <1>2, <3>1 DEF Find, LocalType, Places
    <3>2. CASE MeetMarked(t)
      BY <1>1, <1>2, <3>2 DEF MeetMarked, At, LocalType, Places
    <3>3. CASE MeetSmaller(t)
      BY <1>1, <1>2, <3>3 DEF MeetSmaller, At, LocalType, Places
    <3>4. CASE Found(t) \/ SnipFails(t) \/ MarkFails(t)
      BY <1>1, <1>2, <3>4 DEF Found, SnipFails, MarkFails, Goto, LocalType, Places
    <3>5. CASE LoadVictim(t)
      BY <1>1, <1>2, <3>5 DEF LoadVictim, At, LocalType, Places
    <3>6. CASE StartSeek(t)
      BY <1>1, <1>2, <3>6 DEF StartSeek, LocalType, Places
    <3>7. CASE Seek(t)
      BY <1>1, <1>2, <3>7 DEF Seek, At, LocalType, Places
    <3> QED BY <1>5, <3>1, <3>2, <3>3, <3>4, <3>5, <3>6, <3>7
  <2> QED BY <1>2, <2>1, <2>2 DEF heap
<1>6. CASE Snip(t)
  <2>1. next' = [next EXCEPT ![Prev(t)] = Succ(t)] /\ UNCHANGED <<key, live, works, call>>
        /\ local' = [local EXCEPT ![t].pc = "succ", ![t].curr = Succ(t)] /\ At(t, "snip")
    BY <1>6 DEF Snip
  <2>2. Prev(t) \in Nodes /\ Succ(t) \in Nodes \union {Null}
    BY <1>1, <2>1 DEF At, Succ, LocalType
  <2>3. next' \in [Nodes -> Nodes \union {Null}]
    BY <1>2, <2>1, <2>2
  <2>4. local' \in [Threads -> LocalType]
    BY <1>1, <1>2, <2>1, <2>2 DEF LocalType, Places
  <2> QED BY <1>2, <2>1, <2>3, <2>4
<1>7. CASE Link(t) \/ LinkFails(t)
  <2>1. /\ next' \in [Nodes -> Nodes \union {Null}] /\ UNCHANGED <<key, live, works>>
    <3>1. Prev(t) \in Nodes /\ Curr(t) \in Nodes /\ local[t].node \in Nodes \union {Null}
      BY <1>1, <1>7, Sentinels DEF Link, LinkFails, At, LocalType
    <3>2. CASE Link(t)
      BY <1>2, <3>1, <3>2 DEF Link
    <3>3. CASE LinkFails(t)
      BY <1>2, <3>1, <3>3 DEF LinkFails
    <3> QED BY <1>7, <3>2, <3>3
  <2>2. local' \in [Threads -> LocalType]
    <3>1. PICK place \in {"linked", "start"} : local' = [local EXCEPT ![t].pc = place]
      BY <1>7 DEF Link, LinkFails, Goto
    <3>2. place \in Places
      BY DEF Places
    <3> QED BY <1>1, <1>2, <3>1, <3>2 DEF LocalType
  <2>3. call' \in [Threads -> CallType]
    BY <1>1, <1>2, <1>7, NoticedFacts DEF Link, LinkFails
  <2> QED BY <1>2, <2>1, <2>2, <2>3
<1>8. CASE Mark(t)
  <2>1. local' \in [Threads -> LocalType]
    BY <1>1, <1>2, <1>8 DEF Mark, Goto, LocalType, Places
  <2>2. call' \in [Threads -> CallType]
    BY <1>1, <1>8, NoticedFacts DEF Mark
  <2> QED BY <1>2, <1>8, <2>1, <2>2 DEF Mark, heap
<1>9. CASE AddPresent(t) \/ AddReturns(t) \/ RemoveAbsent(t) \/ Contains(t)
  <2>1. /\ UNCHANGED <<key, next, works>> /\ live' \subseteq live
        /\ \E answer \in BOOLEAN : Return(t, answer)
    BY <1>9 DEF AddPresent, AddReturns, RemoveAbsent, Contains, heap
  <2>2. PICK answer \in BOOLEAN : Return(t, answer)
    BY <2>1
  <2>3. Idle \in LocalType /\ Returned(answer) \in CallType
    BY MaxKeyAssumption DEF Idle, LocalType, Places, Returned, CallType
  <2>4. local' \in [Threads -> LocalType] /\ call' \in [Threads -> CallType]
    BY <1>2, <2>2, <2>3 DEF Return
  <2> QED BY <1>2, <2>1, <2>4
<1> QED BY <1>4, <1>5, <1>6, <1>7, <1>8, <1>9 DEF Step

-----------------------------------------------------------------------------
(* What a step leaves to the other threads.                                 *)

\* The same nodes are private when the same adds are under way.
LEMMA AddersSame ==
  ASSUME AddersOK, Adding' = Adding,
         \A u \in Adding : local'[u].node = local[u].node /\ call'[u].key = call[u].key,
         UNCHANGED <<key, live>>
  PROVE  Private' = Private /\ Linked' = Linked /\ AddersOK'
<1>1. Private' = Private
  BY DEF Private, Adding
<1>2. AddersOK'
  BY DEF AddersOK, k
<1> QED BY <1>1, <1>2 DEF Linked

\* What every step keeps of the nodes that were linked.
Kept == /\ Linked \subseteq Linked' /\ marked \subseteq marked'
        /\ \A n \in Linked : key'[n] = key[n]
        /\ \A n \in marked : next'[n] = next[n]

\* A call that another step leaves alone, but for what it sees.
Watches(u) == /\ local'[u] = local[u]
              /\ call'[u].op = call[u].op /\ call'[u].key = call[u].key
              /\ call'[u].changed = call[u].changed
              /\ call[u].seen \subseteq call'[u].seen
              /\ call[u].op \in Ops => (call[u].key \in members') \in call'[u].seen

LEMMA OthersWalk ==
  ASSUME LockFreeInv, Kept, NEW u \in Threads, Watches(u)
  PROVE  CallOK(u)' /\ WalkOK(u)'
<1>1. CallOK(u) /\ WalkOK(u) /\ LinkedOK
  BY DEF LockFreeInv
<1>2. CallOK(u)'
  BY <1>1 DEF CallOK, Watches, k, At
<1>3. WalkOK(u)'
  <2> SUFFICES ASSUME local[u].pc \in {"succ", "snip", "found", "mark"} PROVE WalkOK(u)'
    BY DEF Watches, WalkOK
  <2>1. {Prev(u), Curr(u)} \subseteq Linked /\ marked \subseteq Linked
    BY <1>1 DEF WalkOK, LinkedOK
  <2>2. /\ Prev(u)' = Prev(u) /\ Curr(u)' = Curr(u) /\ Succ(u)' = Succ(u) /\ k(u)' = k(u)
        /\ \A place : At(u, place)' = At(u, place)
    BY DEF Watches, Prev, Curr, Succ, k, At
  <2>3. key'[Prev(u)] = key[Prev(u)] /\ key'[Curr(u)] = key[Curr(u)]
    BY <2>1 DEF Kept
  <2>4. At(u, "snip") => Curr(u) \in marked' /\ Succ(u) = next'[Curr(u)]
    BY <1>1 DEF WalkOK, Kept
  <2>5. call[u].seen \subseteq call'[u].seen
    BY DEF Watches
  <2> QED BY <1>1, <2>1, <2>2, <2>3, <2>4, <2>5 DEF WalkOK, Kept
<1> QED BY <1>2, <1>3

\* So does a walk of list_contains, if the step keeps what it can reach.
LEMMA OthersSeek ==
  ASSUME LockFreeInv, Kept, NEW u \in Threads, Watches(u),
         \A S \in SUBSET Linked :
            At(u, "seek") /\ FALSE \notin call'[u].seen /\ Reaches(S, k(u)) =>
               \E S2 \in SUBSET Linked' : S \subseteq S2 /\ Reaches(S2, k(u))'
  PROVE  SeekOK(u)'
<1>1. SeekOK(u)
  BY DEF LockFreeInv
<1> SUFFICES ASSUME At(u, "seek") PROVE SeekOK(u)'
  BY DEF Watches, SeekOK, At
<1>2. Curr(u)' = Curr(u) /\ k(u)' = k(u) /\ Curr(u) \in Linked'
  BY <1>1 DEF SeekOK, Watches, Curr, k, Kept
<1>3. CASE FALSE \in call'[u].seen
  BY <1>2, <1>3 DEF SeekOK
<1>4. CASE FALSE \notin call'[u].seen
  <2>1. PICK S \in SUBSET Linked : Curr(u) \in S /\ Reaches(S, k(u))
    BY <1>1, <1>4 DEF SeekOK, Watches
  <2>2. PICK S2 \in SUBSET Linked' : S \subseteq S2 /\ Reaches(S2, k(u))'
    BY <1>4, <2>1
  <2>3. Curr(u)' \in S2
    BY <1>2, <2>1, <2>2
  <2> QED BY <1>2, <2>2, <2>3 DEF SeekOK
<1> QED BY <1>3, <1>4

\* A step of thread t, from what it does to the list and to t.
LEMMA StepKeeps ==
  ASSUME LockFreeInv, NEW t \in Threads, Kept, MarkInv', LinkedOK', AddersOK',
         CallOK(t)', WalkOK(t)', SeekOK(t)',
         \A u \in Threads \ {t} :
            /\ Watches(u)
            /\ \A S \in SUBSET Linked :
                 At(u, "seek") /\ FALSE \notin call'[u].seen /\ Reaches(S, k(u)) =>
                    \E S2 \in SUBSET Linked' : S \subseteq S2 /\ Reaches(S2, k(u))'
  PROVE  LockFreeInv'
<1>1. ASSUME NEW u \in Threads PROVE CallOK(u)' /\ WalkOK(u)' /\ SeekOK(u)'
  <2>1. CASE u = t
    BY <2>1
  <2>2. CASE u # t
    BY <2>2, OthersWalk, OthersSeek
  <2> QED BY <2>1, <2>2
<1> QED BY <1>1 DEF LockFreeInv

\* A step of thread t that leaves the list and the other calls alone.
LEMMA QuietStep ==
  ASSUME LockFreeInv, HeapTypeOK', NEW t \in Threads, Quiet, AddersOK',
         \A u \in Threads \ {t} : local'[u] = local[u] /\ call'[u] = call[u],
         CallOK(t)', WalkOK(t)', SeekOK(t)'
  PROVE  LockFreeInv'
<1>1. MarkInv' /\ LinkedOK' /\ members' = members
  BY QuietList
<1>2. marked \subseteq Linked
  BY DEF LockFreeInv, LinkedOK
<1>3. Kept
  BY <1>2 DEF Kept, Quiet
<1>4. ASSUME NEW u \in Threads \ {t}
      PROVE  /\ Watches(u)
             /\ \A S \in SUBSET Linked : Reaches(S, k(u)) =>
                   \E S2 \in SUBSET Linked' : S \subseteq S2 /\ Reaches(S2, k(u))'
  <2>1. Watches(u)
    BY <1>1 DEF Watches, LockFreeInv, CallOK, k
  <2>2. ASSUME NEW S \in SUBSET Linked, Reaches(S, k(u)) PROVE Reaches(S, k(u))'
    BY <2>2 DEF Reaches, Quiet, k
  <2>3. Linked' = Linked
    BY DEF Quiet
  <2> QED BY <2>1, <2>2, <2>3
<1> QED BY <1>1, <1>3, <1>4, StepKeeps

-----------------------------------------------------------------------------
(* The steps of a walk.                                                     *)

\* A step that changes nothing but where thread t is.
Moves(t) == /\ UNCHANGED <<heap, works, call, marked>>
            /\ \A u \in Threads \ {t} : local'[u] = local[u]
            /\ local'[t].node = local[t].node

LEMMA MovesFacts ==
  ASSUME LockFreeInv, HeapTypeOK', NEW t \in Threads, Moves(t)
  PROVE  /\ Quiet /\ AddersOK' /\ Linked' = Linked /\ members' = members
         /\ k(t)' = k(t) /\ call'[t] = call[t] /\ key' = key /\ next' = next
         /\ marked' = marked
         /\ Prev(t)' = local'[t].prev /\ Curr(t)' = local'[t].curr
         /\ Succ(t)' = local'[t].it
<1>1. \A u \in Threads : local'[u].node = local[u].node
  BY DEF Moves
<1>2. AddersOK' /\ Linked' = Linked
  BY <1>1, AddersSame DEF Moves, heap, Adding, LockFreeInv
<1>3. Quiet
  BY <1>2 DEF Quiet, Moves, heap
<1>4. members' = members
  BY <1>3, QuietList
<1> QED BY <1>2, <1>3, <1>4 DEF Moves, heap, k, Prev, Curr, Succ

LEMMA MovesStep ==
  ASSUME LockFreeInv, HeapTypeOK', NEW t \in Threads, Moves(t),
         CallOK(t)', WalkOK(t)', SeekOK(t)'
  PROVE  LockFreeInv' /\ members' = members
BY MovesFacts, QuietStep DEF Moves

\* What a thread in a call knows.
LEMMA InCall ==
  ASSUME LockFreeInv, NEW t \in Threads, ~ At(t, "idle")
  PROVE  /\ call[t].op \in Ops /\ k(t) \in Keys /\ k(t) \in Nat /\ 0 < k(t)
         /\ k(t) < MaxKey + 1 /\ (k(t) \in members) \in call[t].seen
         /\ local[t].pc \in PlacesOf(call[t].op)
         /\ call[t].op = "add" => (call[t].changed <=> At(t, "linked"))
<1>1. CallOK(t) /\ HeapTypeOK
  BY DEF LockFreeInv, MarkInv
<1>2. call[t].op \in Ops \union {"none"}
  BY <1>1 DEF HeapTypeOK
<1>3. call[t].op \in Ops
  BY <1>1, <1>2 DEF CallOK, PlacesOf, At
<1>4. k(t) \in Keys
  BY <1>1, <1>3 DEF CallOK
<1> QED BY <1>1, <1>3, <1>4, Types DEF CallOK

\* What a node that was linked and is not marked tells thread t.
LEMMA Sees ==
  ASSUME LockFreeInv, NEW t \in Threads, ~ At(t, "idle"), NEW n \in Linked \ marked
  PROVE  /\ n \in Listed /\ key[n] \in Nat
         /\ key[n] = k(t) => TRUE \in call[t].seen
         /\ key[n] < k(t) => /\ n # tail /\ next[n] \in Linked
                             /\ key[next[n]] > k(t) => FALSE \in call[t].seen
<1>1. n \in Listed /\ n \in Nodes /\ Linked \subseteq Nodes
  BY ListFacts
<1>2. /\ k(t) \in Keys /\ k(t) \in Nat /\ k(t) < MaxKey + 1
      /\ (k(t) \in members) \in call[t].seen
  BY InCall
<1>3. \A m \in Nodes : key[m] \in Nat
  BY Types DEF LockFreeInv, MarkInv
<1>4. ASSUME key[n] = k(t) PROVE TRUE \in call[t].seen
  <2>1. k(t) \in members
    BY <1>2, <1>4, UnmarkedIsMember
  <2> QED BY <1>2, <2>1
<1>5. ASSUME key[n] < k(t)
      PROVE  /\ n # tail /\ next[n] \in Linked
             /\ key[next[n]] > k(t) => FALSE \in call[t].seen
  <2>1. n # tail
    BY <1>2, <1>5, MaxKeyAssumption DEF LockFreeInv, LinkedOK
  <2>2. next[n] \in Linked
    BY <2>1 DEF LockFreeInv, LinkedOK, Leads
  <2>3. ASSUME key[next[n]] > k(t) PROVE FALSE \in call[t].seen
    <3>1. key[next[n]] \in Nat
      BY <1>1, <1>3, <2>2
    <3>2. k(t) < key[next[n]]
      BY <1>2, <2>3, <3>1
    <3>3. k(t) \notin members
      BY <1>1, <1>2, <1>5, <2>1, <3>2, BetweenIsAbsent
    <3>4. (k(t) \in members) = FALSE
      BY <3>3
    <3> QED BY <1>2, <3>4
  <2> QED BY <2>1, <2>2, <2>3
<1> QED BY <1>1, <1>3, <1>4, <1>5

LEMMA FindStep ==
  ASSUME LockFreeInv, HeapTypeOK', NEW t \in Threads, Find(t)
  PROVE  LockFreeInv' /\ members' = members
<1>1. /\ local[t] \in LocalType /\ HeapTypeOK /\ At(t, "start") /\ ~ At(t, "idle")
      /\ call[t].op # "contains" /\ UNCHANGED <<heap, works, call, marked>>
      /\ local' = [local EXCEPT ![t].pc = "succ", ![t].prev = head, ![t].curr = next[head]]
  BY Pointers DEF Find, LockFreeInv, MarkInv, At
<1>2. /\ local'[t].pc = "succ" /\ local'[t].prev = head /\ local'[t].curr = next[head]
      /\ local'[t].node = local[t].node /\ \A u \in Threads \ {t} : local'[u] = local[u]
  BY <1>1 DEF HeapTypeOK, LocalType
<1>3. Moves(t)
  BY <1>1, <1>2 DEF Moves
<1>4. /\ Linked' = Linked /\ members' = members /\ k(t)' = k(t) /\ call'[t] = call[t]
      /\ key' = key /\ Prev(t)' = head /\ Curr(t)' = next[head]
  BY <1>2, <1>3, MovesFacts
<1>5. /\ call[t].op \in {"add", "remove"} /\ k(t) \in Keys /\ 0 < k(t)
      /\ (k(t) \in members) \in call[t].seen
      /\ call[t].op = "add" => ~ call[t].changed
  BY <1>1, InCall DEF Ops, At
<1>6. head \in Linked \ marked /\ key[head] < k(t)
  BY <1>5, ListFacts DEF LockFreeInv, MarkInv, LinkedOK
<1>7. next[head] \in Linked /\ (key[next[head]] > k(t) => FALSE \in call[t].seen)
  BY <1>1, <1>6, Sees
<1>8. CallOK(t)'
  BY <1>2, <1>4, <1>5 DEF CallOK, PlacesOf, At
<1>9. WalkOK(t)'
  BY <1>2, <1>4, <1>6, <1>7 DEF WalkOK, At
<1>10. SeekOK(t)'
  BY <1>2 DEF SeekOK, At
<1> QED BY <1>3, <1>8, <1>9, <1>10, MovesStep

LEMMA MeetMarkedStep ==
  ASSUME LockFreeInv, HeapTypeOK', NEW t \in Threads, MeetMarked(t)
  PROVE  LockFreeInv' /\ members' = members
<1>1. /\ local[t] \in LocalType /\ HeapTypeOK /\ At(t, "succ") /\ ~ At(t, "idle")
      /\ Curr(t) \in marked /\ UNCHANGED <<heap, works, call, marked>>
      /\ local' = [local EXCEPT ![t].pc = "snip", ![t].it = next[Curr(t)]]
  BY Pointers DEF MeetMarked, LockFreeInv, MarkInv, At
<1>2. /\ local'[t].pc = "snip" /\ local'[t].it = next[Curr(t)]
      /\ local'[t].prev = Prev(t) /\ local'[t].curr = Curr(t)
      /\ local'[t].node = local[t].node /\ \A u \in Threads \ {t} : local'[u] = local[u]
  BY <1>1 DEF HeapTypeOK, LocalType, Prev, Curr
<1>3. Moves(t)
  BY <1>1, <1>2 DEF Moves
<1>4. /\ Linked' = Linked /\ members' = members /\ k(t)' = k(t) /\ call'[t] = call[t]
      /\ key' = key /\ next' = next /\ marked' = marked
      /\ Prev(t)' = Prev(t) /\ Curr(t)' = Curr(t) /\ Succ(t)' = next[Curr(t)]
  BY <1>2, <1>3, MovesFacts
<1>5. CallOK(t) /\ WalkOK(t)
  BY DEF LockFreeInv
<1>6. CallOK(t)'
  BY <1>1, <1>2, <1>4, <1>5, InCall DEF CallOK, PlacesOf, At, Ops
<1>7. WalkOK(t)'
  BY <1>1, <1>2, <1>4, <1>5 DEF WalkOK, At
<1>8. SeekOK(t)'
  BY <1>2 DEF SeekOK, At
<1> QED BY <1>3, <1>6, <1>7, <1>8, MovesStep

LEMMA MeetSmallerStep ==
  ASSUME LockFreeInv, HeapTypeOK', NEW t \in Threads, MeetSmaller(t)
  PROVE  LockFreeInv' /\ members' = members
<1>1. /\ local[t] \in LocalType /\ HeapTypeOK /\ At(t, "succ") /\ ~ At(t, "idle")
      /\ Curr(t) \notin marked /\ key[Curr(t)] < k(t)
      /\ UNCHANGED <<heap, works, call, marked>>
      /\ local' = [local EXCEPT ![t].prev = Curr(t), ![t].curr = next[Curr(t)], ![t].it = Null]
  BY Pointers DEF MeetSmaller, LockFreeInv, MarkInv, At
<1>2. /\ local'[t].pc = "succ" /\ local'[t].prev = Curr(t)
      /\ local'[t].curr = next[Curr(t)]
      /\ local'[t].node = local[t].node /\ \A u \in Threads \ {t} : local'[u] = local[u]
  BY <1>1 DEF HeapTypeOK, LocalType, At
<1>3. Moves(t)
  BY <1>1, <1>2 DEF Moves
<1>4. /\ Linked' = Linked /\ members' = members /\ k(t)' = k(t) /\ call'[t] = call[t]
      /\ key' = key /\ Prev(t)' = Curr(t) /\ Curr(t)' = next[Curr(t)]
  BY <1>2, <1>3, MovesFacts
<1>5. CallOK(t) /\ WalkOK(t)
  BY DEF LockFreeInv
<1>6. Curr(t) \in Linked \ marked
  BY <1>1, <1>5 DEF WalkOK, At
<1>7. next[Curr(t)] \in Linked /\ (key[next[Curr(t)]] > k(t) => FALSE \in call[t].seen)
  BY <1>1, <1>6, Sees
<1>8. CallOK(t)'
  BY <1>1, <1>2, <1>4, <1>5 DEF CallOK, At
<1>9. WalkOK(t)'
  BY <1>1, <1>2, <1>4, <1>6, <1>7 DEF WalkOK, At
<1>10. SeekOK(t)'
  BY <1>2 DEF SeekOK, At
<1> QED BY <1>3, <1>8, <1>9, <1>10, MovesStep

LEMMA FoundStep ==
  ASSUME LockFreeInv, HeapTypeOK', NEW t \in Threads, Found(t)
  PROVE  LockFreeInv' /\ members' = members
<1>1. /\ local[t] \in LocalType /\ HeapTypeOK /\ At(t, "succ") /\ ~ At(t, "idle")
      /\ Curr(t) \notin marked /\ key[Curr(t)] >= k(t)
      /\ UNCHANGED <<heap, works, call, marked>>
      /\ local' = [local EXCEPT ![t].pc = "found"]
  BY Pointers DEF Found, Goto, LockFreeInv, MarkInv, At
<1>2. /\ local'[t].pc = "found" /\ local'[t].prev = Prev(t) /\ local'[t].curr = Curr(t)
      /\ local'[t].node = local[t].node /\ \A u \in Threads \ {t} : local'[u] = local[u]
  BY <1>1 DEF HeapTypeOK, LocalType, Prev, Curr
<1>3. Moves(t)
  BY <1>1, <1>2 DEF Moves
<1>4. /\ Linked' = Linked /\ members' = members /\ k(t)' = k(t) /\ call'[t] = call[t]
      /\ key' = key /\ Prev(t)' = Prev(t) /\ Curr(t)' = Curr(t)
  BY <1>2, <1>3, MovesFacts
<1>5. CallOK(t) /\ WalkOK(t)
  BY DEF LockFreeInv
<1>6. key[Curr(t)] = k(t) => TRUE \in call[t].seen
  BY <1>1, <1>5, Sees DEF WalkOK, At
<1>7. CallOK(t)'
  BY <1>1, <1>2, <1>4, <1>5, InCall DEF CallOK, PlacesOf, At, Ops
<1>8. WalkOK(t)'
  BY <1>1, <1>2, <1>4, <1>5, <1>6 DEF WalkOK, At
<1>9. SeekOK(t)'
  BY <1>2 DEF SeekOK, At
<1> QED BY <1>3, <1>7, <1>8, <1>9, MovesStep

\* The CAS failed: the search begins again.
LEMMA RetryStep ==
  ASSUME LockFreeInv, HeapTypeOK', NEW t \in Threads, SnipFails(t) \/ MarkFails(t)
  PROVE  LockFreeInv' /\ members' = members
<1>1. /\ local[t] \in LocalType /\ HeapTypeOK /\ local[t].pc \in {"snip", "mark"}
      /\ ~ At(t, "idle") /\ UNCHANGED <<heap, works, call, marked>>
      /\ local' = [local EXCEPT ![t].pc = "start"]
  BY Pointers DEF SnipFails, MarkFails, Goto, LockFreeInv, MarkInv, At
<1>2. /\ local'[t].pc = "start" /\ local'[t].node = local[t].node
      /\ \A u \in Threads \ {t} : local'[u] = local[u]
  BY <1>1 DEF HeapTypeOK, LocalType
<1>3. Moves(t)
  BY <1>1, <1>2 DEF Moves
<1>4. members' = members /\ k(t)' = k(t) /\ call'[t] = call[t]
  BY <1>3, MovesFacts
<1>5. CallOK(t)
  BY DEF LockFreeInv
<1>6. CallOK(t)'
  BY <1>1, <1>2, <1>4, <1>5, InCall DEF CallOK, PlacesOf, At, Ops
<1>7. WalkOK(t)' /\ SeekOK(t)'
  BY <1>2 DEF WalkOK, SeekOK, At
<1> QED BY <1>3, <1>6, <1>7, MovesStep

LEMMA LoadVictimStep ==
  ASSUME LockFreeInv, HeapTypeOK', NEW t \in Threads, LoadVictim(t)
  PROVE  LockFreeInv' /\ members' = members
<1>1. /\ local[t] \in LocalType /\ HeapTypeOK /\ At(t, "found") /\ ~ At(t, "idle")
      /\ call[t].op = "remove" /\ key[Curr(t)] = k(t)
      /\ UNCHANGED <<heap, works, call, marked>>
      /\ local' = [local EXCEPT ![t].pc = "mark", ![t].it = next[Curr(t)]]
  BY Pointers DEF LoadVictim, LockFreeInv, MarkInv, At
<1>2. /\ local'[t].pc = "mark" /\ local'[t].prev = Prev(t) /\ local'[t].curr = Curr(t)
      /\ local'[t].node = local[t].node /\ \A u \in Threads \ {t} : local'[u] = local[u]
  BY <1>1 DEF HeapTypeOK, LocalType, Prev, Curr
<1>3. Moves(t)
  BY <1>1, <1>2 DEF Moves
<1>4. /\ Linked' = Linked /\ members' = members /\ k(t)' = k(t) /\ call'[t] = call[t]
      /\ key' = key /\ Prev(t)' = Prev(t) /\ Curr(t)' = Curr(t)
  BY <1>2, <1>3, MovesFacts
<1>5. CallOK(t) /\ WalkOK(t)
  BY DEF LockFreeInv
<1>6. CallOK(t)'
  BY <1>1, <1>2, <1>4, <1>5 DEF CallOK, PlacesOf, At
<1>7. WalkOK(t)'
  BY <1>1, <1>2, <1>4, <1>5 DEF WalkOK, At
<1>8. SeekOK(t)'
  BY <1>2 DEF SeekOK, At
<1> QED BY <1>3, <1>6, <1>7, <1>8, MovesStep

\* When list_contains begins, the nodes up to its key reach the key, if it is in.
LEMMA ListedReaches ==
  ASSUME LockFreeInv, NEW x \in members, x \in Nat
  PROVE  Reaches({n \in Listed : key[n] <= x}, x)
<1>1. PICK m \in Listed \ (marked \union {head, tail}) : key[m] = x
  BY DEF members
<1>2. /\ Listed \subseteq Nodes /\ \A n \in Listed \ {tail} : next[n] \in Listed
      /\ \A n \in Listed : key[n] = x => n = m
      /\ \A n \in Listed : n # tail /\ key[n] < x => key[next[n]] <= x
  BY <1>1, ListFacts DEF Leads
<1>3. ASSUME NEW n \in Listed, key[n] < x PROVE n # tail
  <2>1. m \in Listed /\ m # tail /\ key[m] = x /\ \A i \in Nodes : key[i] \in 0 .. MaxKey + 1
    BY <1>1 DEF LockFreeInv, MarkInv, HeapTypeOK
  <2>2. key[m] \in 0 .. MaxKey + 1
    BY <1>2, <2>1
  <2>3. x <= MaxKey + 1
    BY <2>1, <2>2
  <2>4. key[tail] = MaxKey + 1
    BY DEF LockFreeInv, LinkedOK
  <2> QED BY <1>3, <2>3, <2>4, MaxKeyAssumption
<1> QED BY <1>1, <1>2, <1>3 DEF Reaches

LEMMA StartSeekStep ==
  ASSUME LockFreeInv, HeapTypeOK', NEW t \in Threads, StartSeek(t)
  PROVE  LockFreeInv' /\ members' = members
<1>1. /\ local[t] \in LocalType /\ HeapTypeOK /\ At(t, "start") /\ ~ At(t, "idle")
      /\ call[t].op = "contains" /\ UNCHANGED <<heap, works, call, marked>>
      /\ local' = [local EXCEPT ![t].pc = "seek", ![t].curr = head]
  BY Pointers DEF StartSeek, LockFreeInv, MarkInv, At
<1>2. /\ local'[t].pc = "seek" /\ local'[t].curr = head
      /\ local'[t].node = local[t].node /\ \A u \in Threads \ {t} : local'[u] = local[u]
  BY <1>1 DEF HeapTypeOK, LocalType
<1>3. Moves(t)
  BY <1>1, <1>2 DEF Moves
<1>4. /\ Linked' = Linked /\ members' = members /\ k(t)' = k(t) /\ call'[t] = call[t]
      /\ key' = key /\ next' = next /\ marked' = marked /\ Curr(t)' = head
  BY <1>2, <1>3, MovesFacts
<1>5. k(t) \in Keys /\ k(t) \in Nat /\ 0 < k(t) /\ (k(t) \in members) \in call[t].seen
  BY <1>1, InCall
<1>6. CallOK(t)'
  BY <1>1, <1>2, <1>4, <1>5 DEF CallOK, PlacesOf, At
<1>7. WalkOK(t)'
  BY <1>2 DEF WalkOK
<1>8. head \in Listed /\ Listed \subseteq Linked /\ key[head] = 0
  BY ListFacts DEF LockFreeInv, LinkedOK
<1>9. SeekOK(t)'
  <2>1. CASE k(t) \in members
    <3> DEFINE S == {n \in Listed : key[n] <= k(t)}
    <3>1. Reaches(S, k(t)) /\ head \in S /\ S \in SUBSET Linked
      BY <1>5, <1>8, <2>1, ListedReaches
    <3>2. PICK S2 : S2 = S
      OBVIOUS
    <3>3. Reaches(S2, k(t))' /\ head \in S2 /\ S2 \in SUBSET Linked'
      BY <1>4, <3>1, <3>2 DEF Reaches
    <3> QED BY <1>4, <1>8, <3>3 DEF SeekOK
  <2>2. CASE k(t) \notin members
    <3>1. (k(t) \in members) = FALSE
      BY <2>2
    <3> QED BY <1>4, <1>5, <1>8, <3>1 DEF SeekOK
  <2> QED BY <2>1, <2>2
<1> QED BY <1>3, <1>6, <1>7, <1>9, MovesStep

LEMMA SeekStep ==
  ASSUME LockFreeInv, HeapTypeOK', NEW t \in Threads, Seek(t)
  PROVE  LockFreeInv' /\ members' = members
<1>1. /\ local[t] \in LocalType /\ HeapTypeOK /\ At(t, "seek") /\ ~ At(t, "idle")
      /\ key[Curr(t)] < k(t) /\ UNCHANGED <<heap, works, call, marked>>
      /\ local' = [local EXCEPT ![t].curr = next[Curr(t)]]
  BY Pointers DEF Seek, LockFreeInv, MarkInv, At
<1>2. /\ local'[t].pc = "seek" /\ local'[t].curr = next[Curr(t)]
      /\ local'[t].node = local[t].node /\ \A u \in Threads \ {t} : local'[u] = local[u]
  BY <1>1 DEF HeapTypeOK, LocalType, At
<1>3. Moves(t)
  BY <1>1, <1>2 DEF Moves
<1>4. /\ Linked' = Linked /\ members' = members /\ k(t)' = k(t) /\ call'[t] = call[t]
      /\ key' = key /\ next' = next /\ marked' = marked /\ Curr(t)' = next[Curr(t)]
  BY <1>2, <1>3, MovesFacts
<1>5. CallOK(t) /\ SeekOK(t) /\ LinkedOK
  BY DEF LockFreeInv
<1>6. CallOK(t)'
  BY <1>1, <1>2, <1>4, <1>5 DEF CallOK, At
<1>7. WalkOK(t)'
  BY <1>2 DEF WalkOK
<1>8. Curr(t) # tail
  <2>1. k(t) \in Nat /\ k(t) < MaxKey + 1
    BY <1>1, InCall
  <2> QED BY <1>1, <1>5, <2>1, MaxKeyAssumption DEF LinkedOK
<1>9. next[Curr(t)] \in Linked
  BY <1>1, <1>5, <1>8 DEF SeekOK, LinkedOK, Leads
<1>10. SeekOK(t)'
  <2>1. CASE FALSE \in call[t].seen
    BY <1>4, <1>9, <2>1 DEF SeekOK
  <2>2. CASE FALSE \notin call[t].seen
    <3>1. PICK S \in SUBSET Linked : Curr(t) \in S /\ Reaches(S, k(t))
      BY <1>1, <1>5, <2>2 DEF SeekOK
    <3>2. next[Curr(t)] \in S
      BY <1>1, <3>1 DEF Reaches
    <3>3. Reaches(S, k(t))'
      BY <1>4, <3>1 DEF Reaches
    <3> QED BY <1>4, <1>9, <3>2, <3>3 DEF SeekOK
  <2> QED BY <2>1, <2>2
<1> QED BY <1>3, <1>6, <1>7, <1>10, MovesStep

-----------------------------------------------------------------------------
(* The steps that begin and end calls.                                      *)

\* What returning does: the call may not have been an add that failed.
LEMMA ReturnStep ==
  ASSUME LockFreeInv, HeapTypeOK', NEW t \in Threads, NEW answer, Return(t, answer),
         t \notin Adding, UNCHANGED <<heap, works, marked>>
  PROVE  LockFreeInv' /\ members' = members
<1>1. /\ local'[t] = Idle /\ call'[t] = Returned(answer)
      /\ \A u \in Threads \ {t} : local'[u] = local[u] /\ call'[u] = call[u]
  BY DEF Return, LockFreeInv, MarkInv, HeapTypeOK
<1>2. Adding' = Adding
  BY <1>1 DEF Adding, Returned
<1>3. \A u \in Adding : local'[u].node = local[u].node /\ call'[u].key = call[u].key
  BY <1>1 DEF Adding
<1>4. Linked' = Linked /\ AddersOK'
  BY <1>2, <1>3, AddersSame DEF heap, LockFreeInv
<1>5. Quiet
  BY <1>4 DEF Quiet, heap
<1>6. CallOK(t)' /\ WalkOK(t)' /\ SeekOK(t)'
  BY <1>1 DEF CallOK, WalkOK, SeekOK, PlacesOf, Idle, Returned, At, Ops
<1>7. members' = members
  BY <1>5, QuietList
<1> QED BY <1>1, <1>4, <1>5, <1>6, <1>7, QuietStep

LEMMA AddReturnsStep ==
  ASSUME LockFreeInv, HeapTypeOK', NEW t \in Threads, AddReturns(t)
  PROVE  /\ LockFreeInv' /\ members' = members
         /\ MayAnswer(call[t], TRUE, TRUE) /\ call[t].op \in Ops
<1>1. At(t, "linked") /\ Return(t, TRUE) /\ UNCHANGED <<heap, works, marked>>
  BY DEF AddReturns
<1>2. /\ call[t].op \in Ops /\ local[t].pc \in PlacesOf(call[t].op)
      /\ call[t].op = "add" => call[t].changed
  BY <1>1, InCall DEF At
<1>3. call[t].op = "add" /\ call[t].changed
  BY <1>1, <1>2 DEF PlacesOf, At, Ops
<1>4. t \notin Adding
  BY <1>3 DEF Adding
<1>5. call[t].changed = TRUE
  <2>1. call[t].changed \in BOOLEAN
    BY Pointers DEF CallType
  <2> QED BY <1>3, <2>1
<1>6. MayAnswer(call[t], TRUE, TRUE)
  BY <1>3, <1>5 DEF MayAnswer
<1> QED BY <1>1, <1>2, <1>4, <1>6, ReturnStep

LEMMA RemoveAbsentStep ==
  ASSUME LockFreeInv, HeapTypeOK', NEW t \in Threads, RemoveAbsent(t)
  PROVE  /\ LockFreeInv' /\ members' = members
         /\ MayAnswer(call[t], FALSE, TRUE) /\ call[t].op \in Ops
<1>1. /\ At(t, "found") /\ call[t].op = "remove" /\ key[Curr(t)] # k(t)
      /\ Return(t, FALSE) /\ UNCHANGED <<heap, works, marked>>
  BY DEF RemoveAbsent
<1>2. WalkOK(t) /\ k(t) \in Nat /\ Curr(t) \in Nodes
  BY <1>1, InCall, Pointers DEF LockFreeInv, At
<1>3. key[Curr(t)] \in Nat
  BY <1>2, Types DEF LockFreeInv, MarkInv
<1>4. key[Curr(t)] > k(t)
  BY <1>1, <1>2, <1>3 DEF WalkOK, At
<1>5. FALSE \in call[t].seen
  BY <1>1, <1>2, <1>4 DEF WalkOK, At
<1>6. MayAnswer(call[t], FALSE, TRUE)
  BY <1>1, <1>5 DEF MayAnswer
<1>7. t \notin Adding /\ call[t].op \in Ops
  BY <1>1 DEF Adding, Ops
<1> QED BY <1>1, <1>6, <1>7, ReturnStep

LEMMA ContainsStep ==
  ASSUME LockFreeInv, HeapTypeOK', NEW t \in Threads, Contains(t)
  PROVE  /\ LockFreeInv' /\ members' = members /\ call[t].op \in Ops
         /\ \E answer \in BOOLEAN : MayAnswer(call[t], answer, TRUE) /\ Return(t, answer)
<1>1. /\ At(t, "seek") /\ ~ At(t, "idle") /\ key[Curr(t)] >= k(t)
      /\ Return(t, key[Curr(t)] = k(t) /\ Curr(t) \notin marked)
      /\ UNCHANGED <<heap, works, marked>>
  BY DEF Contains, At
<1>2. PICK answer : answer = (key[Curr(t)] = k(t) /\ Curr(t) \notin marked)
  OBVIOUS
<1>3. answer \in BOOLEAN
  BY <1>2
<1>4. Return(t, answer)
  BY <1>1, <1>2
<1>5. call[t].op = "contains"
  BY <1>1, InCall DEF PlacesOf, At, Ops
<1>6. SeekOK(t) /\ k(t) \in Nat
  BY <1>1, InCall DEF LockFreeInv
<1>7. answer \in call[t].seen
  <2>1. CASE answer = TRUE
    <3>1. Curr(t) \in Linked \ marked /\ key[Curr(t)] = k(t)
      BY <1>1, <1>2, <1>6, <2>1 DEF SeekOK
    <3>2. TRUE \in call[t].seen
      BY <1>1, <3>1, Sees
    <3> QED BY <2>1, <3>2
  <2>2. CASE answer = FALSE
    <3>1. ASSUME FALSE \notin call[t].seen PROVE FALSE
      <4>1. PICK S \in SUBSET Linked : Curr(t) \in S /\ Reaches(S, k(t))
        BY <1>1, <1>6, <3>1 DEF SeekOK
      <4>2. key[Curr(t)] <= k(t) /\ key[Curr(t)] \in Nat
        <5>1. Curr(t) \in Nodes
          BY <4>1, ListFacts
        <5> QED BY <4>1, <5>1, Types DEF Reaches, LockFreeInv, MarkInv
      <4>3. key[Curr(t)] = k(t)
        BY <1>1, <1>6, <4>2
      <4>4. Curr(t) \notin marked
        BY <4>1, <4>3 DEF Reaches
      <4> QED BY <1>2, <2>2, <4>3, <4>4
    <3> QED BY <2>2, <3>1
  <2> QED BY <1>3, <2>1, <2>2
<1>8. MayAnswer(call[t], answer, TRUE)
  BY <1>5, <1>7 DEF MayAnswer
<1>9. t \notin Adding /\ call[t].op \in Ops
  BY <1>5 DEF Adding, Ops
<1> QED BY <1>1, <1>3, <1>4, <1>8, <1>9, ReturnStep

\* An add that finds its key frees its node.
LEMMA AddPresentStep ==
  ASSUME LockFreeInv, HeapTypeOK', NEW t \in Threads, AddPresent(t)
  PROVE  /\ LockFreeInv' /\ members' = members
         /\ MayAnswer(call[t], FALSE, TRUE) /\ call[t].op \in Ops
<1>1. /\ At(t, "found") /\ ~ At(t, "idle") /\ call[t].op = "add" /\ key[Curr(t)] = k(t)
      /\ live' = live \ {local[t].node} /\ Return(t, FALSE)
      /\ UNCHANGED <<key, next, works, marked>>
  BY DEF AddPresent, At
<1>2. /\ local'[t] = Idle /\ call'[t] = Returned(FALSE)
      /\ \A u \in Threads \ {t} : local'[u] = local[u] /\ call'[u] = call[u]
  BY <1>1 DEF Return, LockFreeInv, MarkInv, HeapTypeOK
<1>3. ~ call[t].changed /\ call[t].op \in Ops
  BY <1>1, InCall DEF At
<1>4. t \in Adding /\ Adding' = Adding \ {t}
  BY <1>1, <1>2, <1>3 DEF Adding, Returned
<1>5. /\ AddersOK /\ \A u \in Adding \ {t} : local[u].node # local[t].node
      /\ \A u \in Adding \ {t} : local'[u] = local[u] /\ call'[u] = call[u]
  BY <1>2, <1>4 DEF LockFreeInv, AddersOK, Adding
<1>6. Private' = Private \ {local[t].node}
  BY <1>4, <1>5 DEF Private
<1>7. Linked' = Linked
  BY <1>1, <1>4, <1>6 DEF Linked, Private
<1>8. AddersOK'
  BY <1>1, <1>4, <1>5 DEF AddersOK, k
<1>9. Quiet
  BY <1>1, <1>7 DEF Quiet
<1>10. CallOK(t)' /\ WalkOK(t)' /\ SeekOK(t)'
  BY <1>2 DEF CallOK, WalkOK, SeekOK, PlacesOf, Idle, Returned, At, Ops
<1>11. LockFreeInv'
  BY <1>2, <1>8, <1>9, <1>10, QuietStep
<1>12. MayAnswer(call[t], FALSE, TRUE)
  <2>1. TRUE \in call[t].seen
    BY <1>1 DEF LockFreeInv, WalkOK, At
  <2>2. call[t].changed = FALSE
    <3>1. call[t].changed \in BOOLEAN
      BY Pointers DEF CallType
    <3> QED BY <1>3, <3>1
  <2> QED BY <1>1, <2>1, <2>2 DEF MayAnswer
<1> QED BY <1>3, <1>9, <1>11, <1>12, QuietList

\* A call begins; an add gets a node that no other thread has.
LEMMA BeginStep ==
  ASSUME LockFreeInv, HeapTypeOK', NEW t \in Threads, Begin(t, members), UNCHANGED marked
  PROVE  LockFreeInv' /\ members' = members
<1>1. PICK op \in Ops, x \in Keys :
        /\ call' = [call EXCEPT ![t] = Began(op, x, x \in members)]
        /\ IF op = "add" THEN Malloc(t, x)
           ELSE Goto(t, "start") /\ UNCHANGED <<key, live>>
  BY DEF Begin
<1>2. /\ HeapTypeOK /\ local[t] \in LocalType /\ At(t, "idle") /\ UNCHANGED next
      /\ CallOK(t) /\ call[t].op \in Ops \union {"none"}
  BY Pointers DEF Begin, LockFreeInv, MarkInv, CallType
<1>3. call[t].op = "none" /\ t \notin Adding
  BY <1>2 DEF CallOK, PlacesOf, At, Ops, Adding
<1>4. /\ call'[t].op = op /\ call'[t].key = x /\ (x \in members) \in call'[t].seen
      /\ ~ call'[t].changed /\ \A u \in Threads \ {t} : call'[u] = call[u]
  <2>1. PICK b : b = (x \in members)
    OBVIOUS
  <2>2. call' = [call EXCEPT ![t] = Began(op, x, b)]
    BY <1>1, <2>1
  <2>3. call'[t] = Began(op, x, b) /\ \A u \in Threads \ {t} : call'[u] = call[u]
    BY <1>2, <2>2 DEF HeapTypeOK
  <2>4. b \in call'[t].seen
    BY <2>3 DEF Began
  <2> QED BY <2>1, <2>3, <2>4 DEF Began
<1>5. /\ local'[t].pc = "start" /\ \A u \in Threads \ {t} : local'[u] = local[u]
  BY <1>1, <1>2 DEF Malloc, Goto, HeapTypeOK, LocalType
<1>6. Linked' = Linked /\ AddersOK' /\ \A n \in Linked : key'[n] = key[n]
  <2>1. CASE op = "add"
    <3>1. PICK n \in Heap \ live :
            /\ live' = live \union {n} /\ key' = [key EXCEPT ![n] = x]
            /\ local' = [local EXCEPT ![t].pc = "start", ![t].node = n]
      BY <1>1, <2>1 DEF Malloc
    <3>2. local'[t].node = n
      BY <1>2, <3>1 DEF HeapTypeOK, LocalType
    <3>3. Adding' = Adding \union {t}
      BY <1>4, <2>1 DEF Adding
    <3>4. \A u \in Adding : local'[u] = local[u] /\ call'[u] = call[u]
      BY <1>3, <1>4, <1>5 DEF Adding
    <3>5. Private' = Private \union {n}
      BY <3>2, <3>3, <3>4 DEF Private
    <3>6. Linked' = Linked /\ n \notin Linked
      BY <3>1, <3>5 DEF Linked
    <3>7. n \in Nodes /\ key'[n] = x /\ \A m \in Nodes \ {n} : key'[m] = key[m]
      BY <1>2, <3>1, Sentinels DEF HeapTypeOK
    <3>8. \A m \in Linked : key'[m] = key[m]
      BY <3>6, <3>7, ListFacts
    <3>9. AddersOK'
      <4>1. \A u \in Adding : /\ local[u].node \in Heap \intersect live
                              /\ key[local[u].node] = call[u].key
                              /\ \A v \in Adding : local[v].node = local[u].node => v = u
        BY DEF LockFreeInv, AddersOK, k
      <4>2. \A u \in Adding : local[u].node # n /\ local[u].node \in Nodes
        BY <3>1, <4>1, Sentinels
      <4>3. n \in Heap \intersect live' /\ live \subseteq live'
        BY <3>1
      <4> QED BY <1>4, <3>2, <3>3, <3>4, <3>7, <4>1, <4>2, <4>3 DEF AddersOK, k
    <3> QED BY <3>6, <3>8, <3>9
  <2>2. CASE op # "add"
    <3>1. local' = [local EXCEPT ![t].pc = "start"] /\ UNCHANGED <<key, live>>
      BY <1>1, <2>2 DEF Goto
    <3>2. Adding' = Adding
      BY <1>3, <1>4, <2>2 DEF Adding
    <3>3. \A u \in Adding : local'[u].node = local[u].node /\ call'[u].key = call[u].key
      BY <1>3, <1>4, <1>5 DEF Adding
    <3> QED BY <3>1, <3>2, <3>3, AddersSame DEF LockFreeInv
  <2> QED BY <2>1, <2>2
<1>7. Quiet
  BY <1>2, <1>6 DEF Quiet
<1>8. members' = members
  BY <1>7, QuietList
<1>9. CallOK(t)' /\ WalkOK(t)' /\ SeekOK(t)'
  <2>1. op \in {"add", "remove", "contains"}
    BY DEF Ops
  <2>2. CallOK(t)'
    <3>1. local'[t].pc \in PlacesOf(call'[t].op)
      BY <1>4, <1>5, <2>1 DEF PlacesOf
    <3>2. call'[t].key \in Keys /\ (call'[t].key \in members') \in call'[t].seen
      BY <1>4, <1>8
    <3>3. ~ call'[t].changed /\ local'[t].pc # "linked"
      BY <1>4, <1>5
    <3> QED BY <3>1, <3>2, <3>3 DEF CallOK, At, k
  <2> QED BY <1>5, <2>2 DEF WalkOK, SeekOK, At
<1> QED BY <1>4, <1>5, <1>6, <1>7, <1>8, <1>9, QuietStep

-----------------------------------------------------------------------------
(* The CASes.                                                               *)

\* What an add knows that is about to link its node.
LEMMA AboutToLink ==
  ASSUME LockFreeInv, NEW t \in Threads, At(t, "found"), call[t].op = "add"
  PROVE  /\ t \in Adding /\ local[t].node \in Heap \intersect live
         /\ local[t].node \in Nodes \ Linked /\ key[local[t].node] = k(t)
         /\ \A u \in Adding \ {t} : local[u].node # local[t].node
         /\ {Prev(t), Curr(t)} \subseteq Linked /\ key[Prev(t)] < k(t)
         /\ k(t) \in Keys /\ k(t) \in Nat /\ key[Curr(t)] >= k(t) /\ key[Curr(t)] \in Nat
<1>1. ~ call[t].changed /\ k(t) \in Keys /\ k(t) \in Nat
  BY InCall DEF At
<1>2. t \in Adding
  BY <1>1 DEF Adding
<1>3. AddersOK /\ WalkOK(t) /\ Linked \subseteq Nodes
  BY ListFacts DEF LockFreeInv
<1>4. key[Curr(t)] \in Nat
  <2>1. Curr(t) \in Nodes
    BY <1>3 DEF WalkOK, At
  <2> QED BY <2>1, Types DEF LockFreeInv, MarkInv
<1> QED BY <1>1, <1>2, <1>3, <1>4, Sentinels DEF AddersOK, WalkOK, At, Linked, Private

LEMMA LinkFailsStep ==
  ASSUME LockFreeInv, HeapTypeOK', NEW t \in Threads, LinkFails(t)
  PROVE  LockFreeInv' /\ members' = members
<1>1. /\ HeapTypeOK /\ local[t] \in LocalType /\ At(t, "found") /\ ~ At(t, "idle")
      /\ call[t].op = "add" /\ next' = [next EXCEPT ![local[t].node] = Curr(t)]
      /\ local' = [local EXCEPT ![t].pc = "start"]
      /\ UNCHANGED <<key, live, works, call, marked>>
  BY Pointers DEF LinkFails, Goto, LockFreeInv, MarkInv, At
<1>2. /\ local'[t].pc = "start" /\ local'[t].node = local[t].node
      /\ \A u \in Threads \ {t} : local'[u] = local[u]
  BY <1>1 DEF HeapTypeOK, LocalType
<1>3. \A u \in Threads : local'[u].node = local[u].node
  BY <1>2
<1>4. Linked' = Linked /\ AddersOK'
  BY <1>1, <1>3, AddersSame DEF Adding, LockFreeInv
<1>5. \A n \in Linked : next'[n] = next[n]
  <2>1. local[t].node \notin Linked /\ Linked \subseteq Nodes
    BY <1>1, AboutToLink, ListFacts
  <2> QED BY <1>1, <2>1 DEF HeapTypeOK
<1>6. Quiet
  BY <1>1, <1>4, <1>5 DEF Quiet
<1>7. members' = members
  BY <1>6, QuietList
<1>8. CallOK(t)'
  <2>1. CallOK(t) /\ ~ call[t].changed
    BY <1>1, InCall DEF LockFreeInv, At
  <2> QED BY <1>1, <1>2, <1>7, <2>1 DEF CallOK, PlacesOf, At, k
<1>9. WalkOK(t)' /\ SeekOK(t)'
  BY <1>2 DEF WalkOK, SeekOK, At
<1> QED BY <1>1, <1>2, <1>4, <1>6, <1>7, <1>8, <1>9, QuietStep

\* An add takes effect.
LEMMA LinkStep ==
  ASSUME LockFreeInv, HeapTypeOK', NEW t \in Threads, Link(t)
  PROVE  /\ LockFreeInv' /\ call[t].op = "add" /\ ~ call[t].changed
         /\ k(t) \notin members /\ members' = members \union {k(t)}
<1> DEFINE p == Prev(t)
<1> DEFINE c == Curr(t)
<1> DEFINE n == local[t].node
<1>1. /\ HeapTypeOK /\ local[t] \in LocalType /\ At(t, "found") /\ ~ At(t, "idle")
      /\ call[t].op = "add" /\ key[c] # k(t) /\ next[p] = c /\ p \notin marked
      /\ next' = [next EXCEPT ![p] = n, ![n] = c]
      /\ call' = Noticed(call, t, k(t), TRUE)
      /\ local' = [local EXCEPT ![t].pc = "linked"]
      /\ UNCHANGED <<key, live, works, marked>>
  BY Pointers DEF Link, Goto, Unchanged, LockFreeInv, MarkInv, At
<1>2. /\ t \in Adding /\ n \in live /\ n \in Nodes \ Linked /\ key[n] = k(t)
      /\ \A u \in Adding \ {t} : local[u].node # n
      /\ p \in Linked \ marked /\ c \in Linked /\ key[p] < k(t)
      /\ k(t) \in Keys /\ k(t) \in Nat /\ key[c] >= k(t) /\ key[c] \in Nat
  BY <1>1, AboutToLink
<1>3. k(t) < key[c] /\ p # tail /\ ~ call[t].changed
  <2>1. k(t) < MaxKey + 1 /\ ~ call[t].changed
    BY <1>1, InCall DEF At
  <2>2. p # tail
    BY <1>2, <2>1, MaxKeyAssumption DEF LockFreeInv, LinkedOK
  <2> QED BY <1>1, <1>2, <2>1, <2>2
<1>4. /\ \A u \in Threads : /\ call'[u].op = call[u].op /\ call'[u].key = call[u].key
                            /\ call[u].seen \subseteq call'[u].seen
                            /\ u # t => call'[u].changed = call[u].changed
                            /\ call[u].op \in Ops /\ call[u].key = k(t) => TRUE \in call'[u].seen
      /\ call'[t].changed
  <2>1. PICK b, x : b = TRUE /\ x = k(t)
    OBVIOUS
  <2>2. b \in BOOLEAN
    BY <2>1
  <2>3. HeapTypeOK /\ call' = Noticed(call, t, x, b)
    BY <1>1, <2>1
  <2>4. \A u \in Threads : Hears(u, t, x, b)
    BY <2>2, <2>3, NoticedFacts
  <2>5. call[t].op \in Ops /\ call[t].key = k(t)
    BY <1>1 DEF Ops, k
  <2>6. call'[t].changed
    BY <2>1, <2>4, <2>5 DEF Hears
  <2> QED BY <2>1, <2>4, <2>6 DEF Hears
<1>5. /\ local'[t].pc = "linked" /\ \A u \in Threads \ {t} : local'[u] = local[u]
  BY <1>1 DEF HeapTypeOK, LocalType
<1>6. Adding' = Adding \ {t}
  BY <1>4 DEF Adding
<1>7. Private' = Private \ {n}
  BY <1>2, <1>5, <1>6 DEF Private, Adding
<1>8. Linked' = Linked \union {n}
  BY <1>1, <1>2, <1>7 DEF Linked
<1>9. AddersOK'
  <2>1. \A u \in Adding \ {t} : local'[u] = local[u] /\ call'[u].key = call[u].key
    BY <1>4, <1>5 DEF Adding
  <2>2. \A u \in Adding : /\ local[u].node \in Heap \intersect live
                          /\ key[local[u].node] = call[u].key
                          /\ \A v \in Adding : local[v].node = local[u].node => v = u
    BY DEF LockFreeInv, AddersOK, k
  <2>3. UNCHANGED <<key, live>>
    BY <1>1
  <2>4. ASSUME NEW u \in Adding \ {t}
        PROVE  /\ local'[u].node \in Heap \intersect live'
               /\ key'[local'[u].node] = call'[u].key
               /\ \A v \in Adding \ {t} : local'[v].node = local'[u].node => v = u
    <3>1. /\ local[u].node \in Heap \intersect live /\ key[local[u].node] = call[u].key
          /\ \A v \in Adding \ {t} : local[v].node = local[u].node => v = u
      BY <2>2
    <3>2. local'[u] = local[u] /\ call'[u].key = call[u].key
      BY <2>1
    <3>3. \A v \in Adding \ {t} : local'[v].node = local'[u].node => v = u
      BY <2>1, <3>1, <3>2
    <3> QED BY <2>3, <3>1, <3>2, <3>3
  <2> QED BY <1>6, <2>4 DEF AddersOK, k
<1>10. MarkInv' /\ LinkedOK' /\ k(t) \notin members /\ members' = members \union {k(t)}
  <2> HIDE DEF p, c, n
  <2>1. /\ key[n] \in Keys /\ key[p] < key[n] /\ key[n] < key[next[p]]
        /\ next' = [next EXCEPT ![p] = n, ![n] = next[p]]
    BY <1>1, <1>2, <1>3
  <2>2. /\ LockFreeInv /\ HeapTypeOK' /\ p \in Linked \ marked /\ n \in Nodes \ Linked
        /\ p # tail /\ n \in live /\ UNCHANGED <<key, marked, live>>
        /\ Linked' = Linked \union {n}
    BY <1>1, <1>2, <1>3, <1>8
  <2>3. /\ MarkInv' /\ LinkedOK' /\ key[n] \notin members
        /\ members' = members \union {key[n]}
    BY ONLY <2>1, <2>2, LinkList
  <2> QED BY <1>2, <2>3
<1>11. /\ next'[p] = n /\ next'[n] = c
       /\ \A m \in Linked \ {p} : next'[m] = next[m]
  BY <1>1, <1>2, ListFacts DEF HeapTypeOK
<1>12. Kept
  <2>1. marked \subseteq Linked
    BY DEF LockFreeInv, LinkedOK
  <2> QED BY <1>1, <1>2, <1>8, <1>11, <2>1 DEF Kept
<1>13. ASSUME NEW u \in Threads PROVE call[u].op \in Ops => (call[u].key \in members') \in call'[u].seen
  <2> SUFFICES ASSUME call[u].op \in Ops PROVE (call[u].key \in members') \in call'[u].seen
    OBVIOUS
  <2>1. CASE call[u].key = k(t)
    <3>1. (call[u].key \in members') = TRUE
      BY <1>10, <2>1
    <3> QED BY <1>4, <2>1, <3>1
  <2>2. CASE call[u].key # k(t)
    <3>1. (call[u].key \in members') = (call[u].key \in members)
      BY <1>10, <2>2
    <3>2. (call[u].key \in members) \in call[u].seen
      BY DEF LockFreeInv, CallOK, k
    <3> QED BY <1>4, <3>1, <3>2
  <2> QED BY <2>1, <2>2
<1>14. ASSUME NEW u \in Threads \ {t} PROVE Watches(u)
  BY <1>4, <1>5, <1>13 DEF Watches
<1>15. ASSUME NEW u \in Threads \ {t}, NEW S \in SUBSET Linked,
              FALSE \notin call'[u].seen, Reaches(S, k(u)), At(u, "seek")
       PROVE  \E S2 \in SUBSET Linked' : S \subseteq S2 /\ Reaches(S2, k(u))'
  <2>1. /\ call[u].op \in Ops /\ k(u) \in Nat /\ (k(u) \in members) \in call[u].seen
    BY <1>15, InCall DEF At
  <2>2. k(u) # k(t)
    <3>1. ASSUME k(u) \notin members PROVE FALSE
      <4>1. (k(u) \in members) = FALSE
        BY <3>1
      <4> QED BY <1>4, <1>15, <2>1, <4>1
    <3> QED BY <1>10, <3>1
  <2>3. k(u)' = k(u) /\ S \subseteq Linked'
    BY <1>4, <1>8 DEF k
  <2>4. CASE p \in S /\ key[p] < k(u)
    <3>1. c \in S /\ key[c] <= k(u)
      BY <1>1, <1>15, <2>4 DEF Reaches
    <3>2. key[n] < k(u)
      BY <1>2, <1>3, <2>1, <3>1
    <3>3. S \union {n} \subseteq Linked'
      BY <1>8
    <3>4. PICK S2 : S2 = S \union {n}
      OBVIOUS
    <3>5. ASSUME NEW m \in S2
          PROVE  /\ key[m] <= k(u)
                 /\ key[m] < k(u) => next'[m] \in S2
                 /\ key[m] = k(u) => m \notin marked
      <4>1. CASE m = n
        BY <1>2, <1>11, <2>1, <3>1, <3>2, <3>4, <4>1
      <4>2. CASE m = p
        BY <1>2, <1>11, <1>15, <2>4, <3>4, <4>2 DEF Reaches
      <4>3. CASE m # n /\ m # p
        BY <1>11, <1>15, <3>4, <3>5, <4>3 DEF Reaches
      <4> QED BY <4>1, <4>2, <4>3
    <3>6. Reaches(S2, k(u))'
      BY <1>1, <2>3, <3>5 DEF Reaches
    <3> QED BY <3>3, <3>4, <3>6
  <2>5. CASE ~ (p \in S /\ key[p] < k(u))
    <3>1. \A m \in S : key[m] < k(u) => next'[m] = next[m]
      BY <1>11, <2>5
    <3>2. Reaches(S, k(u))'
      BY <1>1, <1>15, <2>3, <3>1 DEF Reaches
    <3> QED BY <2>3, <3>2
  <2> QED BY <2>4, <2>5
<1>16. CallOK(t)'
  <2>1. local'[t].pc \in PlacesOf(call'[t].op)
    <3>1. call'[t].op = "add"
      BY <1>1, <1>4
    <3> QED BY <1>5, <3>1 DEF PlacesOf
  <2>2. (call'[t].key \in members') \in call'[t].seen /\ call'[t].key \in Keys
    BY <1>1, <1>2, <1>4, <1>13 DEF k, Ops
  <2> QED BY <1>4, <1>5, <2>1, <2>2 DEF CallOK, At, k
<1>17. WalkOK(t)' /\ SeekOK(t)'
  BY <1>5 DEF WalkOK, SeekOK, At
<1>18. LockFreeInv'
  BY <1>9, <1>10, <1>12, <1>14, <1>15, <1>16, <1>17, StepKeeps
<1> QED BY <1>1, <1>3, <1>10, <1>18

\* A marked node is taken out of the list, which takes no key out of the set.
LEMMA SnipStep ==
  ASSUME LockFreeInv, HeapTypeOK', NEW t \in Threads, Snip(t)
  PROVE  LockFreeInv' /\ members' = members
<1> DEFINE p == Prev(t)
<1> DEFINE c == Curr(t)
<1>1. /\ HeapTypeOK /\ local[t] \in LocalType /\ At(t, "snip") /\ ~ At(t, "idle")
      /\ next[p] = c /\ p \notin marked /\ next' = [next EXCEPT ![p] = Succ(t)]
      /\ local' = [local EXCEPT ![t].pc = "succ", ![t].curr = Succ(t)]
      /\ UNCHANGED <<key, live, works, call, marked>>
  BY Pointers DEF Snip, Unchanged, LockFreeInv, MarkInv, At
<1>2. /\ p \in Linked \ marked /\ c \in marked /\ Succ(t) = next[c] /\ key[p] < k(t)
      /\ c \in Linked /\ c # tail
  BY <1>1 DEF LockFreeInv, WalkOK, MarkInv, At
<1>3. /\ k(t) \in Keys /\ k(t) \in Nat /\ k(t) < MaxKey + 1
      /\ (k(t) \in members) \in call[t].seen
  BY <1>1, InCall
<1>4. p # tail /\ p \in Listed /\ c \in Listed
  <2>1. p # tail
    BY <1>2, <1>3, MaxKeyAssumption DEF LockFreeInv, LinkedOK
  <2>2. p \in Listed
    BY <1>2, ListFacts
  <2> QED BY <1>1, <2>1, <2>2, ListFacts DEF Leads
<1>5. /\ local'[t].pc = "succ" /\ local'[t].prev = p /\ local'[t].curr = next[c]
      /\ local'[t].node = local[t].node /\ \A u \in Threads \ {t} : local'[u] = local[u]
  BY <1>1, <1>2 DEF HeapTypeOK, LocalType, Prev
<1>6. Linked' = Linked /\ AddersOK'
  <2>1. \A u \in Threads : local'[u].node = local[u].node
    BY <1>5
  <2> QED BY <1>1, <2>1, AddersSame DEF Adding, LockFreeInv
<1>7. MarkInv' /\ LinkedOK' /\ members' = members
  <2>1. next' = [next EXCEPT ![p] = next[next[p]]] /\ next[p] \in marked
    BY <1>1, <1>2
  <2> HIDE DEF p, c
  <2> QED BY <1>1, <1>2, <1>4, <1>6, <2>1, SnipList
<1>8. next'[p] = next[c] /\ \A m \in Linked \ {p} : next'[m] = next[m]
  BY <1>1, <1>2, ListFacts DEF HeapTypeOK
<1>9. marked \subseteq Linked
  BY DEF LockFreeInv, LinkedOK
<1>10. Kept
  BY <1>1, <1>2, <1>6, <1>8, <1>9 DEF Kept
<1>11. ASSUME NEW u \in Threads \ {t} PROVE Watches(u)
  BY <1>1, <1>5, <1>7 DEF Watches, LockFreeInv, CallOK, k
<1>12. ASSUME NEW u \in Threads \ {t}, NEW S \in SUBSET Linked, Reaches(S, k(u)), At(u, "seek")
       PROVE  Reaches(S, k(u))'
  <2>1. k(u)' = k(u) /\ k(u) \in Nat
    BY <1>1, <1>12, InCall DEF k, At
  <2>2. ASSUME NEW m \in S, key[m] < k(u) PROVE next'[m] \in S
    <3>1. next[m] \in S
      BY <1>12, <2>2 DEF Reaches
    <3>2. CASE m = p
      <4>1. c \in S
        BY <1>1, <3>1, <3>2
      <4>2. key[c] <= k(u) /\ key[c] # k(u)
        BY <1>2, <1>12, <4>1 DEF Reaches
      <4>3. key[c] \in Nat
        BY <1>2, ListFacts, Types DEF LockFreeInv, MarkInv
      <4>4. next[c] \in S
        BY <1>12, <2>1, <4>1, <4>2, <4>3 DEF Reaches
      <4> QED BY <1>8, <3>2, <4>4
    <3>3. CASE m # p
      BY <1>8, <3>1, <3>3
    <3> QED BY <3>2, <3>3
  <2> QED BY <1>1, <1>12, <2>1, <2>2 DEF Reaches
<1>13. CallOK(t)'
  <2>1. CallOK(t)
    BY DEF LockFreeInv
  <2> QED BY <1>1, <1>5, <1>7, <2>1, InCall DEF CallOK, PlacesOf, At, k, Ops
<1>14. next[c] \in Linked
  BY <1>2 DEF LockFreeInv, LinkedOK, Leads
<1>15. ASSUME key[next[c]] > k(t) PROVE FALSE \in call[t].seen
  <2>1. ASSUME k(t) \in members PROVE FALSE
    <3>1. PICK m \in Listed \ marked : key[m] = k(t)
      BY <2>1 DEF members
    <3>2. key[c] <= k(t)
      BY <1>1, <1>2, <1>4, <3>1, ListFacts
    <3>3. key[c] # k(t)
      BY <1>2, <1>4, <3>1, ListFacts
    <3>4. key[c] \in Nat /\ key[next[c]] \in Nat
      BY <1>2, <1>14, ListFacts, Types DEF LockFreeInv, MarkInv
    <3>5. key[c] < key[m]
      BY <1>3, <3>1, <3>2, <3>3, <3>4
    <3>6. key[next[c]] <= key[m]
      BY <1>2, <1>4, <3>5, ListFacts
    <3> QED BY <1>3, <1>15, <3>1, <3>4, <3>6
  <2>2. (k(t) \in members) = FALSE
    BY <2>1
  <2> QED BY <1>3, <2>2
<1>16. WalkOK(t)'
  BY <1>1, <1>2, <1>5, <1>6, <1>14, <1>15 DEF WalkOK, At, Prev, Curr, k
<1>17. SeekOK(t)'
  BY <1>5 DEF SeekOK, At
<1>18. LockFreeInv'
  BY <1>6, <1>7, <1>10, <1>11, <1>12, <1>13, <1>16, <1>17, StepKeeps
<1> QED BY <1>7, <1>18

\* A removal takes effect.
LEMMA MarkStep ==
  ASSUME LockFreeInv, HeapTypeOK', NEW t \in Threads, Mark(t)
  PROVE  /\ LockFreeInv' /\ call[t].op = "remove"
         /\ k(t) \in members /\ members' = members \ {k(t)}
<1> DEFINE c == Curr(t)
<1>1. /\ HeapTypeOK /\ local[t] \in LocalType /\ At(t, "mark") /\ ~ At(t, "idle")
      /\ c \notin marked /\ marked' = marked \union {c}
      /\ call' = Noticed(call, t, k(t), FALSE)
      /\ local' = [local EXCEPT ![t].pc = "start"]
      /\ UNCHANGED <<key, next, live, works>>
  BY Pointers DEF Mark, Goto, Unchanged, LockFreeInv, MarkInv, At, heap
<1>2. c \in Linked \ marked /\ key[c] = k(t) /\ k(t) \in Keys
  BY <1>1, InCall DEF LockFreeInv, WalkOK, At
<1>3. call[t].op = "remove"
  BY <1>1, InCall DEF PlacesOf, At, Ops
<1>4. \A u \in Threads : /\ call'[u].op = call[u].op /\ call'[u].key = call[u].key
                         /\ call[u].seen \subseteq call'[u].seen
                         /\ u # t => call'[u].changed = call[u].changed
                         /\ call[u].op \in Ops /\ call[u].key = k(t) => FALSE \in call'[u].seen
  <2>1. PICK b, x : b = FALSE /\ x = k(t)
    OBVIOUS
  <2>2. b \in BOOLEAN
    BY <2>1
  <2>3. HeapTypeOK /\ call' = Noticed(call, t, x, b)
    BY <1>1, <2>1
  <2>4. \A u \in Threads : Hears(u, t, x, b)
    BY <2>2, <2>3, NoticedFacts
  <2> QED BY <2>1, <2>4 DEF Hears
<1>5. /\ local'[t].pc = "start" /\ local'[t].node = local[t].node
      /\ \A u \in Threads \ {t} : local'[u] = local[u]
  BY <1>1 DEF HeapTypeOK, LocalType
<1>6. Linked' = Linked /\ AddersOK'
  <2>1. Adding' = Adding
    BY <1>3, <1>4 DEF Adding
  <2>2. \A u \in Adding : local'[u].node = local[u].node /\ call'[u].key = call[u].key
    BY <1>4, <1>5 DEF Adding
  <2> QED BY <1>1, <2>1, <2>2, AddersSame DEF LockFreeInv
<1>7. MarkInv' /\ LinkedOK' /\ k(t) \in members /\ members' = members \ {k(t)}
  BY <1>1, <1>2, <1>6, MarkList
<1>8. marked \subseteq Linked
  BY DEF LockFreeInv, LinkedOK
<1>9. Kept
  BY <1>1, <1>6, <1>8 DEF Kept
<1>10. ASSUME NEW u \in Threads, call[u].op \in Ops
       PROVE  (call[u].key \in members') \in call'[u].seen
  <2>1. CASE call[u].key = k(t)
    <3>1. (call[u].key \in members') = FALSE
      BY <1>7, <2>1
    <3> QED BY <1>4, <1>10, <2>1, <3>1
  <2>2. CASE call[u].key # k(t)
    <3>1. (call[u].key \in members') = (call[u].key \in members)
      BY <1>7, <2>2
    <3>2. (call[u].key \in members) \in call[u].seen
      BY <1>10 DEF LockFreeInv, CallOK, k
    <3> QED BY <1>4, <3>1, <3>2
  <2> QED BY <2>1, <2>2
<1>11. ASSUME NEW u \in Threads \ {t} PROVE Watches(u)
  BY <1>4, <1>5, <1>10 DEF Watches
<1>12. ASSUME NEW u \in Threads \ {t}, NEW S \in SUBSET Linked, Reaches(S, k(u)),
              FALSE \notin call'[u].seen, At(u, "seek")
       PROVE  Reaches(S, k(u))'
  <2>1. call[u].op \in Ops
    BY <1>12, InCall DEF At
  <2>2. k(u)' = k(u) /\ k(u) # k(t)
    BY <1>4, <1>12, <2>1 DEF k
  <2> QED BY <1>1, <1>2, <1>12, <2>2 DEF Reaches
<1>13. CallOK(t)'
  <2>1. local'[t].pc \in PlacesOf(call'[t].op)
    <3>1. call'[t].op = "remove"
      BY <1>3, <1>4
    <3> QED BY <1>5, <3>1 DEF PlacesOf
  <2>2. (call'[t].key \in members') \in call'[t].seen /\ call'[t].key \in Keys
    BY <1>2, <1>3, <1>4, <1>10 DEF k, Ops
  <2>3. call'[t].op # "add"
    BY <1>3, <1>4
  <2> QED BY <2>1, <2>2, <2>3 DEF CallOK, k
<1>14. WalkOK(t)' /\ SeekOK(t)'
  BY <1>5 DEF WalkOK, SeekOK, At
<1>15. LockFreeInv'
  BY <1>6, <1>7, <1>9, <1>11, <1>12, <1>13, <1>14, StepKeeps
<1> QED BY <1>3, <1>7, <1>15

-----------------------------------------------------------------------------
(* The theorems.                                                            *)

LEMMA InitFacts ==
  ASSUME Init
  PROVE  LockFreeInv /\ members = {}
<1>1. /\ key = [n \in Nodes |-> IF n = tail THEN MaxKey + 1 ELSE 0]
      /\ next = [n \in Nodes |-> IF n = head THEN tail ELSE Null]
      /\ live = {head, tail} /\ local = [t \in Threads |-> Idle]
      /\ works = [t \in Threads |-> 0] /\ call = [t \in Threads |-> Returned(FALSE)]
      /\ marked = {}
  BY DEF Init, HeapInit
<1>2. HeapTypeOK
  <2>1. Idle \in LocalType /\ Returned(FALSE) \in CallType
    BY MaxKeyAssumption DEF Idle, LocalType, Places, Returned, CallType
  <2>2. 0 \in 0 .. MaxKey + 1 /\ MaxKey + 1 \in 0 .. MaxKey + 1 /\ 0 \in 0 .. NumWork
    BY MaxKeyAssumption, NumWorkAssumption
  <2>3. local \in [Threads -> LocalType] /\ call \in [Threads -> CallType]
    BY <1>1, <2>1
  <2> QED BY <1>1, <2>2, <2>3, Sentinels DEF HeapTypeOK, LocalType, CallType
<1>3. Adding = {}
  BY <1>1 DEF Adding, Returned
<1>4. Linked = {head, tail}
  BY <1>1, <1>3 DEF Linked, Private
<1>5. /\ key[head] = 0 /\ key[tail] = MaxKey + 1 /\ next[head] = tail
      /\ key[head] < key[tail]
  BY <1>1, Sentinels, MaxKeyAssumption
<1>6. LinkedOK
  BY <1>1, <1>4, <1>5, Sentinels DEF LinkedOK, Leads
<1>7. Listed = {head, tail} /\ tail \in Listed
  <2>1. key \in [Nodes -> Nat] /\ Leads(next, key, {head, tail})
    BY <1>2, <1>4, <1>6, Types DEF LinkedOK
  <2>2. /\ tail \in ListedBy(next) /\ ListedBy(next) \subseteq {head, tail}
        /\ Leads(next, key, ListedBy(next))
    BY <2>1, ListedOrdered
  <2> QED BY <2>2, ListedNow DEF Leads
<1>8. MarkInv
  <2>1. Sorted
    BY <1>1, <1>5, <1>7 DEF Sorted
  <2>2. Private = {}
    BY <1>3 DEF Private
  <2> QED BY <1>1, <1>2, <1>7, <2>1, <2>2 DEF MarkInv
<1>9. AddersOK
  BY <1>3 DEF AddersOK
<1>10. ASSUME NEW t \in Threads PROVE CallOK(t) /\ WalkOK(t) /\ SeekOK(t)
  BY <1>1 DEF CallOK, WalkOK, SeekOK, PlacesOf, Idle, Returned, At, Ops
<1>11. members = {}
  BY <1>7 DEF members
<1> QED BY <1>6, <1>8, <1>9, <1>10, <1>11 DEF LockFreeInv

\* A step that stutters keeps everything.
LEMMA StutterStep ==
  ASSUME LockFreeInv, UNCHANGED vars
  PROVE  LockFreeInv' /\ members' = members
<1>1. /\ key' = key /\ next' = next /\ live' = live /\ local' = local /\ works' = works
      /\ call' = call /\ marked' = marked
  BY DEF vars, heap
<1>2. Listed' = Listed
  BY <1>1, ListedNow
<1>3. members' = members
  BY <1>1, <1>2 DEF members
<1>4. Adding' = Adding /\ Linked' = Linked
  BY <1>1 DEF Adding, Linked, Private
<1>5. MarkInv'
  BY <1>1, <1>2, <1>4 DEF LockFreeInv, MarkInv, HeapTypeOK, Sorted, Private
<1>6. LinkedOK' /\ AddersOK'
  BY <1>1, <1>4 DEF LockFreeInv, LinkedOK, Leads, AddersOK, k
<1>7. ASSUME NEW t \in Threads PROVE CallOK(t)' /\ WalkOK(t)' /\ SeekOK(t)'
  <2>1. CallOK(t) /\ WalkOK(t) /\ SeekOK(t)
    BY DEF LockFreeInv
  <2>2. CallOK(t)'
    BY <1>1, <1>3, <2>1 DEF CallOK, At, k
  <2>3. WalkOK(t)'
    BY <1>1, <1>4, <2>1 DEF WalkOK, At, Prev, Curr, Succ, k
  <2>4. SeekOK(t)'
    BY <1>1, <1>4, <2>1 DEF SeekOK, Reaches, At, Curr, k
  <2> QED BY <2>2, <2>3, <2>4
<1> QED BY <1>3, <1>5, <1>6, <1>7 DEF LockFreeInv

\* What a step is for the set: nothing, or one step of SetObject.
LEMMA StepImplements ==
  ASSUME LockFreeInv, NEW t \in Threads, Step(t)
  PROVE  LockFreeInv' /\ (Set!Next \/ UNCHANGED <<members, call>>)
<1>1. HeapTypeOK' /\ HeapTypeOK
  BY TypeStep DEF LockFreeInv, MarkInv
<1>2. CASE Begin(t, members) /\ UNCHANGED marked
  <2>1. LockFreeInv' /\ members' = members
    BY <1>1, <1>2, BeginStep
  <2>2. call[t].op = "none"
    <3>1. At(t, "idle") /\ CallOK(t) /\ call[t].op \in Ops \union {"none"}
      BY <1>1, <1>2, Pointers DEF Begin, LockFreeInv, CallType
    <3> QED BY <3>1 DEF CallOK, PlacesOf, At, Ops
  <2>3. Set!Begin(t)
    BY <1>2, <2>1, <2>2 DEF Begin, Set!Begin, Set!Began, Began, Set!Ops, Ops
  <2> QED BY <2>1, <2>3 DEF Set!Next
<1>3. CASE \/ Find(t) \/ MeetMarked(t) \/ MeetSmaller(t) \/ Found(t) \/ SnipFails(t)
           \/ LoadVictim(t) \/ MarkFails(t) \/ StartSeek(t) \/ Seek(t)
           \/ Snip(t) \/ LinkFails(t)
  <2>1. LockFreeInv' /\ members' = members
    BY <1>1, <1>3, FindStep, MeetMarkedStep, MeetSmallerStep, FoundStep, RetryStep,
       LoadVictimStep, StartSeekStep, SeekStep, SnipStep, LinkFailsStep
  <2>2. UNCHANGED call
    BY <1>3 DEF Find, MeetMarked, MeetSmaller, Found, SnipFails, LoadVictim, MarkFails,
                StartSeek, Seek, Snip, LinkFails
  <2> QED BY <2>1, <2>2
<1>4. CASE Link(t) \/ Mark(t)
  <2>1. LockFreeInv'
    BY <1>1, <1>4, LinkStep, MarkStep
  <2>2. Set!Change(t)
    <3>1. CASE Link(t)
      <4>1. /\ call[t].op = "add" /\ ~ call[t].changed
            /\ k(t) \notin members /\ members' = members \union {k(t)}
        BY <1>1, <3>1, LinkStep
      <4>2. PICK b : b = (k(t) \notin members)
        OBVIOUS
      <4>3. b = TRUE
        BY <4>1, <4>2
      <4>4. call' = Noticed(call, t, k(t), b)
        BY <3>1, <4>3 DEF Link
      <4>5. call' = Set!Noticed(call, t, call[t].key, call[t].key \notin members)
        BY <4>2, <4>4 DEF Noticed, Set!Noticed, Ops, Set!Ops, k
      <4> QED BY <4>1, <4>5 DEF Set!Change, k
    <3>2. CASE Mark(t)
      <4>1. /\ call[t].op = "remove" /\ k(t) \in members /\ members' = members \ {k(t)}
        BY <1>1, <3>2, MarkStep
      <4>2. PICK b : b = (k(t) \notin members)
        OBVIOUS
      <4>3. b = FALSE
        BY <4>1, <4>2
      <4>4. call' = Noticed(call, t, k(t), b)
        BY <3>2, <4>3 DEF Mark
      <4>5. call' = Set!Noticed(call, t, call[t].key, call[t].key \notin members)
        BY <4>2, <4>4 DEF Noticed, Set!Noticed, Ops, Set!Ops, k
      <4> QED BY <4>1, <4>5 DEF Set!Change, k
    <3> QED BY <1>4, <3>1, <3>2
  <2> QED BY <2>1, <2>2 DEF Set!Next
<1>5. CASE AddPresent(t) \/ AddReturns(t) \/ RemoveAbsent(t) \/ Contains(t)
  <2>1. /\ LockFreeInv' /\ members' = members /\ call[t].op \in Ops
        /\ \E answer \in BOOLEAN : MayAnswer(call[t], answer, TRUE) /\ Return(t, answer)
    <3>1. CASE AddPresent(t) \/ RemoveAbsent(t)
      <4>1. Return(t, FALSE)
        BY <3>1 DEF AddPresent, RemoveAbsent
      <4> QED BY <1>1, <3>1, <4>1, AddPresentStep, RemoveAbsentStep
    <3>2. CASE AddReturns(t)
      <4>1. Return(t, TRUE)
        BY <3>2 DEF AddReturns
      <4> QED BY <1>1, <3>2, <4>1, AddReturnsStep
    <3>3. CASE Contains(t)
      BY <1>1, <3>3, ContainsStep
    <3> QED BY <1>5, <3>1, <3>2, <3>3
  <2>2. PICK answer \in BOOLEAN : MayAnswer(call[t], answer, TRUE) /\ Return(t, answer)
    BY <2>1
  <2>3. /\ Set!MayAnswer(call[t], answer, TRUE)
        /\ call' = [call EXCEPT ![t] = Set!Returned(answer)] /\ call[t].op \in Set!Ops
    BY <2>1, <2>2 DEF MayAnswer, Set!MayAnswer, Return, Returned, Set!Returned, Ops, Set!Ops
  <2>4. Set!End(t)
    BY <2>1, <2>3 DEF Set!End
  <2> QED BY <2>1, <2>4 DEF Set!Next
<1> QED BY <1>2, <1>3, <1>4, <1>5 DEF Step

\* The invariant, which says that no insertion is lost and that what list_find
\* and list_contains will answer has been true during the call.
THEOREM LockFreeInvariant == Spec => []LockFreeInv
<1>1. Init => LockFreeInv
  BY InitFacts
<1>2. LockFreeInv /\ [Next]_vars => LockFreeInv'
  <2> SUFFICES ASSUME LockFreeInv, [Next]_vars PROVE LockFreeInv'
    OBVIOUS
  <2>1. CASE \E t \in Threads : Step(t)
    BY <2>1, StepImplements
  <2>2. CASE Terminating
    BY <2>2, StutterStep DEF Terminating
  <2>3. CASE UNCHANGED vars
    BY <2>3, StutterStep
  <2> QED BY <2>1, <2>2, <2>3 DEF Next
<1> QED BY <1>1, <1>2, PTL DEF Spec

\* The list is a way to tail with increasing keys, and a node that was linked and
\* is not marked is on it: the CAS of list_add never links behind a removed node.
THEOREM NoInsertionIsLost == Spec => []MarkInv
<1>1. LockFreeInv => MarkInv
  BY DEF LockFreeInv
<1> QED BY <1>1, LockFreeInvariant, PTL

\* The list is a set: every add and removal takes effect in one step, and every
\* answer of list_add, list_remove and list_contains was true during the call.
THEOREM ListIsASet == Spec => ImplementsSet
<1>1. Init => Set!Init
  BY InitFacts DEF Init, HeapInit, Set!Init, Set!Returned, Returned
<1>2. LockFreeInv /\ [Next]_vars => [Set!Next]_<<members, call>>
  <2> SUFFICES ASSUME LockFreeInv, [Next]_vars
               PROVE  Set!Next \/ UNCHANGED <<members, call>>
    OBVIOUS
  <2>1. CASE \E t \in Threads : Step(t)
    BY <2>1, StepImplements
  <2>2. CASE UNCHANGED vars
    BY <2>2, StutterStep DEF vars
  <2> QED BY <2>1, <2>2 DEF Next, Terminating
<1> QED BY <1>1, <1>2, LockFreeInvariant, PTL DEF Spec, ImplementsSet, Set!Spec
=============================================================================
