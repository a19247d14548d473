---------------------------- MODULE LockedListsProofs ----------------------------
(****************************************************************************)
(* Proofs about LockedLists, for every number of threads, keys, calls and   *)
(* nodes: each of the three programs keeps its list in order, has no        *)
(* pointer to a node that has been freed, and is a set.                     *)
(****************************************************************************)
EXTENDS LockedLists, FiniteSetTheorems, TLAPS

-----------------------------------------------------------------------------
(* The heap.  Its lemmas are proved in LockFreeListProofs and do not speak  *)
(* of marked, which the lists with mutexes do not have.                     *)

Heaps == INSTANCE LockFreeListProofs WITH marked <- {}

ListedBy(nxt) == Heaps!ListedBy(nxt)

LEMMA ListedNow == Listed = ListedBy(next) /\ Listed' = ListedBy(next')
<1>1. Visited = Heaps!VisitedBy(next)
  BY DEF Visited, Heaps!VisitedBy, Heaps!Walks, Heaps!After, head, tail, Null,
         Heaps!head, Heaps!tail, Heaps!Null
<1>2. Visited' = Heaps!VisitedBy(next')
  BY DEF Visited, Heaps!VisitedBy, Heaps!Walks, Heaps!After, head, tail, Null,
         Heaps!head, Heaps!tail, Heaps!Null
<1> QED BY <1>1, <1>2 DEF Listed, ListedBy, Heaps!ListedBy

LEMMA SameHeap ==
  /\ Heaps!Nodes = Nodes /\ Heaps!Heap = Heap /\ Heaps!head = head /\ Heaps!tail = tail
  /\ Heaps!Null = Null
  /\ \A nxt, ky, S : Heaps!Leads(nxt, ky, S) <=> Leads(nxt, ky, S)
  /\ \A nxt : Heaps!ListedBy(nxt) = ListedBy(nxt)
<1>1. /\ Heaps!Nodes = Nodes /\ Heaps!Heap = Heap /\ Heaps!head = head
      /\ Heaps!tail = tail /\ Heaps!Null = Null
  BY DEF Nodes, Heaps!Nodes, Heap, Heaps!Heap, head, Heaps!head, tail, Heaps!tail, Null,
         Heaps!Null
<1> QED BY <1>1 DEF Leads, Heaps!Leads, ListedBy

\* What is listed leads to tail, each node to the one with the next key.
LEMMA ListedOrdered ==
  ASSUME NEW nxt, NEW ky \in [Nodes -> Nat], NEW S, Leads(nxt, ky, S)
  PROVE  /\ Leads(nxt, ky, ListedBy(nxt)) /\ tail \in ListedBy(nxt)
         /\ ListedBy(nxt) \subseteq S /\ Null \notin ListedBy(nxt)
         /\ \A m, n \in ListedBy(nxt) :
              /\ ky[m] = ky[n] => m = n
              /\ m # tail /\ ky[m] < ky[n] => ky[nxt[m]] <= ky[n]
BY SameHeap, MaxKeyAssumption, NumWorkAssumption, HeapSizeAssumption, Heaps!ListedOrdered

\* A node linked between two that are listed is listed, and no node is lost.
LEMMA ListedInsert ==
  ASSUME NEW nxt, NEW ky \in [Nodes -> Nat], NEW S, Leads(nxt, ky, S),
         NEW p \in ListedBy(nxt) \ {tail}, NEW n \in Nodes \ ListedBy(nxt),
         ky[p] < ky[n], ky[n] < ky[nxt[p]],
         NEW nxt2, nxt2[p] = n, nxt2[n] = nxt[p],
         \A m \in ListedBy(nxt) \ {p, tail} : nxt2[m] = nxt[m]
  PROVE  Leads(nxt2, ky, ListedBy(nxt2)) /\ ListedBy(nxt2) = ListedBy(nxt) \union {n}
BY SameHeap, MaxKeyAssumption, NumWorkAssumption, HeapSizeAssumption, Heaps!ListedInsert

\* A node taken out is no longer listed, and all others still are.
LEMMA ListedRemove ==
  ASSUME NEW nxt, NEW ky \in [Nodes -> Nat], NEW S, Leads(nxt, ky, S),
         NEW p \in ListedBy(nxt) \ {tail}, nxt[p] # tail,
         NEW nxt2, nxt2[p] = nxt[nxt[p]],
         \A m \in ListedBy(nxt) \ {p, tail} : nxt2[m] = nxt[m]
  PROVE  Leads(nxt2, ky, ListedBy(nxt2)) /\ ListedBy(nxt2) = ListedBy(nxt) \ {nxt[p]}
BY SameHeap, MaxKeyAssumption, NumWorkAssumption, HeapSizeAssumption, Heaps!ListedRemove

-----------------------------------------------------------------------------
(* Types.                                                                   *)

LocalType == [pc : Places, prev : Nodes \union {Null}, curr : Nodes \union {Null},
              node : Heap \union {Null}, it : Nodes \union {Null}, ret : BOOLEAN]

CallType == [op : Ops \union {"none"}, key : 0 .. MaxKey, seen : SUBSET BOOLEAN,
             changed : BOOLEAN, answer : BOOLEAN]

\* What Noticed does to the call of u.
Hears(u, t, x, in) ==
    /\ call'[u].op = call[u].op /\ call'[u].key = call[u].key
    /\ call[u].seen \subseteq call'[u].seen
    /\ u # t => call'[u].changed = call[u].changed
    /\ u = t /\ call[u].op \in Ops /\ call[u].key = x => call'[u].changed = TRUE
    /\ call[u].op \in Ops /\ call[u].key = x => in \in call'[u].seen

LEMMA NoticedFacts ==
  ASSUME HeapTypeOK, NEW t \in Threads, NEW x, NEW in \in BOOLEAN,
         call' = Noticed(call, t, x, in)
  PROVE  call' \in [Threads -> CallType] /\ \A u \in Threads : Hears(u, t, x, in)
<1>1. call' = Heaps!Noticed(call, t, x, in)
  BY DEF Noticed, Heaps!Noticed, Ops, Heaps!Ops
<1>2. Heaps!HeapTypeOK
  BY DEF HeapTypeOK, Heaps!HeapTypeOK, Nodes, Heaps!Nodes, Heap, Heaps!Heap, head, Heaps!head,
         tail, Heaps!tail, Null, Heaps!Null, Ops, Heaps!Ops, Places, Heaps!Places
<1>3. call' \in [Threads -> Heaps!CallType] /\ \A u \in Threads : Heaps!Hears(u, t, x, in)
  BY ONLY <1>1, <1>2, Heaps!NoticedFacts, MaxKeyAssumption, NumWorkAssumption, HeapSizeAssumption
<1> QED BY <1>3 DEF CallType, Heaps!CallType, Hears, Heaps!Hears, Ops, Heaps!Ops

LEMMA Sentinels == head # tail /\ head \in Nodes /\ tail \in Nodes /\ Null \notin Nodes
                   /\ head \notin Heap /\ tail \notin Heap /\ Null \notin Heap
                   /\ Heap \subseteq Nodes /\ Giant \notin Nodes
BY DEF head, tail, Null, Nodes, Heap, Giant

LEMMA Types ==
  ASSUME HeapTypeOK
  PROVE  /\ key \in [Nodes -> Nat] /\ next \in [Nodes -> Nodes \union {Null}]
         /\ \A n \in Nodes : key[n] \in Nat /\ next[n] \in Nodes \union {Null}
         /\ \A x \in Keys : x \in Nat /\ 0 < x /\ x < MaxKey + 1
         /\ local \in [Threads -> LocalType] /\ call \in [Threads -> CallType]
<1>1. 0 .. MaxKey + 1 \subseteq Nat
  BY MaxKeyAssumption
<1>2. key \in [Nodes -> Nat]
  BY <1>1 DEF HeapTypeOK
<1> QED BY <1>2, MaxKeyAssumption DEF HeapTypeOK, Keys, LocalType, CallType
-----------------------------------------------------------------------------
(* The list.                                                                *)

LEMMA ListFacts ==
  ASSUME LockedInv
  PROVE  /\ Listed = ListedBy(next) /\ Leads(next, key, Listed)
         /\ Listed \subseteq Known /\ Known \subseteq Nodes /\ Known \subseteq live
         /\ head \in Listed /\ tail \in Listed
         /\ program # "optimistic" => Known = Listed
         /\ \A m, n \in Listed :
              /\ key[m] = key[n] => m = n
              /\ m # tail /\ key[m] < key[n] => key[next[m]] <= key[n]
<1>1. key \in [Nodes -> Nat] /\ Leads(next, key, Known) /\ Known \subseteq live
  BY Types DEF LockedInv, ListInv, KnownOK
<1>2. Listed = ListedBy(next)
  BY ListedNow
<1>3. /\ Leads(next, key, ListedBy(next)) /\ tail \in ListedBy(next)
      /\ ListedBy(next) \subseteq Known
      /\ \A m, n \in ListedBy(next) :
           /\ key[m] = key[n] => m = n
           /\ m # tail /\ key[m] < key[n] => key[next[m]] <= key[n]
  BY <1>1, ListedOrdered
<1>4. head \in ListedBy(next) /\ Known \subseteq Nodes
  BY <1>1, <1>3 DEF Leads
<1>5. program # "optimistic" => Known = Listed
  BY DEF Known
<1> QED BY <1>1, <1>2, <1>3, <1>4, <1>5

\* A node that is listed has its key in the set, if it is one.
LEMMA ListedIsMember ==
  ASSUME LockedInv, NEW n \in Listed, key[n] \in Keys
  PROVE  key[n] \in members
<1>1. key[head] \notin Keys /\ key[tail] \notin Keys
  BY MaxKeyAssumption DEF LockedInv, KnownOK, Keys
<1> QED BY <1>1 DEF members

\* A key between two neighbours is not in the set.
LEMMA BetweenIsAbsent ==
  ASSUME LockedInv, NEW p \in Listed \ {tail}, NEW x \in Nat,
         key[p] < x, x < key[next[p]]
  PROVE  x \notin members
<1> SUFFICES ASSUME NEW n \in Listed, key[n] = x PROVE FALSE
  BY DEF members
<1>1. key[p] < key[n]
  OBVIOUS
<1>2. key[next[p]] <= key[n]
  BY <1>1, ListFacts
<1>3. key[next[p]] \in Nat
  <2>1. next[p] \in Nodes
    BY ListFacts DEF Leads
  <2> QED BY <2>1, Types DEF LockedInv, ListInv
<1> QED BY <1>2, <1>3

\* A list that leads to tail is sorted.
LEMMA SortedAfter ==
  ASSUME HeapTypeOK', Leads(next, key, Known)', Known' \subseteq live',
         key'[head] = 0, key'[tail] = MaxKey + 1
  PROVE  Sorted' /\ KnownOK'
<1>1. PICK nx, ky, L : nx = next' /\ ky = key' /\ L = Known'
  OBVIOUS
<1>2. ky \in [Nodes -> Nat]
  <2>1. 0 .. MaxKey + 1 \subseteq Nat
    BY MaxKeyAssumption
  <2> QED BY <1>1, <2>1 DEF HeapTypeOK
<1>3. Leads(nx, ky, L)
  BY <1>1 DEF Leads
<1>4. Leads(nx, ky, ListedBy(nx)) /\ tail \in ListedBy(nx) /\ ListedBy(nx) \subseteq L
  BY <1>2, <1>3, ListedOrdered
<1>5. Listed' = ListedBy(nx)
  BY <1>1, ListedNow
<1>6. tail \in Listed' /\ Listed' \subseteq live'
  BY <1>1, <1>4, <1>5
<1>7. \A n \in Listed' \ {tail} : key'[n] < key'[next'[n]]
  BY <1>1, <1>4, <1>5 DEF Leads
<1> QED BY <1>6, <1>7 DEF Sorted, KnownOK

\* A step that leaves the list alone.
Same == /\ next' = next /\ program' = program /\ Known \subseteq live'
        /\ \A n \in live : key'[n] = key[n]

LEMMA SameList ==
  ASSUME LockedInv, HeapTypeOK', Same
  PROVE  Listed' = Listed /\ Known' = Known /\ members' = members /\ Sorted' /\ KnownOK'
<1>1. Listed' = Listed
  BY ListedNow DEF Same
<1>2. Known' = Known
  BY <1>1 DEF Known, Same
<1>3. /\ Listed \subseteq live /\ Known \subseteq live /\ tail \in Known /\ head \in Known
  BY ListFacts
<1>4. members' = members
  BY <1>1, <1>3 DEF members, Same
<1>5. Leads(next, key, Known)' /\ key'[head] = 0 /\ key'[tail] = MaxKey + 1
  BY <1>2, <1>3 DEF LockedInv, KnownOK, Leads, Same
<1>6. Sorted' /\ KnownOK'
  BY <1>2, <1>5, SortedAfter DEF Same
<1> QED BY <1>1, <1>2, <1>4, <1>6

\* n, which a thread owns, is linked between p and what followed it.
LEMMA LinkList ==
  ASSUME LockedInv, HeapTypeOK', NEW p \in Listed \ {tail}, NEW n \in Nodes \ Known,
         n \in live, key[n] \in Keys, key[p] < key[n], key[n] < key[next[p]],
         next' = [next EXCEPT ![p] = n, ![n] = next[p]], UNCHANGED <<key, live, program>>
  PROVE  /\ Listed' = Listed \union {n} /\ Known' = Known \union {n} /\ Sorted' /\ KnownOK'
         /\ key[n] \notin members /\ members' = members \union {key[n]}
<1>1. /\ Listed = ListedBy(next) /\ Leads(next, key, Listed) /\ Listed \subseteq Known
      /\ head \in Listed /\ tail \in Listed /\ Known \subseteq Nodes /\ Known \subseteq live
      /\ Leads(next, key, Known) /\ key[head] = 0 /\ key[tail] = MaxKey + 1
  BY ListFacts DEF LockedInv, KnownOK
<1>2. key \in [Nodes -> Nat] /\ next \in [Nodes -> Nodes \union {Null}] /\ Null \notin Nodes
  BY Types, Sentinels DEF LockedInv, ListInv
<1>3. /\ next'[p] = n /\ next'[n] = next[p] /\ p # n /\ next[p] \in Listed
      /\ \A m \in Nodes \ {p, n} : next'[m] = next[m]
  BY <1>1, <1>2 DEF Leads
<1>4. Listed' = Listed \union {n}
  <2>1. Listed' = ListedBy(next')
    BY ListedNow
  <2>2. PICK nx : nx = next'
    OBVIOUS
  <2>3. /\ nx[p] = n /\ nx[n] = next[p]
        /\ \A m \in ListedBy(next) \ {p, tail} : nx[m] = next[m]
    BY <1>1, <1>3, <2>2
  <2>4. /\ p \in ListedBy(next) \ {tail} /\ n \in Nodes \ ListedBy(next)
        /\ Leads(next, key, ListedBy(next)) /\ key[p] < key[n] /\ key[n] < key[next[p]]
    BY <1>1
  <2>5. ListedBy(nx) = ListedBy(next) \union {n}
    BY ONLY <1>2, <2>3, <2>4, ListedInsert
  <2> QED BY <1>1, <2>1, <2>2, <2>5
<1>5. Known' = Known \union {n}
  <2>1. CASE program = "optimistic"
    <3>1. \A m \in Nodes : next'[m] # Null <=> next[m] # Null \/ m = n
      BY <1>1, <1>2, <1>3 DEF Leads
    <3> QED BY <2>1, <3>1 DEF Known
  <2>2. CASE program # "optimistic"
    BY <1>4, <2>2 DEF Known
  <2> QED BY <2>1, <2>2
<1>6. key[n] \notin members
  <2>1. key[n] \in Nat
    BY <1>2
  <2> QED BY <2>1, BetweenIsAbsent
<1>7. members' = members \union {key[n]}
  <2>1. n # head /\ n # tail
    BY <1>1
  <2> QED BY <1>4, <2>1 DEF members
<1>8. Leads(next, key, Known)'
  <2>1. ASSUME NEW m \in (Known \union {n}) \ {tail}
        PROVE  next'[m] \in Known \union {n} /\ key[m] < key[next'[m]]
    <3>1. CASE m = p
      BY <1>3, <3>1
    <3>2. CASE m = n
      BY <1>1, <1>3, <3>2
    <3>3. CASE m # p /\ m # n
      <4>1. m \in Known \ {tail} /\ next'[m] = next[m]
        BY <1>1, <1>3, <3>3
      <4> QED BY <1>1, <4>1 DEF Leads
    <3> QED BY <3>1, <3>2, <3>3
  <2>2. Known \union {n} \subseteq Nodes /\ head \in Known \union {n}
    BY <1>1
  <2>3. \A m \in Known' \ {tail} : next'[m] \in Known' /\ key'[m] < key'[next'[m]]
    BY <1>5, <2>1
  <2> QED BY <1>5, <2>2, <2>3 DEF Leads
<1>9. Known' \subseteq live'
  BY <1>1, <1>5
<1>10. Sorted' /\ KnownOK'
  BY <1>1, <1>8, <1>9, SortedAfter
<1> QED BY <1>4, <1>5, <1>6, <1>7, <1>10

\* The node after p is taken out.
LEMMA UnlinkList ==
  ASSUME LockedInv, HeapTypeOK', NEW p \in Listed \ {tail}, NEW c, c = next[p], key[c] \in Keys,
         next' = [next EXCEPT ![p] = next[c]], UNCHANGED <<key, live, program>>
  PROVE  /\ Listed' = Listed \ {c} /\ Sorted' /\ KnownOK'
         /\ Known' = IF program = "optimistic" THEN Known ELSE Known \ {c}
         /\ key[c] \in members /\ members' = members \ {key[c]}
         /\ c \in Listed \ {head, tail} /\ next[c] \in Listed
<1>1. /\ Listed = ListedBy(next) /\ Leads(next, key, Listed) /\ Listed \subseteq Known
      /\ head \in Listed /\ tail \in Listed /\ Known \subseteq Nodes /\ Known \subseteq live
      /\ Leads(next, key, Known) /\ key[head] = 0 /\ key[tail] = MaxKey + 1
  BY ListFacts DEF LockedInv, KnownOK
<1>2. key \in [Nodes -> Nat] /\ next \in [Nodes -> Nodes \union {Null}] /\ Null \notin Nodes
  BY Types, Sentinels DEF LockedInv, ListInv
<1>3. c \in Listed \ {head, tail}
  <2>1. key[head] \notin Keys /\ key[tail] \notin Keys
    BY <1>1, MaxKeyAssumption DEF Keys
  <2> QED BY <1>1, <2>1 DEF Leads
<1>4. /\ next'[p] = next[c] /\ next[c] \in Listed
      /\ \A m \in Nodes \ {p} : next'[m] = next[m]
  BY <1>1, <1>2, <1>3 DEF Leads
<1>5. Listed' = Listed \ {c}
  <2>1. Listed' = ListedBy(next')
    BY ListedNow
  <2>2. PICK nx : nx = next'
    OBVIOUS
  <2>3. /\ nx[p] = next[next[p]] /\ next[p] # tail
        /\ \A m \in ListedBy(next) \ {p, tail} : nx[m] = next[m]
    BY <1>1, <1>3, <1>4, <2>2
  <2>4. p \in ListedBy(next) \ {tail} /\ Leads(next, key, ListedBy(next))
    BY <1>1
  <2>5. ListedBy(nx) = ListedBy(next) \ {next[p]}
    BY ONLY <1>2, <2>3, <2>4, ListedRemove
  <2> QED BY <1>1, <2>1, <2>2, <2>5
<1>6. Known' = IF program = "optimistic" THEN Known ELSE Known \ {c}
  <2>1. CASE program = "optimistic"
    <3>1. \A m \in Nodes : next'[m] # Null <=> next[m] # Null
      BY <1>1, <1>2, <1>4 DEF Leads
    <3> QED BY <2>1, <3>1 DEF Known
  <2>2. CASE program # "optimistic"
    BY <1>5, <2>2 DEF Known
  <2> QED BY <2>1, <2>2
<1>7. key[c] \in members
  BY <1>3, ListedIsMember
<1>8. members' = members \ {key[c]}
  <2>1. \A m \in Listed : key[m] = key[c] => m = c
    BY <1>3, ListFacts
  <2> QED BY <1>3, <1>5, <2>1 DEF members
<1>9. \A m \in Listed' : m \in Known'
  BY <1>1, <1>5, <1>6
<1>10. key[p] < key[c] /\ key[c] < key[next[c]] /\ key[p] < key[next[c]]
  <2>1. key[p] \in Nat /\ key[c] \in Nat /\ key[next[c]] \in Nat
    BY <1>1, <1>2, <1>3, <1>4
  <2>2. key[p] < key[c] /\ key[c] < key[next[c]]
    BY <1>1, <1>3 DEF Leads
  <2> QED BY <2>1, <2>2
<1>11. Leads(next, key, Known)'
  <2>1. CASE program = "optimistic"
    <3>1. \A m \in Known \ {tail} : next'[m] \in Known /\ key[m] < key[next'[m]]
      BY <1>1, <1>4, <1>10 DEF Leads
    <3> QED BY <1>1, <1>6, <2>1, <3>1 DEF Leads
  <2>2. CASE program # "optimistic"
    <3>1. Leads(next, key, Listed)'
      <4>1. PICK nx : nx = next'
        OBVIOUS
      <4>2. /\ nx[p] = next[next[p]] /\ next[p] # tail
            /\ \A m \in ListedBy(next) \ {p, tail} : nx[m] = next[m]
        BY <1>1, <1>3, <1>4, <4>1
      <4>3. p \in ListedBy(next) \ {tail} /\ Leads(next, key, ListedBy(next))
        BY <1>1
      <4>4. Leads(nx, key, ListedBy(nx))
        BY ONLY <1>2, <4>2, <4>3, ListedRemove
      <4> QED BY <4>1, <4>4, ListedNow DEF Leads
    <3> QED BY <2>2, <3>1 DEF Known
  <2> QED BY <2>1, <2>2
<1>12. Known' \subseteq live'
  BY <1>1, <1>6
<1>13. Sorted' /\ KnownOK'
  BY <1>1, <1>11, <1>12, SortedAfter
<1> QED BY <1>3, <1>4, <1>5, <1>6, <1>7, <1>8, <1>13
-----------------------------------------------------------------------------
(* The threads.                                                             *)

MutexType == [Nodes \union {Giant} -> Threads \union {Free}]

\* What the type invariant and the mutexes are after a step.
Typed == HeapTypeOK' /\ mutex' \in MutexType /\ program' = program

LEMMA Basics ==
  ASSUME LockedInv, NEW t \in Threads
  PROVE  /\ HeapTypeOK /\ ThreadOK(t) /\ mutex \in MutexType
         /\ program \in {"coarse", "fine", "optimistic"}
         /\ local[t] \in LocalType /\ call[t] \in CallType
         /\ \A n \in Nodes \union {Null} : LockOf(n) \in Nodes \union {Giant}
BY Types DEF LockedInv, ListInv, MutexType, LockOf, Null, Giant

\* What a thread in a call knows.
LEMMA InCall ==
  ASSUME LockedInv, NEW t \in Threads, ~ At(t, "idle")
  PROVE  /\ call[t].op \in Ops /\ call[t].key \in Keys /\ call[t].key \in Nat
         /\ 0 < call[t].key /\ call[t].key < MaxKey + 1
         /\ (call[t].key \in members) \in call[t].seen
<1>1. CallOK(t) /\ HeapTypeOK /\ call[t] \in CallType
  BY Basics DEF ThreadOK
<1>2. call[t].op \in Ops
  BY <1>1 DEF CallOK, CallType
<1> QED BY <1>1, <1>2, Types DEF CallOK

\* What a thread with pointers knows of them.
LEMMA InWalk ==
  ASSUME LockedInv, NEW t \in Threads, local[t].pc \notin {"idle", "start", "free"}
  PROVE  /\ local[t].prev \in Known \ {tail} /\ local[t].prev \in Nodes
         /\ local[t].curr \in Nodes \union {Null}
         /\ key[local[t].prev] \in Nat /\ key[local[t].prev] < call[t].key
         /\ ~ call[t].changed => /\ local[t].curr \in Known /\ local[t].curr \in Nodes
                                 /\ key[local[t].curr] \in Nat
         /\ local[t].pc # "unlock" => ~ call[t].changed
<1>1. SearchOK(t) /\ CallOK(t) /\ local[t] \in LocalType
  BY Basics DEF ThreadOK
<1>2. call[t].key \in Nat /\ call[t].key < MaxKey + 1
  BY InCall DEF At
<1>3. local[t].prev \in Known /\ key[local[t].prev] < call[t].key
  BY <1>1 DEF SearchOK
<1>4. Known \subseteq Nodes /\ \A n \in Nodes : key[n] \in Nat
  BY ListFacts, Types DEF LockedInv, ListInv
<1>5. local[t].prev # tail
  BY <1>2, <1>3, MaxKeyAssumption DEF LockedInv, KnownOK
<1> QED BY <1>1, <1>3, <1>4, <1>5 DEF SearchOK, CallOK, LocalType

\* A place where prev and curr are side by side.
LEMMA InPlace ==
  ASSUME LockedInv, NEW t \in Threads, Secure(t)
  PROVE  /\ local[t].prev \in Listed \ {tail} /\ next[local[t].prev] \in Listed
         /\ HoldsPrev(t) /\ mutex[LockOf(local[t].prev)] = t
         /\ ~ call[t].changed => /\ next[local[t].prev] = local[t].curr
                                 /\ key[local[t].prev] < key[local[t].curr]
<1>1. /\ SecureOK(t) /\ LocksOK(t) /\ program \in {"coarse", "fine", "optimistic"}
  BY Basics DEF ThreadOK
<1>2. local[t].pc \notin {"idle", "start", "free"} /\ HoldsPrev(t)
  BY <1>1 DEF Secure, HoldsPrev
<1>3. local[t].prev \in Listed \ {tail}
  BY <1>1, <1>2, InWalk DEF SecureOK
<1> QED BY <1>1, <1>2, <1>3, ListFacts DEF SecureOK, LocksOK, Leads

\* Two threads do not hold the same mutex.
LEMMA Exclusive ==
  ASSUME LockedInv, NEW t \in Threads, NEW u \in Threads \ {t}, NEW n,
         mutex[LockOf(n)] = t
  PROVE  /\ HoldsPrev(u) => local[u].prev # n
         /\ HoldsCurr(u) => local[u].curr # n
<1>1. LocksOK(u)
  BY Basics DEF ThreadOK
<1> QED BY <1>1 DEF LocksOK

\* A thread that another step leaves alone, but for what its call sees.
Watches(u) == /\ local'[u] = local[u]
              /\ call'[u].op = call[u].op /\ call'[u].key = call[u].key
              /\ call'[u].changed = call[u].changed
              /\ call[u].seen \subseteq call'[u].seen
              /\ call[u].op \in Ops => (call[u].key \in members') \in call'[u].seen
              /\ \A n \in Nodes \union {Giant} : mutex[n] = u => mutex'[n] = u

LEMMA OwnSame ==
  ASSUME NEW u, local'[u].node = local[u].node, program' = program,
         call'[u].op = call[u].op, call'[u].changed = call[u].changed,
         call[u].changed => local'[u].curr = local[u].curr
  PROVE  Own(u)' = Own(u)
BY DEF Own

LEMMA OtherKeeps ==
  ASSUME LockedInv, NEW u \in Threads, Watches(u), program' = program,
         Own(u) \subseteq live' \ Known',
         \A n \in live : key'[n] = key[n],
         \A n \in {local[u].prev, local[u].curr, local[u].node, local[u].it} :
            n \in Known => n \in Known',
         Secure(u) => /\ local[u].prev \in Listed'
                      /\ next'[local[u].prev] = next[local[u].prev],
         ValidateOK(u)'
  PROVE  ThreadOK(u)' /\ Own(u)' = Own(u)
<1>1. /\ OwnOK(u) /\ CallOK(u) /\ LocksOK(u) /\ PointersOK(u) /\ SearchOK(u) /\ SecureOK(u)
      /\ local[u] \in LocalType /\ Known \subseteq live /\ Heap \subseteq Nodes
      /\ \A n \in Nodes \union {Null} : LockOf(n) \in Nodes \union {Giant}
  BY Basics, ListFacts, Sentinels DEF ThreadOK
<1>2. /\ local'[u] = local[u] /\ call'[u].op = call[u].op /\ call'[u].key = call[u].key
      /\ call'[u].changed = call[u].changed /\ call[u].seen \subseteq call'[u].seen
      /\ \A place : At(u, place)' = At(u, place)
  BY DEF Watches, At
<1>3. Own(u)' = Own(u)
  BY <1>2, OwnSame
<1>4. OwnOK(u)'
  <2>1. call[u].op = "add" /\ ~ call[u].changed => local[u].node \in live
    BY <1>1 DEF OwnOK, Own
  <2> QED BY <1>1, <1>2, <1>3, <2>1 DEF OwnOK
<1>5. CallOK(u)'
  <2>1. ASSUME At(u, "unlock") PROVE MayAnswer(call'[u], local[u].ret, FALSE)
    <3>1. MayAnswer(call[u], local[u].ret, FALSE) /\ local[u].ret \in BOOLEAN
      BY <1>1, <2>1 DEF CallOK, LocalType
    <3>2. call[u].op \in Ops
      BY <2>1, InCall DEF At
    <3>3. /\ call'[u].op = call[u].op /\ call'[u].changed = call[u].changed
          /\ call[u].seen \subseteq call'[u].seen
      BY <1>2
    <3>4. PICK c, d, a : a \in BOOLEAN /\ c = call[u] /\ d = call'[u] /\ a = local[u].ret
      BY <3>1
    <3>5. c.op \in Ops /\ d.op = c.op /\ d.changed = c.changed /\ c.seen \subseteq d.seen
      BY <3>2, <3>3, <3>4
    <3>6. MayAnswer(c, a, FALSE)
      BY <3>1, <3>4
    <3>7. MayAnswer(d, a, FALSE)
      <4>1. CASE c.op = "contains"
        BY <3>5, <3>6, <4>1 DEF MayAnswer
      <4>2. CASE c.op = "add"
        <5>1. (a = c.changed) /\ (a \/ TRUE \in c.seen)
          BY <3>6, <4>2 DEF MayAnswer
        <5>2. (a = d.changed) /\ (a \/ TRUE \in d.seen)
          BY <3>5, <5>1
        <5> QED BY <3>5, <4>2, <5>2 DEF MayAnswer
      <4>3. CASE c.op = "remove"
        <5>1. (a = c.changed) /\ (a \/ FALSE \in c.seen)
          BY <3>6, <4>3 DEF MayAnswer
        <5>2. (a = d.changed) /\ (a \/ FALSE \in d.seen)
          BY <3>5, <5>1
        <5> QED BY <3>5, <4>3, <5>2 DEF MayAnswer
      <4> QED BY <3>5, <4>1, <4>2, <4>3 DEF Ops
    <3> QED BY <3>4, <3>7
  <2> QED BY <1>1, <1>2, <2>1 DEF CallOK, Watches
<1>6. LocksOK(u)'
  <2>1. /\ HoldsPrev(u)' = HoldsPrev(u) /\ HoldsCurr(u)' = HoldsCurr(u)
        /\ \A n : LockOf(n)' = LockOf(n)
    BY <1>2 DEF HoldsPrev, HoldsCurr, LockOf
  <2>2. LockOf(local[u].prev) \in Nodes \union {Giant}
    BY <1>1 DEF LocalType
  <2>3. LockOf(local[u].curr) \in Nodes \union {Giant}
    BY <1>1 DEF LocalType
  <2> QED BY <1>1, <1>2, <2>1, <2>2, <2>3 DEF LocksOK, Watches
<1>7. PointersOK(u)'
  BY <1>1, <1>2, <1>3 DEF PointersOK
<1>8. SearchOK(u)'
  <2>1. local[u].pc \in {"lockcurr", "validate", "apply"} => ~ call[u].changed
    BY <1>1 DEF CallOK
  <2> QED BY <1>1, <1>2, <2>1 DEF SearchOK
<1>9. SecureOK(u)'
  <2>1. Secure(u)' = Secure(u)
    BY <1>2 DEF Secure
  <2> QED BY <1>1, <1>2, <2>1 DEF SecureOK
<1> QED BY <1>3, <1>4, <1>5, <1>6, <1>7, <1>8, <1>9 DEF ThreadOK

\* A step of thread t, from what it does to the list, to t and to the others.
LEMMA StepKeeps ==
  ASSUME LockedInv, Typed, NEW t \in Threads, Sorted', KnownOK', ThreadOK(t)',
         Own(t)' \subseteq Own(t) \union Known \union (Nodes \ live),
         \A u \in Threads \ {t} : ThreadOK(u)' /\ Own(u)' = Own(u)
  PROVE  LockedInv'
<1>1. ListInv'
  BY Basics DEF Typed, ListInv, MutexType
<1>2. OwnApart'
  <2>1. ASSUME NEW u \in Threads \ {t} PROVE Own(t)' \intersect Own(u)' = {}
    <3>1. Own(t) \intersect Own(u) = {}
      BY DEF LockedInv, OwnApart
    <3>2. Own(u) \subseteq live \ Known
      BY Basics DEF ThreadOK, OwnOK
    <3> QED BY <3>1, <3>2
  <2>2. ASSUME NEW u \in Threads \ {t}, NEW w \in Threads \ {t}, u # w
        PROVE  Own(u)' \intersect Own(w)' = {}
    BY <2>2 DEF LockedInv, OwnApart
  <2> QED BY <2>1, <2>2 DEF OwnApart
<1> QED BY <1>1, <1>2 DEF LockedInv

\* A step of thread t that leaves the list and the other calls alone.
Alone(t) == \A u \in Threads \ {t} :
                /\ local'[u] = local[u] /\ call'[u] = call[u]
                /\ \A n \in Nodes \union {Giant} : mutex[n] = u => mutex'[n] = u

LEMMA QuietStep ==
  ASSUME LockedInv, Typed, NEW t \in Threads, Same, Alone(t), live \ Own(t) \subseteq live',
         ThreadOK(t)', Own(t)' \subseteq Own(t) \union (Nodes \ live)
  PROVE  LockedInv' /\ members' = members
<1>1. Listed' = Listed /\ Known' = Known /\ members' = members /\ Sorted' /\ KnownOK'
  BY SameList DEF Typed
<1>2. ASSUME NEW u \in Threads \ {t} PROVE ThreadOK(u)' /\ Own(u)' = Own(u)
  <2>1. OwnOK(u) /\ CallOK(u) /\ ValidateOK(u)
    BY Basics DEF ThreadOK
  <2>2. Watches(u)
    BY <1>1, <2>1 DEF Alone, Watches, CallOK
  <2>3. Own(u) \subseteq live' \ Known'
    <3>1. Own(u) \intersect Own(t) = {}
      BY DEF LockedInv, OwnApart
    <3> QED BY <1>1, <2>1, <3>1 DEF OwnOK
  <2>4. ValidateOK(u)'
    <3> SUFFICES ASSUME At(u, "validate") PROVE ValidateOK(u)'
      BY DEF ValidateOK, At, Alone
    <3>1. \/ local[u].prev \in Listed
          \/ \E S \in SUBSET Known : /\ local[u].it \in S /\ local[u].prev \notin S
                                     /\ \A n \in S \ {tail} : next[n] \in S
      BY <2>1 DEF ValidateOK
    <3> QED BY <1>1, <2>1, <3>1 DEF ValidateOK, Alone, Same
  <2>5. Secure(u) => local[u].prev \in Listed'
    BY <1>1, Basics DEF ThreadOK, SecureOK
  <2> QED BY <1>1, <2>2, <2>3, <2>4, <2>5, OtherKeeps DEF Same
<1> QED BY <1>1, <1>2, StepKeeps

\* A step that changes nothing but where thread t is, and its mutexes.
Moves(t) == /\ UNCHANGED <<heap, works, call, program>> /\ Alone(t)
            /\ local'[t].node = local[t].node
            /\ call[t].changed => local'[t].curr = local[t].curr

LEMMA MovesFacts ==
  ASSUME LockedInv, Typed, NEW t \in Threads, Moves(t)
  PROVE  /\ Same /\ Listed' = Listed /\ Known' = Known /\ members' = members
         /\ Own(t)' = Own(t) /\ OwnOK(t)' /\ call'[t] = call[t] /\ key' = key /\ next' = next
         /\ live' = live /\ program' = program
<1>1. key' = key /\ next' = next /\ live' = live /\ call' = call /\ program' = program
  BY DEF Moves, heap
<1>2. Same
  BY <1>1, ListFacts DEF Same
<1>3. Listed' = Listed /\ Known' = Known /\ members' = members
  BY <1>2, SameList DEF Typed
<1>4. Own(t)' = Own(t)
  BY <1>1, OwnSame DEF Moves
<1>5. OwnOK(t)'
  BY <1>1, <1>3, <1>4, Basics DEF ThreadOK, OwnOK, Moves
<1> QED BY <1>1, <1>2, <1>3, <1>4, <1>5

LEMMA MovesStep ==
  ASSUME LockedInv, Typed, NEW t \in Threads, Moves(t),
         CallOK(t)', LocksOK(t)', PointersOK(t)', SearchOK(t)', SecureOK(t)', ValidateOK(t)'
  PROVE  LockedInv' /\ members' = members /\ call' = call
<1>1. Same /\ Own(t)' = Own(t) /\ OwnOK(t)' /\ live' = live
  BY MovesFacts
<1>2. ThreadOK(t)'
  BY <1>1 DEF ThreadOK
<1> QED BY <1>1, <1>2, QuietStep DEF Moves
-----------------------------------------------------------------------------
(* Types and mutexes of a step.                                             *)

\* Where the thread is going to add, to remove or to answer.
Applies(t) == \/ program \in {"coarse", "fine"} /\ At(t, "walk") /\ ~ Before(t)
              \/ program = "optimistic" /\ At(t, "apply")

Starts(t) == \/ program = "coarse" /\ CoarseStart(t)
             \/ program = "fine" /\ FineStart(t)
             \/ program = "optimistic" /\ OptimisticStart(t)

Walks(t) == \/ program \in {"coarse", "optimistic"} /\ Walk(t)
            \/ program = "fine" /\ FineWalk(t)

Locks(t) == \/ program = "fine" /\ FineLockCurr(t)
            \/ program = "optimistic" /\ (LockPrev(t) \/ LockCurr(t))

Validates(t) == program = "optimistic" /\ (ValidateWalk(t) \/ Validate(t) \/ ValidateFails(t))

Retries(t) == program = "optimistic" /\ Retry(t)

Unlocks(t) == \/ program = "coarse" /\ CoarseUnlock(t)
              \/ program = "fine" /\ FineUnlock(t)
              \/ program = "optimistic" /\ OptimisticUnlock(t)

\* The steps of the three programs, by what they do.
LEMMA StepCases ==
  ASSUME LockedInv, NEW t \in Threads, Step(t)
  PROVE  /\ program' = program
         /\ \/ Begin(t, members) /\ UNCHANGED mutex
            \/ Starts(t) \/ Walks(t) \/ Locks(t) \/ Validates(t) \/ Retries(t)
            \/ Applies(t) /\ (Add(t) \/ Remove(t) \/ Contains(t))
            \/ Unlocks(t)
            \/ program # "optimistic" /\ FreeRemoved(t)
<1>1. CASE program = "coarse" /\ CoarseStep(t)
  BY <1>1 DEF Step, CoarseStep, CoarseAdd, CoarseRemove, CoarseContains, Starts, Walks,
              Applies, Unlocks
<1>2. CASE program = "fine" /\ FineStep(t)
  BY <1>2 DEF Step, FineStep, FineAdd, FineRemove, FineContains, Starts, Walks, Locks,
              Applies, Unlocks
<1>3. CASE program = "optimistic" /\ OptimisticStep(t)
  BY <1>3 DEF Step, OptimisticStep, OptimisticAdd, OptimisticRemove, OptimisticContains,
              Starts, Walks, Locks, Validates, Retries, Applies, Unlocks
<1> QED BY <1>1, <1>2, <1>3 DEF Step

\* A thread takes a mutex that is free, and gives back what it holds.
LEMMA MutexStep ==
  ASSUME LockedInv, NEW t \in Threads, Step(t)
  PROVE  /\ mutex' \in MutexType
         /\ \A u \in Threads \ {t} :
              \A n \in Nodes \union {Giant} : mutex[n] = u => mutex'[n] = u
<1>1. /\ mutex \in MutexType /\ LocksOK(t) /\ local[t] \in LocalType
      /\ program \in {"coarse", "fine", "optimistic"}
  BY Basics DEF ThreadOK
<1>2. \/ UNCHANGED mutex
      \/ \E n \in Nodes \union {Giant} : Acquire(t, n)
      \/ \E S : Release(S) /\ \A n \in S : mutex[n] = t
  <2>1. CASE Starts(t)
    BY <2>1, Sentinels DEF Starts, CoarseStart, FineStart, OptimisticStart
  <2>2. CASE Locks(t)
    <3>1. local[t].pc \in {"walk", "lockcurr"} /\ local[t].pc \notin {"idle", "start", "free"}
      BY <2>2 DEF Locks, FineLockCurr, LockPrev, LockCurr, At
    <3>2. local[t].prev \in Nodes /\ local[t].curr \in Nodes
      BY <3>1, InWalk
    <3> QED BY <2>2, <3>2 DEF Locks, FineLockCurr, LockPrev, LockCurr
  <2>3. CASE Walks(t)
    <3>1. CASE program = "fine" /\ FineWalk(t)
      <4>1. mutex[local[t].prev] = t
        BY <1>1, <3>1 DEF LocksOK, HoldsPrev, LockOf, FineWalk, At
      <4> QED BY <3>1, <4>1 DEF FineWalk
    <3> QED BY <2>3, <3>1 DEF Walks, Walk
  <2>4. CASE Retries(t) \/ Unlocks(t)
    <3>1. local[t].pc \in {"invalid", "unlock"} /\ (program # "optimistic" => At(t, "unlock"))
      BY <2>4 DEF Retries, Retry, Unlocks, CoarseUnlock, FineUnlock, UnlockAndFree,
                  OptimisticUnlock, At
    <3>2. mutex[LockOf(local[t].prev)] = t /\ mutex[LockOf(local[t].curr)] = t
      BY <1>1, <3>1 DEF LocksOK, HoldsPrev, HoldsCurr, At
    <3> QED BY <2>4, <3>2 DEF Retries, Retry, Unlocks, CoarseUnlock, FineUnlock, UnlockAndFree,
                              OptimisticUnlock, LockOf
  <2>5. CASE \/ Begin(t, members) /\ UNCHANGED mutex
             \/ Validates(t) \/ Add(t) \/ Remove(t) \/ Contains(t) \/ FreeRemoved(t)
    BY <2>5 DEF Validates, ValidateWalk, Validate, ValidateFails, Add, Remove, Contains, Link,
                Unlink, Answer, FreeRemoved
  <2> QED BY <2>1, <2>2, <2>3, <2>4, <2>5, StepCases
<1>3. CASE UNCHANGED mutex
  BY <1>1, <1>3
<1>4. CASE \E n \in Nodes \union {Giant} : Acquire(t, n)
  <2>1. PICK n \in Nodes \union {Giant} : mutex[n] = Free /\ mutex' = [mutex EXCEPT ![n] = t]
    BY <1>4 DEF Acquire
  <2> QED BY <1>1, <2>1, FreeAssumption DEF MutexType
<1>5. CASE \E S : Release(S) /\ \A n \in S : mutex[n] = t
  <2>1. PICK S : Release(S) /\ \A n \in S : mutex[n] = t
    BY <1>5
  <2>2. mutex' = [n \in Nodes \union {Giant} |-> IF n \in S THEN Free ELSE mutex[n]]
    BY <1>1, <2>1 DEF Release, MutexType
  <2> QED BY <1>1, <2>1, <2>2 DEF MutexType
<1> QED BY <1>2, <1>3, <1>4, <1>5

\* What an assignment to the locals of one thread does.
LEMMA LocalStep ==
  ASSUME HeapTypeOK, NEW t \in Threads, NEW r \in LocalType, local' = [local EXCEPT ![t] = r]
  PROVE  /\ local'[t] = r /\ \A u \in Threads \ {t} : local'[u] = local[u]
         /\ local' \in [Threads -> LocalType]
BY DEF HeapTypeOK, LocalType

LEMMA TypeStep ==
  ASSUME LockedInv, NEW t \in Threads, Step(t)
  PROVE  Typed
<1>1. /\ HeapTypeOK /\ local[t] \in LocalType /\ call[t] \in CallType
      /\ \A n \in Nodes : next[n] \in Nodes \union {Null}
      /\ head \in Nodes /\ Heap \subseteq Nodes
      /\ local[t].pc \notin {"idle", "start", "free", "unlock"} =>
           local[t].prev \in Nodes /\ local[t].curr \in Nodes
      /\ call[t].op = "add" => local[t].node \in Heap
  BY Basics, Types, InWalk, Sentinels DEF ThreadOK, OwnOK
<1>2. /\ key \in [Nodes -> 0 .. MaxKey + 1] /\ next \in [Nodes -> Nodes \union {Null}]
      /\ live \subseteq Nodes /\ local \in [Threads -> LocalType]
      /\ works \in [Threads -> 0 .. NumWork] /\ call \in [Threads -> CallType]
  BY <1>1 DEF HeapTypeOK, LocalType, CallType
<1>3. SUFFICES /\ key' \in [Nodes -> 0 .. MaxKey + 1]
               /\ next' \in [Nodes -> Nodes \union {Null}] /\ live' \subseteq Nodes
               /\ local' \in [Threads -> LocalType]
               /\ works' \in [Threads -> 0 .. NumWork] /\ call' \in [Threads -> CallType]
  BY StepCases, MutexStep DEF Typed, HeapTypeOK, LocalType, CallType
<1>4. CASE Begin(t, members) /\ UNCHANGED mutex
  <2>1. works' \in [Threads -> 0 .. NumWork]
    BY <1>2, <1>4, NumWorkAssumption DEF Begin
  <2>2. PICK op \in Ops, x \in Keys :
          /\ call' = [call EXCEPT ![t] = Began(op, x, x \in members)]
          /\ IF op = "add" THEN Malloc(t, x)
             ELSE Goto(t, "start") /\ UNCHANGED <<key, live>>
    BY <1>4 DEF Begin
  <2>3. x \in 0 .. MaxKey /\ x \in 0 .. MaxKey + 1
    BY MaxKeyAssumption DEF Keys
  <2>4. call' \in [Threads -> CallType]
    <3>1. PICK b : b = (x \in members)
      OBVIOUS
    <3>2. b \in BOOLEAN
      BY <3>1
    <3>3. Began(op, x, b) \in CallType
      BY <2>3, <3>2 DEF Began, CallType
    <3>4. call' = [call EXCEPT ![t] = Began(op, x, b)]
      BY <2>2, <3>1
    <3> QED BY <1>2, <3>3, <3>4
  <2>5. CASE op = "add"
    <3>1. PICK n \in Heap \ live :
            /\ live' = live \union {n} /\ key' = [key EXCEPT ![n] = x]
            /\ local' = [local EXCEPT ![t].pc = "start", ![t].node = n]
      BY <2>2, <2>5 DEF Malloc
    <3>2. n \in Nodes
      BY Sentinels
    <3>3. local' \in [Threads -> LocalType]
      BY <1>1, <1>2, <3>1 DEF LocalType, Places
    <3>4. key' \in [Nodes -> 0 .. MaxKey + 1] /\ live' \subseteq Nodes
      BY <1>2, <2>3, <3>1, <3>2
    <3> QED BY <1>2, <1>4, <2>1, <2>4, <3>3, <3>4 DEF Begin
  <2>6. CASE op # "add"
    <3>1. local' = [local EXCEPT ![t].pc = "start"] /\ UNCHANGED <<key, live>>
      BY <2>2, <2>6 DEF Goto
    <3>2. local' \in [Threads -> LocalType]
      BY <1>1, <1>2, <3>1 DEF LocalType, Places
    <3> QED BY <1>2, <1>4, <2>1, <2>4, <3>1, <3>2 DEF Begin
  <2> QED BY <2>5, <2>6
<1>5. CASE Starts(t) \/ Walks(t) \/ Locks(t) \/ Validates(t) \/ Retries(t)
  <2>1. UNCHANGED <<heap, works, call>>
    BY <1>5 DEF Starts, CoarseStart, FineStart, OptimisticStart, Walks, Walk, FineWalk, Locks,
                FineLockCurr, LockPrev, LockCurr, Validates, ValidateWalk, Validate,
                ValidateFails, Retries, Retry
  <2>2. local' \in [Threads -> LocalType]
    <3>1. CASE Starts(t)
      BY <1>1, <1>2, <3>1 DEF Starts, CoarseStart, FineStart, OptimisticStart, LocalType,
                              Places
    <3>2. CASE Walks(t)
      <4>1. At(t, "walk") /\ local[t].curr \in Nodes
        BY <1>1, <3>2 DEF Walks, Walk, FineWalk, At
      <4> QED BY <1>1, <1>2, <3>2, <4>1 DEF Walks, Walk, FineWalk, LocalType, Places
    <3>3. CASE \E place \in Places : Goto(t, place)
      BY <1>1, <1>2, <3>3 DEF Goto, LocalType
    <3>4. CASE LockCurr(t)
      BY <1>1, <1>2, <3>4 DEF LockCurr, LocalType, Places
    <3>5. CASE Validates(t) /\ ValidateWalk(t)
      <4>1. ValidateOK(t) /\ At(t, "validate") /\ Known \subseteq Nodes
        BY <3>5, Basics, ListFacts DEF ValidateWalk, ThreadOK
      <4>2. local[t].it \in Nodes
        BY <4>1 DEF ValidateOK
      <4> QED BY <1>1, <1>2, <3>5, <4>2 DEF ValidateWalk, LocalType
    <3>6. /\ \/ Locks(t) /\ ~ LockCurr(t)
             \/ Validates(t) /\ ~ ValidateWalk(t)
             \/ Retries(t)
          => \E place \in Places : Goto(t, place)
      BY DEF Locks, FineLockCurr, LockPrev, Validates, Validate, ValidateFails, Retries, Retry,
             Places
    <3> QED BY <1>5, <3>1, <3>2, <3>3, <3>4, <3>5, <3>6
  <2> QED BY <1>2, <2>1, <2>2 DEF heap
<1>6. CASE Applies(t) /\ (Add(t) \/ Remove(t) \/ Contains(t))
  <2>1. local[t].prev \in Nodes /\ local[t].curr \in Nodes
    BY <1>1, <1>6 DEF Applies, At
  <2>2. ASSUME NEW answer \in BOOLEAN,
               local' = [local EXCEPT ![t].pc = "unlock", ![t].ret = answer]
        PROVE  local' \in [Threads -> LocalType]
    BY <1>1, <1>2, <2>2 DEF LocalType, Places
  <2>3. CASE call[t].op = "add" /\ Link(t)
    <3>1. next' \in [Nodes -> Nodes \union {Null}] /\ UNCHANGED <<key, live, works>>
      BY <1>1, <1>2, <2>1, <2>3 DEF Link
    <3>2. local' \in [Threads -> LocalType]
      BY <2>2, <2>3 DEF Link
    <3>3. call' \in [Threads -> CallType]
      BY <1>1, <2>3, NoticedFacts DEF Link
    <3> QED BY <1>2, <3>1, <3>2, <3>3
  <2>4. CASE Unlink(t)
    <3>1. next' \in [Nodes -> Nodes \union {Null}] /\ UNCHANGED <<key, live, works>>
      BY <1>1, <1>2, <2>1, <2>4 DEF Unlink
    <3>2. local' \in [Threads -> LocalType]
      BY <2>2, <2>4 DEF Unlink
    <3>3. call' \in [Threads -> CallType]
      BY <1>1, <2>4, NoticedFacts DEF Unlink
    <3> QED BY <1>2, <3>1, <3>2, <3>3
  <2>5. CASE \E answer \in BOOLEAN : Answer(t, answer)
    <3>1. PICK answer \in BOOLEAN : Answer(t, answer)
      BY <2>5
    <3>2. local' \in [Threads -> LocalType]
      BY <2>2, <3>1 DEF Answer
    <3> QED BY <1>2, <3>1, <3>2 DEF Answer, heap
  <2>6. Contains(t) => \E answer \in BOOLEAN : Answer(t, answer)
    <3>1. PICK b : b = Found(t)
      OBVIOUS
    <3>2. b \in BOOLEAN
      BY <3>1 DEF Found
    <3>3. Contains(t) => Answer(t, b)
      BY <3>1 DEF Contains
    <3> QED BY <3>2, <3>3
  <2> QED BY <1>6, <2>3, <2>4, <2>5, <2>6 DEF Add, Remove
<1>7. CASE Unlocks(t) \/ FreeRemoved(t)
  <2>1. /\ UNCHANGED <<key, next, works>> /\ live' \subseteq live
        /\ \/ local' = [local EXCEPT ![t].pc = "free", ![t].prev = Null] /\ UNCHANGED call
           \/ \E answer \in BOOLEAN : Return(t, answer)
    <3>1. local[t].ret \in BOOLEAN
      BY <1>1 DEF LocalType
    <3> QED BY <1>7, <3>1 DEF Unlocks, CoarseUnlock, FineUnlock, UnlockAndFree,
                              OptimisticUnlock, FreeRemoved, heap
  <2>2. CASE local' = [local EXCEPT ![t].pc = "free", ![t].prev = Null] /\ UNCHANGED call
    <3>1. local' \in [Threads -> LocalType]
      BY <1>1, <1>2, <2>2 DEF LocalType, Places
    <3> QED BY <1>2, <2>1, <2>2, <3>1
  <2>3. CASE \E answer \in BOOLEAN : Return(t, answer)
    <3>1. PICK answer \in BOOLEAN : Return(t, answer)
      BY <2>3
    <3>2. Idle \in LocalType /\ Returned(answer) \in CallType
      BY MaxKeyAssumption DEF Idle, LocalType, Places, Returned, CallType
    <3>3. local' \in [Threads -> LocalType] /\ call' \in [Threads -> CallType]
      BY <1>2, <3>1, <3>2 DEF Return
    <3> QED BY <1>2, <2>1, <3>3
  <2> QED BY <2>1, <2>2, <2>3
<1> QED BY <1>4, <1>5, <1>6, <1>7, StepCases

-----------------------------------------------------------------------------
(* The steps of a walk.                                                     *)

\* A step that reads the list only.
LEMMA ReadsOnly ==
  ASSUME LockedInv, NEW t \in Threads, Step(t),
         \/ Starts(t) \/ Walks(t) \/ Locks(t) \/ Validates(t) \/ Retries(t)
         \/ Applies(t) /\ \E answer \in BOOLEAN : Answer(t, answer)
  PROVE  /\ Typed /\ Moves(t) /\ ~ call[t].changed
         /\ local[t].pc \notin {"idle", "unlock", "free"}
<1>1. /\ HeapTypeOK /\ local \in [Threads -> LocalType] /\ CallOK(t)
  BY Basics, Types DEF ThreadOK
<1>2. Typed /\ program' = program
  BY TypeStep DEF Typed
<1>3. UNCHANGED <<heap, works, call>> /\ local[t].pc \notin {"idle", "unlock", "free"}
  BY DEF Starts, CoarseStart, FineStart, OptimisticStart, Walks, Walk, FineWalk, Locks,
         FineLockCurr, LockPrev, LockCurr, Validates, ValidateWalk, Validate,
         ValidateFails, Retries, Retry, Applies, Answer, At
<1>4. ~ call[t].changed
  BY <1>1, <1>3 DEF CallOK
<1>5. /\ local'[t].node = local[t].node /\ \A u \in Threads \ {t} : local'[u] = local[u]
  <2>1. CASE Starts(t) \/ Walks(t)
    BY <1>1, <2>1 DEF Starts, CoarseStart, FineStart, OptimisticStart, Walks, Walk, FineWalk,
                      LocalType
  <2>2. CASE Locks(t) \/ Validates(t) \/ Retries(t)
    BY <1>1, <2>2 DEF Locks, FineLockCurr, LockPrev, LockCurr, Validates, ValidateWalk,
                      Validate, ValidateFails, Retries, Retry, Goto, LocalType
  <2>3. CASE \E answer \in BOOLEAN : Answer(t, answer)
    BY <1>1, <2>3 DEF Answer, LocalType
  <2> QED BY <2>1, <2>2, <2>3
<1>6. \A u \in Threads \ {t} : call'[u] = call[u]
  BY <1>3
<1> QED BY <1>2, <1>3, <1>4, <1>5, <1>6, MutexStep DEF Moves, Alone

\* A step of a walk that goes to prev' and curr'.
LEMMA WalkStep ==
  ASSUME LockedInv, Typed, NEW t \in Threads, Moves(t),
         local[t].pc \notin {"idle", "unlock", "free"}, ~ call[t].changed,
         local'[t].pc \in PlacesOf(program) \ {"idle", "start", "unlock", "free"},
         local'[t].prev \in Known, key[local'[t].prev] < call[t].key,
         local'[t].curr \in Known, local'[t].it \in Known \union {local[t].it},
         program # "optimistic" => local'[t].it = local[t].it,
         program = "optimistic" /\ local'[t].pc \in {"lockcurr", "validate", "apply"} =>
            key[local'[t].curr] >= call[t].key,
         Secure(t)' => local'[t].prev \in Listed /\ next[local'[t].prev] = local'[t].curr,
         LocksOK(t)', ValidateOK(t)'
  PROVE  LockedInv' /\ members' = members /\ call' = call
<1>1. /\ CallOK(t) /\ PointersOK(t)
  BY Basics DEF ThreadOK
<1>2. /\ Listed' = Listed /\ Known' = Known /\ members' = members /\ Own(t)' = Own(t)
      /\ call'[t] = call[t] /\ key' = key /\ next' = next /\ program' = program
  BY MovesFacts
<1>3. CallOK(t)'
  BY <1>1, <1>2 DEF CallOK, At
<1>4. PointersOK(t)'
  BY <1>1, <1>2 DEF PointersOK, Moves
<1>5. SearchOK(t)'
  BY <1>2 DEF SearchOK
<1>6. SecureOK(t)'
  BY <1>2 DEF SecureOK
<1> QED BY <1>3, <1>4, <1>5, <1>6, MovesStep

LEMMA StartStep ==
  ASSUME LockedInv, NEW t \in Threads, Step(t), Starts(t)
  PROVE  LockedInv' /\ members' = members /\ call' = call
<1>1. /\ HeapTypeOK /\ local \in [Threads -> LocalType] /\ mutex \in MutexType
      /\ PointersOK(t) /\ program \in {"coarse", "fine", "optimistic"}
  BY Basics, Types DEF ThreadOK
<1>2. /\ Typed /\ Moves(t) /\ ~ call[t].changed
      /\ local[t].pc \notin {"idle", "unlock", "free"}
  BY ReadsOnly
<1>3. /\ local'[t].pc = (IF program = "fine" THEN "lockcurr" ELSE "walk")
      /\ local'[t].prev = head /\ local'[t].curr = next[head] /\ local'[t].it = local[t].it
  BY <1>1 DEF Starts, CoarseStart, FineStart, OptimisticStart, LocalType
<1>4. /\ head \in Listed /\ next[head] \in Listed /\ Listed \subseteq Known /\ head # tail
      /\ key[head] = 0
  BY ListFacts, Sentinels DEF Leads, LockedInv, KnownOK
<1>5. 0 < call[t].key
  BY <1>2, InCall DEF At
<1>6. /\ program = "coarse" => mutex'[Giant] = t
      /\ program = "fine" => mutex'[head] = t
  BY <1>1, Sentinels DEF Starts, CoarseStart, FineStart, Acquire, MutexType
<1>7. LocksOK(t)' /\ ValidateOK(t)'
  BY <1>1, <1>2, <1>3, <1>6 DEF LocksOK, HoldsPrev, HoldsCurr, LockOf, ValidateOK, At, Moves
<1>8. local'[t].pc \in PlacesOf(program)
  BY <1>1, <1>3 DEF PlacesOf
<1> QED BY <1>2, <1>3, <1>4, <1>5, <1>7, <1>8, WalkStep

LEMMA WalksStep ==
  ASSUME LockedInv, NEW t \in Threads, Step(t), Walks(t)
  PROVE  LockedInv' /\ members' = members /\ call' = call
<1>1. /\ HeapTypeOK /\ local \in [Threads -> LocalType] /\ mutex \in MutexType
      /\ LocksOK(t) /\ program \in {"coarse", "fine", "optimistic"} /\ At(t, "walk")
      /\ Before(t)
  BY Basics, Types DEF ThreadOK, Walks, Walk, FineWalk
<1>2. /\ Typed /\ Moves(t) /\ ~ call[t].changed
      /\ local[t].pc \notin {"idle", "unlock", "free"}
  BY ReadsOnly
<1>3. /\ local'[t].pc = (IF program = "fine" THEN "lockcurr" ELSE "walk")
      /\ local'[t].prev = local[t].curr /\ local'[t].curr = next[local[t].curr]
      /\ local'[t].it = local[t].it
  BY <1>1 DEF Walks, Walk, FineWalk, LocalType, At
<1>4. /\ local[t].curr \in Known \ {tail} /\ local[t].curr \in Nodes /\ local[t].prev \in Nodes
      /\ key[local[t].curr] < call[t].key
  <2>1. call[t].key \in Nat /\ call[t].key < MaxKey + 1 /\ key[tail] = MaxKey + 1
    BY <1>2, InCall DEF At, LockedInv, KnownOK
  <2>2. key[local[t].curr] < call[t].key
    BY <1>1 DEF Before
  <2>3. local[t].curr # tail
    BY <2>1, <2>2, MaxKeyAssumption
  <2> QED BY <1>1, <1>2, <2>2, <2>3, InWalk DEF At
<1>5. next[local[t].curr] \in Known
  BY <1>4 DEF LockedInv, KnownOK, Leads
<1>6. program # "optimistic" => local[t].curr \in Listed /\ local[t].curr # local[t].prev
  <2> SUFFICES ASSUME program # "optimistic"
               PROVE  local[t].curr \in Listed /\ local[t].curr # local[t].prev
    OBVIOUS
  <2>1. Secure(t)
    BY <1>1 DEF Secure, At
  <2>2. /\ next[local[t].prev] = local[t].curr /\ next[local[t].prev] \in Listed
        /\ key[local[t].prev] < key[local[t].curr]
    BY <1>2, <2>1, InPlace
  <2> QED BY <1>4, <2>2, Types DEF LockedInv, ListInv
<1>7. /\ program = "coarse" => mutex'[Giant] = t
      /\ program = "fine" => mutex'[local[t].curr] = t
  <2>1. CASE program = "coarse"
    BY <1>1, <2>1 DEF Walks, Walk, LocksOK, HoldsPrev, LockOf, At
  <2>2. CASE program = "fine"
    BY <1>1, <1>4, <1>6, <2>2 DEF Walks, FineWalk, Release, MutexType, LocksOK, HoldsPrev,
                                  HoldsCurr, LockOf, At
  <2> QED BY <2>1, <2>2
<1>8. LocksOK(t)' /\ ValidateOK(t)'
  BY <1>1, <1>2, <1>3, <1>7 DEF LocksOK, HoldsPrev, HoldsCurr, LockOf, ValidateOK, At, Moves
<1>9. local'[t].pc \in PlacesOf(program)
  BY <1>1, <1>3 DEF PlacesOf
<1>10. Secure(t)' => program # "optimistic"
  BY <1>2, <1>3 DEF Secure, Moves
<1> QED BY <1>2, <1>3, <1>4, <1>5, <1>6, <1>8, <1>9, <1>10, WalkStep

LEMMA LocksStep ==
  ASSUME LockedInv, NEW t \in Threads, Step(t), Locks(t)
  PROVE  LockedInv' /\ members' = members /\ call' = call
<1>1. /\ HeapTypeOK /\ local \in [Threads -> LocalType] /\ mutex \in MutexType
      /\ LocksOK(t) /\ SearchOK(t) /\ SecureOK(t) /\ program \in {"fine", "optimistic"}
      /\ local[t].pc \in {"walk", "lockcurr"}
  BY Basics, Types DEF ThreadOK, Locks, FineLockCurr, LockPrev, LockCurr, At
<1>2. /\ Typed /\ Moves(t) /\ ~ call[t].changed
      /\ local[t].pc \notin {"idle", "unlock", "free"}
  BY ReadsOnly
<1>3. /\ local[t].prev \in Known /\ local[t].prev \in Nodes
      /\ local[t].curr \in Known /\ local[t].curr \in Nodes
      /\ key[local[t].prev] < call[t].key /\ key[local[t].curr] \in Nat
      /\ call[t].key \in Nat
  BY <1>1, <1>2, InWalk, InCall DEF At
<1>4. local'[t].prev = local[t].prev /\ local'[t].curr = local[t].curr
  BY <1>1 DEF Locks, FineLockCurr, LockPrev, LockCurr, Goto, LocalType
<1>5. CASE program = "fine" /\ FineLockCurr(t)
  <2>1. local'[t].pc = "walk" /\ local'[t].it = local[t].it
    BY <1>1, <1>5 DEF FineLockCurr, Goto, LocalType
  <2>2. At(t, "lockcurr") /\ mutex[local[t].prev] = t
    BY <1>1, <1>5 DEF FineLockCurr, LocksOK, HoldsPrev, LockOf, At
  <2>3. mutex'[local[t].prev] = t /\ mutex'[local[t].curr] = t
    BY <1>1, <1>3, <1>5, <2>2 DEF FineLockCurr, Acquire, MutexType
  <2>4. LocksOK(t)' /\ ValidateOK(t)'
    BY <1>2, <1>4, <1>5, <2>1, <2>3 DEF LocksOK, HoldsPrev, HoldsCurr, LockOf, ValidateOK, At,
                                        Moves
  <2>5. local[t].prev \in Listed /\ next[local[t].prev] = local[t].curr
    BY <1>1, <1>2, <1>5, <2>2 DEF SecureOK, Secure, At
  <2> QED BY <1>2, <1>3, <1>4, <1>5, <2>1, <2>4, <2>5, WalkStep DEF PlacesOf
<1>6. CASE program = "optimistic" /\ LockPrev(t)
  <2>1. local'[t].pc = "lockcurr" /\ local'[t].it = local[t].it
    BY <1>1, <1>6 DEF LockPrev, Goto, LocalType
  <2>2. mutex'[local[t].prev] = t /\ key[local[t].curr] >= call[t].key
    BY <1>1, <1>3, <1>6 DEF LockPrev, Acquire, MutexType, Before
  <2>3. LocksOK(t)' /\ ValidateOK(t)'
    BY <1>2, <1>4, <1>6, <2>1, <2>2 DEF LocksOK, HoldsPrev, HoldsCurr, LockOf, ValidateOK, At,
                                        Moves
  <2>4. ~ Secure(t)'
    BY <1>2, <1>6, <2>1 DEF Secure, Moves
  <2> QED BY <1>2, <1>3, <1>4, <1>6, <2>1, <2>2, <2>3, <2>4, WalkStep DEF PlacesOf
<1>7. CASE program = "optimistic" /\ LockCurr(t)
  <2>1. local'[t].pc = "validate" /\ local'[t].it = head
    BY <1>1, <1>7 DEF LockCurr, LocalType
  <2>2. /\ mutex[local[t].prev] = t /\ key[local[t].curr] >= call[t].key
    BY <1>1, <1>7 DEF LockCurr, LocksOK, HoldsPrev, LockOf, SearchOK, At
  <2>3. mutex'[local[t].prev] = t /\ mutex'[local[t].curr] = t
    BY <1>1, <1>3, <1>7, <2>2 DEF LockCurr, Acquire, MutexType
  <2>4. LocksOK(t)'
    BY <1>2, <1>4, <1>7, <2>1, <2>3 DEF LocksOK, HoldsPrev, HoldsCurr, LockOf, At, Moves
  <2>5. /\ head \in Listed /\ Listed \in SUBSET Known
        /\ \A n \in Listed \ {tail} : next[n] \in Listed
    BY ListFacts DEF Leads
  <2>6. ValidateOK(t)'
    <3>1. /\ Listed' = Listed /\ Known' = Known /\ next' = next
      BY <1>2, MovesFacts
    <3>2. local[t].prev \notin Listed => \E S \in SUBSET Known :
            head \in S /\ local[t].prev \notin S /\ \A n \in S \ {tail} : next[n] \in S
      BY <2>5
    <3> QED BY <1>4, <2>1, <2>5, <3>1, <3>2 DEF ValidateOK
  <2>7. ~ Secure(t)'
    BY <1>2, <1>7, <2>1 DEF Secure, Moves
  <2> QED BY <1>2, <1>3, <1>4, <1>7, <2>1, <2>2, <2>4, <2>5, <2>6, <2>7, WalkStep DEF PlacesOf
<1> QED BY <1>5, <1>6, <1>7 DEF Locks

\* list_validate: when it has come to prev, prev has not been taken out.
LEMMA ValidatesStep ==
  ASSUME LockedInv, NEW t \in Threads, Step(t), Validates(t)
  PROVE  LockedInv' /\ members' = members /\ call' = call
<1>1. /\ HeapTypeOK /\ local \in [Threads -> LocalType] /\ At(t, "validate")
      /\ LocksOK(t) /\ SearchOK(t) /\ ValidateOK(t) /\ program = "optimistic"
  BY Basics, Types DEF ThreadOK, Validates, ValidateWalk, Validate, ValidateFails
<1>2. /\ Typed /\ Moves(t) /\ ~ call[t].changed
      /\ local[t].pc \notin {"idle", "unlock", "free"}
  BY ReadsOnly
<1>3. /\ local[t].prev \in Known /\ local[t].prev \in Nodes /\ local[t].it \in Known
      /\ local[t].curr \in Known /\ key[local[t].prev] \in Nat
      /\ key[local[t].prev] < call[t].key /\ key[local[t].curr] >= call[t].key
      /\ call[t].key \in Nat /\ call[t].key < MaxKey + 1
  BY <1>1, <1>2, InWalk, InCall DEF At, SearchOK, ValidateOK
<1>4. mutex[local[t].prev] = t /\ mutex[local[t].curr] = t /\ mutex' = mutex
  BY <1>1 DEF LocksOK, HoldsPrev, HoldsCurr, LockOf, At, Validates, ValidateWalk, Validate,
              ValidateFails
<1>5. local'[t].prev = local[t].prev /\ local'[t].curr = local[t].curr
  BY <1>1 DEF Validates, ValidateWalk, Validate, ValidateFails, Goto, LocalType
<1>6. /\ Listed' = Listed /\ Known' = Known /\ next' = next /\ program' = program
  BY <1>2, MovesFacts
<1>7. CASE ValidateWalk(t)
  <2>1. local'[t].pc = "validate" /\ local'[t].it = next[local[t].it]
    BY <1>1, <1>7 DEF ValidateWalk, LocalType, At
  <2>2. local[t].it # tail
    BY <1>3, <1>7, MaxKeyAssumption DEF ValidateWalk, LockedInv, KnownOK
  <2>3. next[local[t].it] \in Known
    BY <1>3, <2>2 DEF LockedInv, KnownOK, Leads
  <2>4. LocksOK(t)'
    BY <1>1, <1>4, <1>5, <1>6, <2>1 DEF LocksOK, LockOf
  <2>5. ValidateOK(t)'
    <3>1. CASE local[t].prev \in Listed
      BY <1>5, <1>6, <2>1, <2>3, <3>1 DEF ValidateOK
    <3>2. CASE local[t].prev \notin Listed
      <4>1. PICK S \in SUBSET Known :
              /\ local[t].it \in S /\ local[t].prev \notin S
              /\ \A n \in S \ {tail} : next[n] \in S
        BY <1>1, <3>2 DEF ValidateOK
      <4>2. next[local[t].it] \in S
        BY <2>2, <4>1
      <4>3. \E R \in SUBSET Known :
              /\ next[local[t].it] \in R /\ local[t].prev \notin R
              /\ \A n \in R \ {tail} : next[n] \in R
        BY <4>1, <4>2
      <4> QED BY <1>5, <1>6, <2>1, <2>3, <4>3 DEF ValidateOK
    <3> QED BY <3>1, <3>2
  <2>6. ~ Secure(t)'
    BY <1>1, <1>6, <2>1 DEF Secure
  <2> QED BY <1>1, <1>2, <1>3, <1>5, <2>1, <2>3, <2>4, <2>5, <2>6, WalkStep DEF PlacesOf
<1>8. CASE Validate(t)
  <2>1. local'[t].pc = "apply" /\ local'[t].it = local[t].it
    BY <1>1, <1>8 DEF Validate, Goto, LocalType
  <2>2. local[t].prev \in Listed /\ next[local[t].prev] = local[t].curr
    BY <1>1, <1>8 DEF Validate, ValidateOK
  <2>3. LocksOK(t)' /\ ValidateOK(t)'
    BY <1>1, <1>4, <1>5, <1>6, <2>1 DEF LocksOK, LockOf, ValidateOK, At
  <2> QED BY <1>1, <1>2, <1>3, <1>5, <2>1, <2>2, <2>3, WalkStep DEF PlacesOf
<1>9. CASE ValidateFails(t)
  <2>1. local'[t].pc = "invalid" /\ local'[t].it = local[t].it
    BY <1>1, <1>9 DEF ValidateFails, Goto, LocalType
  <2>2. LocksOK(t)' /\ ValidateOK(t)'
    BY <1>1, <1>4, <1>5, <1>6, <2>1 DEF LocksOK, LockOf, ValidateOK, At
  <2>3. ~ Secure(t)'
    BY <1>1, <1>6, <2>1 DEF Secure
  <2> QED BY <1>1, <1>2, <1>3, <1>5, <2>1, <2>2, <2>3, WalkStep DEF PlacesOf
<1> QED BY <1>7, <1>8, <1>9 DEF Validates

LEMMA RetryStep ==
  ASSUME LockedInv, NEW t \in Threads, Step(t), Retries(t)
  PROVE  LockedInv' /\ members' = members /\ call' = call
<1>1. /\ HeapTypeOK /\ local \in [Threads -> LocalType] /\ PointersOK(t) /\ CallOK(t)
      /\ program = "optimistic"
  BY Basics, Types DEF ThreadOK, Retries
<1>2. /\ Typed /\ Moves(t) /\ ~ call[t].changed
      /\ local[t].pc \notin {"idle", "unlock", "free"}
  BY ReadsOnly
<1>3. /\ Listed' = Listed /\ Known' = Known /\ members' = members /\ Own(t)' = Own(t)
      /\ call'[t] = call[t] /\ program' = program
  BY <1>2, MovesFacts
<1>4. /\ local'[t].pc = "start" /\ local'[t].prev = local[t].prev
      /\ local'[t].curr = local[t].curr /\ local'[t].node = local[t].node
      /\ local'[t].it = local[t].it
  BY <1>1 DEF Retries, Retry, Goto, LocalType
<1>5. CallOK(t)'
  BY <1>1, <1>2, <1>3, <1>4 DEF CallOK, At, PlacesOf
<1>6. PointersOK(t)'
  BY <1>1, <1>3, <1>4 DEF PointersOK
<1>7. LocksOK(t)' /\ SearchOK(t)' /\ SecureOK(t)' /\ ValidateOK(t)'
  BY <1>1, <1>3, <1>4 DEF LocksOK, HoldsPrev, HoldsCurr, SearchOK, SecureOK, Secure,
                          ValidateOK, At
<1> QED BY <1>2, <1>5, <1>6, <1>7, MovesStep

-----------------------------------------------------------------------------
(* The answers.                                                             *)

\* What a thread knows when the walk has ended: the key is in the set exactly
\* when curr has it.
LEMMA Ready ==
  ASSUME LockedInv, NEW t \in Threads, Applies(t)
  PROVE  /\ local[t].prev \in Listed \ {tail} /\ local[t].prev \in Nodes
         /\ local[t].curr = next[local[t].prev]
         /\ local[t].curr \in Listed /\ local[t].curr \in Nodes
         /\ key[local[t].prev] \in Nat /\ key[local[t].curr] \in Nat
         /\ key[local[t].prev] < call[t].key /\ call[t].key <= key[local[t].curr]
         /\ Secure(t) /\ HoldsPrev(t) /\ HoldsCurr(t) /\ ~ call[t].changed
         /\ mutex[LockOf(local[t].prev)] = t /\ mutex[LockOf(local[t].curr)] = t
         /\ call[t].key \in Keys /\ call[t].key \in Nat
         /\ (call[t].key \in members) \in call[t].seen
         /\ Found(t) <=> call[t].key \in members
<1>1. /\ LocksOK(t) /\ SearchOK(t) /\ program \in {"coarse", "fine", "optimistic"}
      /\ local[t].pc \in {"walk", "apply"}
  BY Basics DEF ThreadOK, Applies, At
<1>2. /\ call[t].key \in Keys /\ call[t].key \in Nat
      /\ (call[t].key \in members) \in call[t].seen
  BY <1>1, InCall DEF At
<1>3. Secure(t) /\ HoldsPrev(t) /\ HoldsCurr(t)
  BY <1>1 DEF Secure, HoldsPrev, HoldsCurr, Applies, At
<1>4. /\ local[t].prev \in Nodes /\ local[t].curr \in Nodes /\ ~ call[t].changed
      /\ key[local[t].prev] \in Nat /\ key[local[t].curr] \in Nat
      /\ key[local[t].prev] < call[t].key
  BY <1>1, InWalk
<1>5. /\ local[t].prev \in Listed \ {tail} /\ local[t].curr = next[local[t].prev]
      /\ local[t].curr \in Listed
  BY <1>3, <1>4, InPlace
<1>6. call[t].key <= key[local[t].curr]
  BY <1>1, <1>2, <1>4 DEF Applies, Before, SearchOK, At
<1>7. Found(t) => call[t].key \in members
  BY <1>2, <1>5, ListedIsMember DEF Found
<1>8. ~ Found(t) => call[t].key \notin members
  <2> SUFFICES ASSUME ~ Found(t) PROVE call[t].key \notin members
    OBVIOUS
  <2>1. call[t].key < key[next[local[t].prev]]
    BY <1>2, <1>4, <1>5, <1>6 DEF Found
  <2>2. PICK x \in Nat : x = call[t].key
    BY <1>2
  <2>3. key[local[t].prev] < x /\ x < key[next[local[t].prev]]
    BY <1>4, <2>1, <2>2
  <2>4. x \notin members
    BY <1>5, <2>3, BetweenIsAbsent
  <2> QED BY <2>2, <2>4
<1> QED BY <1>1, <1>2, <1>3, <1>4, <1>5, <1>6, <1>7, <1>8 DEF LocksOK

LEMMA AnswerStep ==
  ASSUME LockedInv, NEW t \in Threads, Step(t), Applies(t), NEW answer \in BOOLEAN,
         Answer(t, answer), MayAnswer(call[t], answer, FALSE)
  PROVE  LockedInv' /\ members' = members /\ call' = call
<1>1. /\ HeapTypeOK /\ local \in [Threads -> LocalType] /\ mutex \in MutexType
      /\ CallOK(t) /\ LocksOK(t) /\ PointersOK(t) /\ SearchOK(t) /\ SecureOK(t)
      /\ program \in {"coarse", "fine", "optimistic"} /\ local[t].pc \in {"walk", "apply"}
  BY Basics, Types DEF ThreadOK, Applies, At
<1>2. /\ Typed /\ Moves(t) /\ ~ call[t].changed
  BY ReadsOnly
<1>3. /\ Listed' = Listed /\ Known' = Known /\ members' = members /\ Own(t)' = Own(t)
      /\ call'[t] = call[t] /\ key' = key /\ next' = next /\ program' = program
  BY <1>2, MovesFacts
<1>4. /\ local'[t].pc = "unlock" /\ local'[t].prev = local[t].prev
      /\ local'[t].curr = local[t].curr /\ local'[t].node = local[t].node
      /\ local'[t].it = local[t].it /\ local'[t].ret = answer /\ mutex' = mutex
  BY <1>1 DEF Answer, LocalType
<1>5. CallOK(t)'
  <2>1. MayAnswer(call'[t], local'[t].ret, FALSE)
    BY <1>3, <1>4
  <2> QED BY <1>1, <1>2, <1>3, <1>4, <2>1 DEF CallOK, At, PlacesOf
<1>6. PointersOK(t)'
  BY <1>1, <1>3, <1>4 DEF PointersOK
<1>7. LocksOK(t)'
  <2>1. mutex[LockOf(local[t].prev)] = t /\ mutex[LockOf(local[t].curr)] = t
    BY Ready
  <2> QED BY <1>3, <1>4, <2>1 DEF LocksOK, LockOf
<1>8. SearchOK(t)'
  BY <1>1, <1>3, <1>4 DEF SearchOK
<1>9. SecureOK(t)'
  BY <1>2, <1>3, <1>4, Ready DEF SecureOK
<1>10. ValidateOK(t)'
  BY <1>4 DEF ValidateOK, At
<1> QED BY <1>2, <1>5, <1>6, <1>7, <1>8, <1>9, <1>10, MovesStep

\* An add that finds its key, a remove that does not, and every list_contains.
LEMMA AnswersStep ==
  ASSUME LockedInv, NEW t \in Threads, Step(t), Applies(t),
         \/ call[t].op = "add" /\ Found(t) /\ Answer(t, FALSE)
         \/ call[t].op = "remove" /\ ~ Found(t) /\ Answer(t, FALSE)
         \/ Contains(t)
  PROVE  LockedInv' /\ members' = members /\ call' = call
<1>1. PICK c, b : c = call[t] /\ b = (call[t].key \in members)
  OBVIOUS
<1>2. /\ b \in BOOLEAN /\ b \in c.seen /\ c.changed = FALSE /\ (b <=> Found(t))
  <2>1. ~ call[t].changed /\ call[t].changed \in BOOLEAN
    BY Ready, Basics DEF CallType
  <2>2. c.changed = FALSE
    BY <1>1, <2>1
  <2>3. (call[t].key \in members) \in call[t].seen /\ (Found(t) <=> call[t].key \in members)
    BY Ready
  <2>4. b \in c.seen
    BY <1>1, <2>3, Zenon
  <2>5. b \in BOOLEAN
    BY <1>1
  <2>6. b <=> Found(t)
    BY <1>1, <2>3, Zenon
  <2> QED BY <2>2, <2>4, <2>5, <2>6
<1>3. CASE call[t].op = "add"
  <2>1. Found(t) /\ Answer(t, FALSE)
    BY <1>3 DEF Contains
  <2>2. MayAnswer(c, FALSE, FALSE)
    BY <1>1, <1>2, <1>3, <2>1 DEF MayAnswer
  <2> QED BY <1>1, <2>1, <2>2, AnswerStep
<1>4. CASE call[t].op = "remove"
  <2>1. ~ Found(t) /\ Answer(t, FALSE)
    BY <1>4 DEF Contains
  <2>2. MayAnswer(c, FALSE, FALSE)
    BY <1>1, <1>2, <1>4, <2>1 DEF MayAnswer
  <2> QED BY <1>1, <2>1, <2>2, AnswerStep
<1>5. CASE call[t].op = "contains"
  <2>1. Answer(t, b)
    <3>1. Found(t) = b
      BY <1>2 DEF Found
    <3> QED BY <1>5, <3>1 DEF Contains
  <2>2. MayAnswer(c, b, FALSE)
    BY <1>1, <1>2, <1>5 DEF MayAnswer
  <2> QED BY <1>1, <1>2, <2>1, <2>2, AnswerStep
<1> QED BY <1>3, <1>4, <1>5 DEF Contains

-----------------------------------------------------------------------------
(* The beginning and the end of a call.                                     *)

LEMMA BeginStep ==
  ASSUME LockedInv, NEW t \in Threads, Step(t), Begin(t, members)
  PROVE  LockedInv' /\ members' = members /\ call[t].op = "none"
<1>1. PICK op \in Ops, x \in Keys :
        /\ call' = [call EXCEPT ![t] = Began(op, x, x \in members)]
        /\ IF op = "add" THEN Malloc(t, x)
           ELSE Goto(t, "start") /\ UNCHANGED <<key, live>>
  BY DEF Begin
<1>2. /\ HeapTypeOK /\ local \in [Threads -> LocalType] /\ call \in [Threads -> CallType]
      /\ key \in [Nodes -> Nat] /\ At(t, "idle") /\ next' = next /\ CallOK(t) /\ PointersOK(t)
      /\ program \in {"coarse", "fine", "optimistic"} /\ Known \subseteq live
  BY Basics, Types, ListFacts DEF ThreadOK, Begin
<1>3. call[t].op = "none" /\ Own(t) = {} /\ local[t].node = Null
  BY <1>2 DEF CallOK, Own, PointersOK
<1>4. Typed /\ program' = program
  BY TypeStep DEF Typed
<1>5. /\ call'[t].op = op /\ call'[t].key = x /\ (x \in members) \in call'[t].seen
      /\ ~ call'[t].changed /\ \A u \in Threads \ {t} : call'[u] = call[u]
  <2>1. PICK b : b = (x \in members)
    OBVIOUS
  <2>2. call' = [call EXCEPT ![t] = Began(op, x, b)]
    BY <1>1, <2>1
  <2>3. call'[t] = Began(op, x, b) /\ \A u \in Threads \ {t} : call'[u] = call[u]
    BY <1>2, <2>2
  <2>4. b \in call'[t].seen
    BY <2>3 DEF Began
  <2> QED BY <2>1, <2>3, <2>4 DEF Began
<1>6. /\ local'[t].pc = "start" /\ local'[t].prev = local[t].prev
      /\ local'[t].curr = local[t].curr /\ local'[t].it = local[t].it
      /\ \A u \in Threads \ {t} : local'[u] = local[u]
  BY <1>1, <1>2 DEF Malloc, Goto, LocalType
<1>7. /\ live \subseteq live' /\ \A n \in live : key'[n] = key[n]
      /\ Own(t)' \subseteq live' \ live
      /\ op = "add" => /\ local'[t].node \in Heap /\ Own(t)' = {local'[t].node}
                       /\ key'[local'[t].node] = x
      /\ op # "add" => local'[t].node = Null
  <2>1. CASE op = "add"
    <3>1. PICK n \in Heap \ live :
            /\ live' = live \union {n} /\ key' = [key EXCEPT ![n] = x]
            /\ local' = [local EXCEPT ![t].pc = "start", ![t].node = n]
      BY <1>1, <2>1 DEF Malloc
    <3>2. local'[t].node = n /\ n \in Nodes
      BY <1>2, <3>1, Sentinels DEF LocalType
    <3>3. Own(t)' = {n}
      BY <1>5, <2>1, <3>2 DEF Own
    <3>4. key'[n] = x /\ \A m \in Nodes \ {n} : key'[m] = key[m]
      BY <1>2, <3>1, <3>2
    <3>5. live \subseteq Nodes
      BY <1>2 DEF HeapTypeOK
    <3> QED BY <2>1, <3>1, <3>2, <3>3, <3>4, <3>5
  <2>2. CASE op # "add"
    <3>1. local' = [local EXCEPT ![t].pc = "start"] /\ UNCHANGED <<key, live>>
      BY <1>1, <2>2 DEF Goto
    <3>2. local'[t].node = Null
      BY <1>2, <1>3, <3>1 DEF LocalType
    <3>3. Own(t)' = {}
      BY <1>5, <2>2 DEF Own
    <3> QED BY <2>2, <3>1, <3>2, <3>3
  <2> QED BY <2>1, <2>2
<1>8. Same /\ Alone(t)
  BY <1>2, <1>4, <1>5, <1>6, <1>7, MutexStep DEF Same, Alone
<1>9. Known' = Known /\ members' = members
  BY <1>4, <1>8, SameList DEF Typed
<1>10. OwnOK(t)'
  BY <1>2, <1>5, <1>7, <1>9 DEF OwnOK
<1>11. CallOK(t)'
  <2>1. local'[t].pc \in PlacesOf(program')
    BY <1>2, <1>4, <1>6 DEF PlacesOf
  <2>2. (call'[t].key \in members') \in call'[t].seen
    BY <1>5, <1>9
  <2> QED BY <1>5, <1>6, <2>1, <2>2 DEF CallOK, At, Ops
<1>12. PointersOK(t)'
  BY <1>2, <1>3, <1>4, <1>5, <1>6, <1>7, <1>9 DEF PointersOK, At
<1>13. LocksOK(t)' /\ SearchOK(t)' /\ SecureOK(t)' /\ ValidateOK(t)'
  BY <1>2, <1>4, <1>6 DEF LocksOK, HoldsPrev, HoldsCurr, SearchOK, SecureOK, Secure,
                          ValidateOK, At
<1>14. ThreadOK(t)'
  BY <1>10, <1>11, <1>12, <1>13 DEF ThreadOK
<1>15. Own(t)' \subseteq Own(t) \union (Nodes \ live) /\ live \ Own(t) \subseteq live'
  BY <1>7 DEF Own
<1> QED BY <1>3, <1>4, <1>8, <1>14, <1>15, QuietStep

LEMMA ReturnStep ==
  ASSUME LockedInv, NEW t \in Threads, Step(t), NEW answer, Return(t, answer),
         UNCHANGED <<key, next>>, Known \subseteq live', live \ Own(t) \subseteq live'
  PROVE  LockedInv' /\ members' = members
<1>1. /\ HeapTypeOK /\ local \in [Threads -> LocalType] /\ call \in [Threads -> CallType]
      /\ program \in {"coarse", "fine", "optimistic"}
  BY Basics, Types
<1>2. /\ local'[t] = Idle /\ call'[t] = Returned(answer)
      /\ \A u \in Threads \ {t} : local'[u] = local[u] /\ call'[u] = call[u]
  BY <1>1 DEF Return
<1>3. Typed /\ program' = program
  BY TypeStep DEF Typed
<1>4. Same /\ Alone(t)
  BY <1>2, <1>3, MutexStep DEF Same, Alone
<1>5. Own(t)' = {}
  BY <1>2 DEF Own, Returned
<1>6. OwnOK(t)' /\ PointersOK(t)'
  BY <1>2, <1>5 DEF OwnOK, PointersOK, Idle, Returned
<1>7. CallOK(t)'
  <2>1. local'[t].pc \in PlacesOf(program')
    BY <1>1, <1>2, <1>3 DEF PlacesOf, Idle
  <2> QED BY <1>2, <2>1 DEF CallOK, At, Ops, Idle, Returned
<1>8. LocksOK(t)' /\ SearchOK(t)' /\ SecureOK(t)' /\ ValidateOK(t)'
  BY <1>1, <1>2, <1>3 DEF LocksOK, HoldsPrev, HoldsCurr, SearchOK, SecureOK, Secure,
                          ValidateOK, At, Idle
<1>9. ThreadOK(t)'
  BY <1>6, <1>7, <1>8 DEF ThreadOK
<1> QED BY <1>3, <1>4, <1>5, <1>9, QuietStep

\* A thread that has unlocked and is not going to free returns what it may.
LEMMA UnlocksStep ==
  ASSUME LockedInv, NEW t \in Threads, Step(t), Unlocks(t)
  PROVE  /\ LockedInv' /\ members' = members
         /\ \/ call' = call
            \/ /\ Return(t, local[t].ret) /\ call[t].op \in Ops
               /\ local[t].ret \in BOOLEAN /\ MayAnswer(call[t], local[t].ret, FALSE)
<1>1. /\ HeapTypeOK /\ local \in [Threads -> LocalType] /\ call \in [Threads -> CallType]
      /\ CallOK(t) /\ PointersOK(t) /\ local[t] \in LocalType /\ call[t] \in CallType
      /\ program \in {"coarse", "fine", "optimistic"} /\ Known \subseteq live
  BY Basics, Types, ListFacts DEF ThreadOK
<1>2. /\ At(t, "unlock") /\ UNCHANGED <<key, next, live, works>> /\ heap' = heap
  BY DEF Unlocks, CoarseUnlock, FineUnlock, UnlockAndFree, OptimisticUnlock, heap
<1>3. /\ local[t].ret \in BOOLEAN /\ MayAnswer(call[t], local[t].ret, FALSE)
      /\ call[t].op \in Ops
  BY <1>1, <1>2, InCall DEF CallOK, LocalType, At
<1>4. CASE Return(t, local[t].ret)
  BY <1>1, <1>2, <1>3, <1>4, ReturnStep
<1>5. CASE /\ program # "optimistic" /\ call[t].op = "remove" /\ local[t].ret
           /\ local' = [local EXCEPT ![t].pc = "free", ![t].prev = Null] /\ UNCHANGED call
  <2>1. call[t].changed
    <3>1. PICK c, a : c = call[t] /\ a = local[t].ret
      OBVIOUS
    <3>2. MayAnswer(c, a, FALSE) /\ c.op = "remove" /\ c.changed \in BOOLEAN
          /\ a \in BOOLEAN
      BY <1>1, <1>3, <1>5, <3>1 DEF CallType
    <3>3. a = c.changed
      BY <3>2 DEF MayAnswer
    <3>4. a
      BY <1>5, <3>1, Zenon
    <3>5. c.changed
      BY <3>3, <3>4, Zenon
    <3> QED BY <3>1, <3>5, Zenon
  <2>2. /\ local'[t].pc = "free" /\ local'[t].prev = Null /\ local'[t].curr = local[t].curr
        /\ local'[t].node = local[t].node /\ local'[t].it = local[t].it
        /\ \A u \in Threads \ {t} : local'[u] = local[u]
    BY <1>1, <1>5 DEF LocalType
  <2>3. Typed /\ Moves(t)
    BY <1>2, <1>5, <2>2, TypeStep, MutexStep DEF Typed, Moves, Alone
  <2>4. /\ Known' = Known /\ members' = members /\ Own(t)' = Own(t) /\ call'[t] = call[t]
        /\ program' = program
    BY <2>3, MovesFacts
  <2>5. CallOK(t)'
    <3>1. local'[t].pc \in PlacesOf(program')
      BY <1>1, <1>5, <2>2, <2>4 DEF PlacesOf
    <3> QED BY <1>1, <1>2, <1>5, <2>1, <2>2, <2>4, <3>1 DEF CallOK, At
  <2>6. PointersOK(t)'
    BY <1>1, <1>5, <2>2, <2>4 DEF PointersOK
  <2>7. LocksOK(t)' /\ SearchOK(t)' /\ SecureOK(t)' /\ ValidateOK(t)'
    BY <1>1, <2>2, <2>4 DEF LocksOK, HoldsPrev, HoldsCurr, SearchOK, SecureOK, Secure,
                            ValidateOK, At
  <2> QED BY <2>3, <2>5, <2>6, <2>7, MovesStep
<1> QED BY <1>4, <1>5 DEF Unlocks, CoarseUnlock, FineUnlock, UnlockAndFree, OptimisticUnlock

\* The node that is freed has been taken out, and nobody has a pointer to it.
LEMMA FreeStep ==
  ASSUME LockedInv, NEW t \in Threads, Step(t), program # "optimistic", FreeRemoved(t)
  PROVE  /\ LockedInv' /\ members' = members
         /\ Return(t, TRUE) /\ call[t].op \in Ops /\ MayAnswer(call[t], TRUE, FALSE)
<1>1. /\ OwnOK(t) /\ CallOK(t) /\ local[t] \in LocalType /\ call[t] \in CallType
      /\ Known \subseteq live /\ live \subseteq Nodes
  BY Basics, ListFacts DEF ThreadOK, HeapTypeOK
<1>2. /\ At(t, "free") /\ live' = live \ {local[t].curr} /\ Return(t, TRUE)
      /\ UNCHANGED <<key, next>>
  BY DEF FreeRemoved
<1>3. call[t].op = "remove" /\ call[t].changed
  BY <1>1, <1>2 DEF CallOK
<1>4. local[t].curr \in Nodes => local[t].curr \in Own(t)
  BY <1>3 DEF Own
<1>5. Known \subseteq live' /\ live \ Own(t) \subseteq live'
  BY <1>1, <1>2, <1>4 DEF OwnOK
<1>6. MayAnswer(call[t], TRUE, FALSE)
  <2>1. PICK c : c = call[t]
    OBVIOUS
  <2>2. c.op = "remove" /\ c.changed = TRUE
    BY <1>1, <1>3, <2>1 DEF CallType
  <2>3. MayAnswer(c, TRUE, FALSE)
    BY <2>2 DEF MayAnswer
  <2> QED BY <2>1, <2>3
<1>7. LockedInv' /\ members' = members
  BY <1>2, <1>5, ReturnStep
<1> QED BY <1>2, <1>3, <1>6, <1>7 DEF Ops

-----------------------------------------------------------------------------
(* The assignments to prev->next.                                           *)

\* What both assignments leave to the other calls.
LEMMA OtherWatches ==
  ASSUME LockedInv, NEW t \in Threads, NEW u \in Threads \ {t}, NEW in \in BOOLEAN,
         local'[u] = local[u], mutex' = mutex, Hears(u, t, call[t].key, in),
         (call[t].key \in members') = in,
         \A x \in Keys \ {call[t].key} : x \in members' <=> x \in members
  PROVE  Watches(u)
<1>1. CallOK(u)
  BY Basics DEF ThreadOK
<1>2. ASSUME call[u].op \in Ops PROVE (call[u].key \in members') \in call'[u].seen
  <2>1. CASE call[u].key = call[t].key
    BY <1>2, <2>1 DEF Hears
  <2>2. CASE call[u].key # call[t].key
    <3>1. call[u].key \in Keys /\ (call[u].key \in members) \in call[u].seen
      BY <1>1, <1>2 DEF CallOK
    <3>2. call[u].key \in members' <=> call[u].key \in members
      BY <2>2, <3>1
    <3>3. PICK a, b : a = (call[u].key \in members') /\ b = (call[u].key \in members)
      OBVIOUS
    <3>4. a = b
      BY <3>2, <3>3
    <3>5. b \in call[u].seen
      BY <3>1, <3>3, Zenon
    <3>6. a \in call'[u].seen
      BY <3>4, <3>5 DEF Hears
    <3> QED BY <3>3, <3>6, Zenon
  <2> QED BY <2>1, <2>2
<1> QED BY <1>2 DEF Watches, Hears

\* prev->next = node
LEMMA LinkStep ==
  ASSUME LockedInv, NEW t \in Threads, Step(t), Applies(t), call[t].op = "add", Link(t)
  PROVE  /\ LockedInv' /\ call[t].key \notin members /\ ~ call[t].changed
         /\ members' = members \union {call[t].key}
         /\ call' = Noticed(call, t, call[t].key, TRUE)
<1> DEFINE p == local[t].prev
           n == local[t].node
           x == call[t].key
<1>1. /\ HeapTypeOK /\ local \in [Threads -> LocalType] /\ mutex \in MutexType
      /\ OwnOK(t) /\ CallOK(t) /\ PointersOK(t) /\ SearchOK(t)
      /\ program \in {"coarse", "fine", "optimistic"} /\ Heap \subseteq Nodes
      /\ Listed \subseteq Known /\ Known \subseteq live /\ Known \subseteq Nodes
  BY Basics, Types, ListFacts, Sentinels DEF ThreadOK
<1>2. /\ p \in Listed \ {tail} /\ p \in Nodes /\ local[t].curr = next[p] /\ next[p] \in Listed
      /\ key[p] < x /\ x < key[next[p]] /\ x \in Keys /\ ~ call[t].changed
      /\ mutex[LockOf(p)] = t /\ mutex[LockOf(local[t].curr)] = t
      /\ (local[t].pc \in {"walk", "apply"})
  BY Ready DEF Link, Found, Applies, At
<1>3. /\ n \in Heap /\ n \in Nodes /\ n \in Own(t) /\ n \in live \ Known /\ key[n] = x
  BY <1>1, <1>2 DEF OwnOK, Own
<1>4. /\ next' = [next EXCEPT ![p] = n, ![n] = next[p]] /\ mutex' = mutex
      /\ UNCHANGED <<key, live, program>> /\ call' = Noticed(call, t, x, TRUE)
      /\ local' = [local EXCEPT ![t].pc = "unlock", ![t].ret = TRUE]
  BY <1>2, StepCases DEF Link
<1>5. Typed
  BY TypeStep
<1>6. /\ Listed' = Listed \union {n} /\ Known' = Known \union {n} /\ Sorted' /\ KnownOK'
      /\ x \notin members /\ members' = members \union {x}
  <2>1. /\ p \in Listed \ {tail} /\ n \in Nodes \ Known /\ n \in live /\ key[n] \in Keys
        /\ key[p] < key[n] /\ key[n] < key[next[p]] /\ HeapTypeOK'
    BY <1>2, <1>3, <1>5 DEF Typed
  <2>2. /\ Listed' = Listed \union {n} /\ Known' = Known \union {n} /\ Sorted' /\ KnownOK'
        /\ key[n] \notin members /\ members' = members \union {key[n]}
    BY <1>4, <2>1, LinkList
  <2> QED BY <1>3, <2>2
<1>7. \A u \in Threads : Hears(u, t, x, TRUE)
  BY <1>1, <1>4, NoticedFacts
<1>8. /\ call'[t].op = "add" /\ call'[t].key = x /\ call'[t].changed = TRUE
      /\ TRUE \in call'[t].seen
  BY <1>7 DEF Hears, Ops
<1>9. /\ local'[t].pc = "unlock" /\ local'[t].prev = p /\ local'[t].node = n
      /\ local'[t].curr = local[t].curr /\ local'[t].it = local[t].it
      /\ local'[t].ret = TRUE /\ \A u \in Threads \ {t} : local'[u] = local[u]
  BY <1>1, <1>4 DEF LocalType
<1>10. /\ next'[p] = n /\ next'[n] = next[p]
       /\ \A m \in Known \ {p} : next'[m] = next[m]
  <2>1. next \in [Nodes -> Nodes \union {Null}]
    BY <1>1, Types
  <2> QED BY <1>1, <1>2, <1>3, <1>4, <2>1
<1>11. ThreadOK(t)' /\ Own(t)' = {}
  <2>1. Own(t)' = {}
    BY <1>8 DEF Own
  <2>2. OwnOK(t)'
    BY <1>3, <1>8, <1>9, <2>1 DEF OwnOK
  <2>3. CallOK(t)'
    <3>1. x \in members'
      BY <1>6
    <3>2. (x \in members') = TRUE
      BY <3>1
    <3>3. (call'[t].key \in members') \in call'[t].seen
      BY <1>8, <3>2
    <3>4. MayAnswer(call'[t], local'[t].ret, FALSE)
      <4>1. PICK c : c = call'[t]
        OBVIOUS
      <4>2. MayAnswer(c, TRUE, FALSE)
        BY <1>8, <4>1 DEF MayAnswer
      <4> QED BY <1>9, <4>1, <4>2
    <3>5. local'[t].pc \in PlacesOf(program')
      BY <1>1, <1>4, <1>9 DEF PlacesOf
    <3> QED BY <1>2, <1>8, <1>9, <3>3, <3>4, <3>5 DEF CallOK, At
  <2>4. LocksOK(t)'
    BY <1>2, <1>4, <1>9 DEF LocksOK, LockOf
  <2>5. PointersOK(t)'
    <3>1. Own(t) \subseteq {n}
      BY <1>2 DEF Own
    <3>2. Known' = Known \union {n} /\ program' = program
      BY <1>4, <1>6
    <3>3. {p, local[t].curr, n, local[t].it} \subseteq Known' \union {Null}
      BY <1>1, <3>1, <3>2 DEF PointersOK
    <3>4. program # "optimistic" => local[t].it = Null
      BY <1>1 DEF PointersOK
    <3> QED BY <1>8, <1>9, <3>2, <3>3, <3>4 DEF PointersOK
  <2>6. SearchOK(t)'
    <3>1. p \in Known' /\ key'[p] < x
      BY <1>1, <1>2, <1>4, <1>6
    <3> QED BY <1>8, <1>9, <3>1 DEF SearchOK
  <2>7. SecureOK(t)'
    BY <1>2, <1>6, <1>8, <1>9, <1>10 DEF SecureOK
  <2>8. ValidateOK(t)'
    BY <1>9 DEF ValidateOK, At
  <2> QED BY <2>1, <2>2, <2>3, <2>4, <2>5, <2>6, <2>7, <2>8 DEF ThreadOK
<1>12. ASSUME NEW u \in Threads \ {t} PROVE ThreadOK(u)' /\ Own(u)' = Own(u)
  <2>1. OwnOK(u) /\ SecureOK(u) /\ ValidateOK(u) /\ SearchOK(u)
    BY Basics DEF ThreadOK
  <2>2. Watches(u)
    <3>1. (x \in members') = TRUE
      BY <1>6
    <3>2. \A y \in Keys \ {x} : y \in members' <=> y \in members
      BY <1>6
    <3> QED BY <1>4, <1>7, <1>9, <3>1, <3>2, OtherWatches
  <2>3. Own(u) \subseteq live' \ Known'
    <3>1. n \notin Own(u)
      BY <1>3 DEF LockedInv, OwnApart
    <3> QED BY <1>4, <1>6, <2>1, <3>1 DEF OwnOK
  <2>4. Secure(u) => local[u].prev \in Listed' /\ next'[local[u].prev] = next[local[u].prev]
    <3>1. Secure(u) => HoldsPrev(u) /\ local[u].prev \in Listed
      BY InPlace
    <3>2. HoldsPrev(u) => local[u].prev # p
      BY <1>2, Exclusive
    <3> QED BY <1>1, <1>6, <1>10, <3>1, <3>2
  <2>5. ValidateOK(u)'
    <3> SUFFICES ASSUME At(u, "validate") PROVE ValidateOK(u)'
      BY <1>9 DEF ValidateOK, At
    <3>1. local[u].it \in Known' /\ local[u].prev \in Known
      BY <1>6, <2>1 DEF ValidateOK, SearchOK, At
    <3>2. CASE local[u].prev \in Listed
      BY <1>6, <1>9, <3>1, <3>2 DEF ValidateOK
    <3>3. CASE local[u].prev \notin Listed
      <4>1. PICK S \in SUBSET Known :
              /\ local[u].it \in S /\ local[u].prev \notin S
              /\ \A m \in S \ {tail} : next[m] \in S
        BY <2>1, <3>3 DEF ValidateOK
      <4> DEFINE R == IF p \in S THEN S \union {n} ELSE S
      <4>2. /\ R \in SUBSET Known' /\ local[u].it \in R /\ local[u].prev \notin R
        BY <1>3, <1>6, <3>1, <4>1
      <4>3. ASSUME NEW m \in R \ {tail} PROVE next'[m] \in R
        <5>1. CASE m = p
          <6>1. p \in S
            BY <1>1, <1>2, <1>3, <5>1
          <6> QED BY <1>10, <5>1, <6>1
        <5>2. CASE m = n
          <6>1. p \in S
            BY <1>3, <4>1, <5>2
          <6> QED BY <1>2, <1>10, <4>1, <5>2, <6>1
        <5>3. CASE m # p /\ m # n
          <6>1. m \in S \ {tail} /\ m \in Known \ {p}
            BY <4>1, <5>3
          <6> QED BY <1>10, <4>1, <6>1
        <5> QED BY <5>1, <5>2, <5>3
      <4>4. \E Q \in SUBSET Known' :
              /\ local[u].it \in Q /\ local[u].prev \notin Q
              /\ \A m \in Q \ {tail} : next'[m] \in Q
        BY <4>2, <4>3
      <4> QED BY <1>9, <3>1, <4>4 DEF ValidateOK
    <3> QED BY <3>2, <3>3
  <2>6. \A m \in Known : m \in Known'
    BY <1>6
  <2> QED BY <1>4, <2>2, <2>3, <2>4, <2>5, <2>6, OtherKeeps
<1>13. LockedInv'
  BY <1>5, <1>6, <1>11, <1>12, StepKeeps
<1> QED BY <1>2, <1>4, <1>6, <1>13

\* prev->next = curr->next.  No other thread has a pointer to curr that it will
\* use, unless the program has no locks while it walks and does not free.
LEMMA UnlinkStep ==
  ASSUME LockedInv, NEW t \in Threads, Step(t), Applies(t), call[t].op = "remove", Unlink(t)
  PROVE  /\ LockedInv' /\ call[t].key \in members /\ ~ call[t].changed
         /\ members' = members \ {call[t].key}
         /\ call' = Noticed(call, t, call[t].key, FALSE)
<1> DEFINE p == local[t].prev
           c == local[t].curr
           x == call[t].key
<1>1. /\ HeapTypeOK /\ local \in [Threads -> LocalType] /\ mutex \in MutexType
      /\ PointersOK(t) /\ program \in {"coarse", "fine", "optimistic"}
      /\ Listed \subseteq Known /\ Known \subseteq live /\ Known \subseteq Nodes
      /\ Null \notin Nodes
  BY Basics, Types, ListFacts, Sentinels DEF ThreadOK
<1>2. /\ p \in Listed \ {tail} /\ p \in Nodes /\ c = next[p] /\ c \in Listed /\ c \in Nodes
      /\ key[p] < x /\ key[p] \in Nat /\ key[c] = x /\ x \in Keys /\ x \in Nat
      /\ ~ call[t].changed /\ mutex[LockOf(p)] = t /\ mutex[LockOf(c)] = t
      /\ (local[t].pc \in {"walk", "apply"}) /\ p # c
  BY Ready DEF Unlink, Found, Applies, At
<1>3. /\ next' = [next EXCEPT ![p] = next[c]] /\ mutex' = mutex
      /\ UNCHANGED <<key, live, program>> /\ call' = Noticed(call, t, x, FALSE)
      /\ local' = [local EXCEPT ![t].pc = "unlock", ![t].ret = TRUE]
  BY <1>2, StepCases DEF Unlink
<1>4. Typed
  BY TypeStep
<1>5. /\ Listed' = Listed \ {c} /\ Sorted' /\ KnownOK'
      /\ Known' = (IF program = "optimistic" THEN Known ELSE Known \ {c})
      /\ x \in members /\ members' = members \ {x} /\ c # tail
  <2>1. HeapTypeOK' /\ key[c] \in Keys
    BY <1>2, <1>4 DEF Typed
  <2>2. /\ Listed' = Listed \ {c} /\ Sorted' /\ KnownOK'
        /\ Known' = (IF program = "optimistic" THEN Known ELSE Known \ {c})
        /\ key[c] \in members /\ members' = members \ {key[c]} /\ c \in Listed \ {head, tail}
    BY <1>2, <1>3, <2>1, UnlinkList
  <2> QED BY <1>2, <2>2
<1>6. \A u \in Threads : Hears(u, t, x, FALSE)
  BY <1>1, <1>3, NoticedFacts
<1>7. /\ call'[t].op = "remove" /\ call'[t].key = x /\ call'[t].changed = TRUE
      /\ FALSE \in call'[t].seen
  BY <1>6 DEF Hears, Ops
<1>8. /\ local'[t].pc = "unlock" /\ local'[t].prev = p /\ local'[t].node = local[t].node
      /\ local'[t].curr = c /\ local'[t].it = local[t].it
      /\ local'[t].ret = TRUE /\ \A u \in Threads \ {t} : local'[u] = local[u]
  BY <1>1, <1>3 DEF LocalType
<1>9. next'[p] = next[c] /\ \A m \in Known \ {p} : next'[m] = next[m]
  <2>1. next \in [Nodes -> Nodes \union {Null}]
    BY <1>1, Types
  <2> QED BY <1>1, <1>2, <1>3, <2>1
<1>10. ThreadOK(t)' /\ Own(t)' \subseteq Known
  <2>1. Own(t)' = (IF program = "optimistic" THEN {} ELSE {c})
    BY <1>2, <1>3, <1>7, <1>8 DEF Own
  <2>2. OwnOK(t)'
    BY <1>1, <1>2, <1>3, <1>5, <1>7, <2>1 DEF OwnOK
  <2>3. CallOK(t)'
    <3>1. (x \in members') = FALSE
      BY <1>5
    <3>2. (call'[t].key \in members') \in call'[t].seen
      BY <1>7, <3>1
    <3>3. MayAnswer(call'[t], local'[t].ret, FALSE)
      <4>1. PICK d : d = call'[t]
        OBVIOUS
      <4>2. MayAnswer(d, TRUE, FALSE)
        BY <1>7, <4>1 DEF MayAnswer
      <4> QED BY <1>8, <4>1, <4>2
    <3>4. local'[t].pc \in PlacesOf(program')
      BY <1>1, <1>3, <1>8 DEF PlacesOf
    <3> QED BY <1>2, <1>7, <1>8, <3>2, <3>3, <3>4 DEF CallOK, At
  <2>4. LocksOK(t)'
    BY <1>2, <1>3, <1>8 DEF LocksOK, LockOf
  <2>5. PointersOK(t)'
    <3>1. program' = program /\ local[t].node = Null
      BY <1>1, <1>3 DEF PointersOK
    <3>2. program # "optimistic" => local[t].it = Null
      BY <1>1 DEF PointersOK
    <3>3. program = "optimistic" => local[t].it \in Known \union {Null}
      <4>1. program = "optimistic" => Own(t) = {}
        BY DEF Own
      <4> QED BY <1>1, <4>1 DEF PointersOK
    <3>4. p \in Known' /\ c \in Known' \union Own(t)'
      BY <1>1, <1>2, <1>5, <2>1
    <3>5. local[t].it \in Known' \union {Null}
      BY <1>5, <3>2, <3>3
    <3> QED BY <1>7, <1>8, <3>1, <3>2, <3>4, <3>5 DEF PointersOK
  <2>6. SearchOK(t)'
    <3>1. p \in Known' /\ key'[p] < x
      BY <1>1, <1>2, <1>3, <1>5
    <3> QED BY <1>7, <1>8, <3>1 DEF SearchOK
  <2>7. SecureOK(t)'
    <3>1. p \in Listed'
      BY <1>2, <1>5
    <3> QED BY <1>7, <1>8, <3>1 DEF SecureOK
  <2>8. ValidateOK(t)'
    BY <1>8 DEF ValidateOK, At
  <2>9. Own(t)' \subseteq Known
    BY <1>1, <1>2, <2>1
  <2> QED BY <2>2, <2>3, <2>4, <2>5, <2>6, <2>7, <2>8, <2>9 DEF ThreadOK
<1>11. ASSUME NEW u \in Threads \ {t} PROVE ThreadOK(u)' /\ Own(u)' = Own(u)
  <2>1. /\ OwnOK(u) /\ CallOK(u) /\ PointersOK(u) /\ SecureOK(u) /\ ValidateOK(u)
        /\ call[u] \in CallType
    BY Basics DEF ThreadOK
  <2>2. Watches(u)
    <3>1. (x \in members') = FALSE
      BY <1>5
    <3>2. \A y \in Keys \ {x} : y \in members' <=> y \in members
      BY <1>5
    <3> QED BY <1>3, <1>6, <1>8, <3>1, <3>2, OtherWatches
  <2>3. Own(u) \subseteq live' \ Known' /\ c \notin Own(u)
    BY <1>1, <1>2, <1>3, <1>5, <2>1 DEF OwnOK
  <2>4. /\ HoldsPrev(u) => local[u].prev # p /\ local[u].prev # c
        /\ HoldsCurr(u) => local[u].curr # c
    BY <1>2, Exclusive
  <2>5. Secure(u) => local[u].prev \in Listed' /\ next'[local[u].prev] = next[local[u].prev]
    <3>1. Secure(u) => HoldsPrev(u) /\ local[u].prev \in Listed
      BY InPlace
    <3> QED BY <1>1, <1>5, <1>9, <2>4, <3>1
  <2>6. Secure(u) => next[local[u].prev] \in Known'
    <3> SUFFICES ASSUME Secure(u) PROVE next[local[u].prev] \in Known'
      OBVIOUS
    <3>1. local[u].prev \in Listed' \ {tail} /\ local[u].prev \in Known'
      BY <1>1, <1>5, <2>5, InPlace
    <3>2. next'[local[u].prev] \in Known'
      BY <1>5, <3>1 DEF KnownOK, Leads
    <3> QED BY <2>5, <3>2
  <2>7. \A m \in {local[u].prev, local[u].curr, local[u].node, local[u].it} :
          m \in Known => m \in Known'
    <3>1. CASE program = "optimistic"
      BY <1>5, <3>1
    <3>2. CASE program # "optimistic"
      <4>1. local[u].it # c /\ c # Null
        BY <1>1, <1>2, <2>1, <3>2 DEF PointersOK
      <4>2. local[u].prev # c
        BY <1>1, <2>1, <2>4, <3>2, <4>1 DEF CallOK, PlacesOf, PointersOK, HoldsPrev
      <4>3. local[u].curr \in Known => local[u].curr \in Known'
        <5>1. CASE local[u].pc \in {"idle", "start"}
          BY <2>1, <3>2, <4>1, <5>1, <1>5 DEF PointersOK
        <5>2. CASE At(u, "free")
          <6>1. local[u].curr \in Nodes => local[u].curr \in Own(u)
            BY <2>1, <3>2, <5>2 DEF CallOK, Own
          <6> QED BY <1>1, <1>5, <2>3, <6>1
        <5>3. CASE HoldsCurr(u)
          BY <1>5, <2>4, <5>3
        <5>4. CASE program = "fine" /\ At(u, "lockcurr")
          <6>1. Secure(u) /\ ~ call[u].changed
            BY <2>1, <5>4 DEF Secure, CallOK, At
          <6>2. next[local[u].prev] = local[u].curr
            BY <2>1, <6>1 DEF SecureOK
          <6> QED BY <2>6, <6>1, <6>2
        <5> QED BY <1>1, <2>1, <3>2, <5>1, <5>2, <5>3, <5>4 DEF CallOK, PlacesOf, HoldsCurr,
                                                               HoldsPrev, At
      <4>4. local[u].node \in Known => local[u].node \in Known'
        <5>1. CASE call[u].op # "add"
          BY <1>5, <2>1, <4>1, <5>1 DEF PointersOK
        <5>2. CASE call[u].op = "add" /\ ~ call[u].changed
          <6>1. local[u].node \in Nodes => local[u].node \in Own(u)
            BY <5>2 DEF Own
          <6> QED BY <1>1, <1>5, <2>3, <6>1
        <5>3. CASE call[u].op = "add" /\ call[u].changed
          <6>1. At(u, "unlock")
            BY <2>1, <5>3 DEF CallOK, At
          <6>2. Secure(u)
            BY <1>1, <6>1 DEF Secure, At
          <6>3. next[local[u].prev] = local[u].node
            BY <2>1, <5>3, <6>2 DEF SecureOK
          <6> QED BY <2>6, <6>2, <6>3
        <5> QED BY <5>1, <5>2, <5>3
      <4> QED BY <1>5, <4>1, <4>2, <4>3, <4>4
    <3> QED BY <3>1, <3>2
  <2>8. ValidateOK(u)'
    <3> SUFFICES ASSUME At(u, "validate") PROVE ValidateOK(u)'
      BY <1>8 DEF ValidateOK, At
    <3>1. program = "optimistic" /\ HoldsPrev(u)
      BY <1>1, <2>1 DEF CallOK, PlacesOf, HoldsPrev, At
    <3>2. local[u].it \in Known' /\ Known' = Known
      BY <1>5, <2>1, <3>1 DEF ValidateOK
    <3>3. CASE local[u].prev \in Listed
      <4>1. local[u].prev \in Listed'
        BY <1>5, <2>4, <3>1, <3>3
      <4> QED BY <1>8, <3>2, <4>1 DEF ValidateOK
    <3>4. CASE local[u].prev \notin Listed
      <4>1. PICK S \in SUBSET Known :
              /\ local[u].it \in S /\ local[u].prev \notin S
              /\ \A m \in S \ {tail} : next[m] \in S
        BY <2>1, <3>4 DEF ValidateOK
      <4>2. ASSUME NEW m \in S \ {tail} PROVE next'[m] \in S
        <5>1. CASE m = p
          <6>1. c \in S
            BY <1>2, <4>1, <5>1
          <6> QED BY <1>5, <1>9, <4>1, <5>1, <6>1
        <5>2. CASE m # p
          BY <1>9, <4>1, <5>2
        <5> QED BY <5>1, <5>2
      <4>3. \E Q \in SUBSET Known' :
              /\ local[u].it \in Q /\ local[u].prev \notin Q
              /\ \A m \in Q \ {tail} : next'[m] \in Q
        BY <3>2, <4>1, <4>2
      <4> QED BY <1>8, <3>2, <4>3 DEF ValidateOK
    <3> QED BY <3>3, <3>4
  <2> QED BY <1>3, <2>2, <2>3, <2>5, <2>7, <2>8, OtherKeeps
<1>12. LockedInv'
  BY <1>4, <1>5, <1>10, <1>11, StepKeeps
<1> QED BY <1>2, <1>3, <1>5, <1>12

-----------------------------------------------------------------------------
(* The theorems.                                                            *)

LEMMA InitFacts ==
  ASSUME Init
  PROVE  LockedInv /\ members = {}
<1>1. /\ key = [n \in Nodes |-> IF n = tail THEN MaxKey + 1 ELSE 0]
      /\ next = [n \in Nodes |-> IF n = head THEN tail ELSE Null]
      /\ live = {head, tail} /\ local = [t \in Threads |-> Idle]
      /\ works = [t \in Threads |-> 0] /\ call = [t \in Threads |-> Returned(FALSE)]
      /\ mutex = [n \in Nodes \union {Giant} |-> Free]
      /\ program \in {"coarse", "fine", "optimistic"}
  BY DEF Init, HeapInit
<1>2. HeapTypeOK
  <2>1. Idle \in LocalType /\ Returned(FALSE) \in CallType
    BY MaxKeyAssumption DEF Idle, LocalType, Places, Returned, CallType
  <2>2. 0 \in 0 .. MaxKey + 1 /\ MaxKey + 1 \in 0 .. MaxKey + 1 /\ 0 \in 0 .. NumWork
    BY MaxKeyAssumption, NumWorkAssumption
  <2>3. local \in [Threads -> LocalType] /\ call \in [Threads -> CallType]
    BY <1>1, <2>1
  <2> QED BY <1>1, <2>2, <2>3, Sentinels DEF HeapTypeOK, LocalType, CallType
<1>3. /\ key[head] = 0 /\ key[tail] = MaxKey + 1 /\ next[head] = tail
      /\ key[head] < key[tail]
  BY <1>1, Sentinels, MaxKeyAssumption
<1>4. Leads(next, key, {head, tail})
  BY <1>3, Sentinels DEF Leads
<1>5. Listed = {head, tail} /\ tail \in Listed
  <2>1. key \in [Nodes -> Nat]
    BY <1>2, Types
  <2>2. /\ tail \in ListedBy(next) /\ ListedBy(next) \subseteq {head, tail}
        /\ Leads(next, key, ListedBy(next))
    BY <1>4, <2>1, ListedOrdered
  <2> QED BY <2>2, ListedNow DEF Leads
<1>6. Known = {head, tail}
  <2>1. {n \in Nodes : n = tail \/ next[n] # Null} = {head, tail}
    BY <1>1, <1>3, Sentinels
  <2> QED BY <1>5, <2>1 DEF Known
<1>7. ListInv
  <2>1. Sorted
    BY <1>1, <1>3, <1>5 DEF Sorted
  <2> QED BY <1>1, <1>2, <2>1 DEF ListInv
<1>8. KnownOK
  BY <1>1, <1>3, <1>4, <1>6 DEF KnownOK
<1>9. ASSUME NEW t \in Threads PROVE ThreadOK(t) /\ Own(t) = {}
  <2>1. local[t] = Idle /\ call[t] = Returned(FALSE)
    BY <1>1
  <2>2. Own(t) = {}
    BY <2>1 DEF Own, Returned
  <2>3. OwnOK(t) /\ PointersOK(t)
    BY <2>1, <2>2 DEF OwnOK, PointersOK, Idle, Returned
  <2>4. CallOK(t)
    <3>1. local[t].pc \in PlacesOf(program)
      BY <1>1, <2>1 DEF PlacesOf, Idle
    <3> QED BY <2>1, <3>1 DEF CallOK, At, Ops, Idle, Returned
  <2>5. LocksOK(t) /\ SearchOK(t) /\ SecureOK(t) /\ ValidateOK(t)
    BY <1>1, <2>1 DEF LocksOK, HoldsPrev, HoldsCurr, SearchOK, SecureOK, Secure, ValidateOK,
                      At, Idle
  <2> QED BY <2>2, <2>3, <2>4, <2>5 DEF ThreadOK
<1>10. OwnApart
  BY <1>9 DEF OwnApart
<1>11. members = {}
  BY <1>5 DEF members
<1> QED BY <1>7, <1>8, <1>9, <1>10, <1>11 DEF LockedInv

\* A step that stutters keeps everything.
LEMMA StutterStep ==
  ASSUME LockedInv, UNCHANGED vars
  PROVE  LockedInv' /\ members' = members
<1>1. /\ key' = key /\ next' = next /\ live' = live /\ local' = local /\ works' = works
      /\ call' = call /\ mutex' = mutex /\ program' = program
  BY DEF vars, heap
<1>2. Listed' = Listed
  BY <1>1, ListedNow
<1>3. members' = members /\ Known' = Known
  BY <1>1, <1>2 DEF members, Known
<1>4. ListInv'
  BY <1>1, <1>2 DEF LockedInv, ListInv, HeapTypeOK, Sorted
<1>5. KnownOK'
  BY <1>1, <1>3 DEF LockedInv, KnownOK, Leads
<1>6. \A t \in Threads : Own(t)' = Own(t)
  BY <1>1 DEF Own
<1>7. OwnApart'
  BY <1>6 DEF LockedInv, OwnApart
<1>8. ASSUME NEW t \in Threads PROVE ThreadOK(t)'
  <2>1. ThreadOK(t)
    BY DEF LockedInv
  <2>2. OwnOK(t)' /\ PointersOK(t)'
    BY <1>1, <1>3, <1>6, <2>1 DEF ThreadOK, OwnOK, PointersOK
  <2>3. CallOK(t)'
    BY <1>1, <1>3, <2>1 DEF ThreadOK, CallOK, At
  <2>4. LocksOK(t)'
    BY <1>1, <2>1 DEF ThreadOK, LocksOK, LockOf, HoldsPrev, HoldsCurr, At
  <2>5. SearchOK(t)' /\ SecureOK(t)'
    BY <1>1, <1>2, <1>3, <2>1 DEF ThreadOK, SearchOK, SecureOK, Secure
  <2>6. ValidateOK(t)'
    BY <1>1, <1>2, <1>3, <2>1 DEF ThreadOK, ValidateOK, At
  <2> QED BY <2>2, <2>3, <2>4, <2>5, <2>6 DEF ThreadOK
<1> QED BY <1>3, <1>4, <1>5, <1>7, <1>8 DEF LockedInv

\* What a step is for the set: nothing, or one step of SetObject.
LEMMA StepImplements ==
  ASSUME LockedInv, NEW t \in Threads, Step(t)
  PROVE  LockedInv' /\ (Set!Next \/ UNCHANGED <<members, call>>)
<1>1. CASE Begin(t, members) /\ UNCHANGED mutex
  <2>1. LockedInv' /\ members' = members /\ call[t].op = "none"
    BY <1>1, BeginStep
  <2>2. Set!Begin(t)
    BY <1>1, <2>1 DEF Begin, Set!Begin, Set!Began, Began, Set!Ops, Ops
  <2> QED BY <2>1, <2>2 DEF Set!Next
<1>2. CASE Starts(t) \/ Walks(t) \/ Locks(t) \/ Validates(t) \/ Retries(t)
  BY <1>2, StartStep, WalksStep, LocksStep, ValidatesStep, RetryStep
<1>3. CASE /\ Applies(t)
           /\ \/ call[t].op = "add" /\ Found(t) /\ Answer(t, FALSE)
              \/ call[t].op = "remove" /\ ~ Found(t) /\ Answer(t, FALSE)
              \/ Contains(t)
  BY <1>3, AnswersStep
<1>4. CASE Applies(t) /\ call[t].op = "add" /\ Link(t)
  <2>1. /\ LockedInv' /\ call[t].key \notin members /\ ~ call[t].changed
        /\ members' = members \union {call[t].key}
        /\ call' = Noticed(call, t, call[t].key, TRUE)
    BY <1>4, LinkStep
  <2>2. (call[t].key \notin members) = TRUE
    BY <2>1
  <2>3. call' = Set!Noticed(call, t, call[t].key, call[t].key \notin members)
    BY <2>1, <2>2 DEF Noticed, Set!Noticed, Ops, Set!Ops
  <2>4. Set!Change(t)
    BY <1>4, <2>1, <2>3 DEF Set!Change
  <2> QED BY <2>1, <2>4 DEF Set!Next
<1>5. CASE Applies(t) /\ call[t].op = "remove" /\ Unlink(t)
  <2>1. /\ LockedInv' /\ call[t].key \in members /\ ~ call[t].changed
        /\ members' = members \ {call[t].key}
        /\ call' = Noticed(call, t, call[t].key, FALSE)
    BY <1>5, UnlinkStep
  <2>2. (call[t].key \notin members) = FALSE
    BY <2>1
  <2>3. call' = Set!Noticed(call, t, call[t].key, call[t].key \notin members)
    BY <2>1, <2>2 DEF Noticed, Set!Noticed, Ops, Set!Ops
  <2>4. Set!Change(t)
    BY <1>5, <2>1, <2>3 DEF Set!Change
  <2> QED BY <2>1, <2>4 DEF Set!Next
<1>6. CASE Unlocks(t) \/ (program # "optimistic" /\ FreeRemoved(t))
  <2>1. /\ LockedInv' /\ members' = members
        /\ \/ call' = call
           \/ \E answer \in BOOLEAN : /\ Return(t, answer) /\ call[t].op \in Ops
                                      /\ MayAnswer(call[t], answer, FALSE)
    BY <1>6, UnlocksStep, FreeStep
  <2>2. CASE call' = call
    BY <2>1, <2>2
  <2>3. CASE \E answer \in BOOLEAN : /\ Return(t, answer) /\ call[t].op \in Ops
                                     /\ MayAnswer(call[t], answer, FALSE)
    <3>1. PICK answer \in BOOLEAN : /\ Return(t, answer) /\ call[t].op \in Ops
                                    /\ MayAnswer(call[t], answer, FALSE)
      BY <2>3
    <3>2. /\ Set!MayAnswer(call[t], answer, FALSE)
          /\ call' = [call EXCEPT ![t] = Set!Returned(answer)] /\ call[t].op \in Set!Ops
      BY <3>1 DEF MayAnswer, Set!MayAnswer, Return, Returned, Set!Returned, Ops, Set!Ops
    <3>3. Set!End(t)
      BY <2>1, <3>2 DEF Set!End
    <3> QED BY <2>1, <3>3 DEF Set!Next
  <2> QED BY <2>1, <2>2, <2>3
<1>7. CASE Applies(t) /\ (Add(t) \/ Remove(t) \/ Contains(t))
  BY <1>3, <1>4, <1>5, <1>7 DEF Add, Remove
<1> QED BY <1>1, <1>2, <1>3, <1>4, <1>5, <1>6, <1>7, StepCases

\* The invariant: the list is sorted at all times, and a thread that writes
\* prev->next holds the mutexes of two nodes that are listed side by side.
THEOREM LockedInvariant == Spec => []LockedInv
<1>1. Init => LockedInv
  BY InitFacts
<1>2. LockedInv /\ [Next]_vars => LockedInv'
  <2> SUFFICES ASSUME LockedInv, [Next]_vars PROVE LockedInv'
    OBVIOUS
  <2>1. CASE \E t \in Threads : Step(t)
    BY <2>1, StepImplements
  <2>2. CASE Terminating
    BY <2>2, StutterStep DEF Terminating
  <2>3. CASE UNCHANGED vars
    BY <2>3, StutterStep
  <2> QED BY <2>1, <2>2, <2>3 DEF Next
<1> QED BY <1>1, <1>2, PTL DEF Spec

\* The coarse-grained and the fine-grained program free a node when they have
\* unlocked it, and no thread still has a pointer to it.
THEOREM NothingDangles == Spec => []NoneDangling
<1>1. LockedInv => NoneDangling
  <2> SUFFICES ASSUME LockedInv, NEW t \in Threads
               PROVE  {local[t].prev, local[t].curr, local[t].node, local[t].it}
                        \subseteq live \union {Null}
    BY DEF NoneDangling
  <2>1. PointersOK(t) /\ OwnOK(t) /\ Known \subseteq live
    BY Basics, ListFacts DEF ThreadOK
  <2> QED BY <2>1 DEF PointersOK, OwnOK
<1> QED BY <1>1, LockedInvariant, PTL

\* Each of the three programs is a set: a call changes it once, at its assignment
\* to prev->next, and its answer was true during the call.
THEOREM LockedListIsASet == Spec => ImplementsSet
<1>1. Init => Set!Init
  BY InitFacts DEF Init, HeapInit, Set!Init, Set!Returned, Returned
<1>2. LockedInv /\ [Next]_vars => [Set!Next]_<<members, call>>
  <2> SUFFICES ASSUME LockedInv, [Next]_vars
               PROVE  Set!Next \/ UNCHANGED <<members, call>>
    OBVIOUS
  <2>1. CASE \E t \in Threads : Step(t)
    BY <2>1, StepImplements
  <2>2. CASE UNCHANGED vars
    BY <2>2, StutterStep DEF vars
  <2> QED BY <2>1, <2>2 DEF Next, Terminating
<1> QED BY <1>1, <1>2, LockedInvariant, PTL DEF Spec, ImplementsSet, Set!Spec
=============================================================================
