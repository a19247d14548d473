--------------------------- MODULE TransactionProofs ---------------------------
(****************************************************************************)
(* Safety of project2's transactions for any number of workers, records and *)
(* commits.  First, LockInv is inductive, and it implies that the records   *)
(* are free of data races.  Second, with SerialInv the transactions are     *)
(* serial: each commit is one transaction of the serial database, and the   *)
(* validator accepts the log files.  Third, DeadlockInv is inductive: the   *)
(* search of hasCycle leaves no deadlock undetected.                        *)
(****************************************************************************)
EXTENDS TransactionRefinement, TLAPS, SequenceTheorems, NaturalsInduction,
        WellFoundedInduction, FiniteSetTheorems

-----------------------------------------------------------------------------
(* What the operations of the lock table do to one queue.                   *)

LEMMA PositionOf ==
    ASSUME NEW q \in Seq(LockElement), NEW t \in Tids(q)
    PROVE  Position(q, t) \in DOMAIN q /\ q[Position(q, t)].tid = t
  BY DEF Position, Tids

LEMMA AddLockType ==
    ASSUME NEW q \in Seq(LockElement), NEW t \in Workers, NEW b \in BOOLEAN
    PROVE  /\ AddLock(q, t, b) \in Seq(LockElement)
           /\ Len(AddLock(q, t, b)) = Len(q) + 1
           /\ \A p \in DOMAIN q : AddLock(q, t, b)[p] = q[p]
           /\ AddLock(q, t, b)[Len(q) + 1] =
                [tid |-> t, isReader |-> b, isBlocked |-> TRUE]
  <1>1. [tid |-> t, isReader |-> b, isBlocked |-> TRUE] \in LockElement
    BY DEF LockElement
  <1> QED
    BY <1>1, AppendProperties DEF AddLock

LEMMA RemoveAtElements ==
    ASSUME NEW S, NEW q \in Seq(S), NEW p \in DOMAIN q
    PROVE  /\ RemoveAt(q, p) \in Seq(S)
           /\ Len(RemoveAt(q, p)) = Len(q) - 1
           /\ \A n \in 1 .. Len(q) - 1 :
                RemoveAt(q, p)[n] = IF n < p THEN q[n] ELSE q[n + 1]
  <1> DEFINE front == SubSeq(q, 1, p - 1)
             back == SubSeq(q, p + 1, Len(q))
  <1>1. /\ front \in Seq(S)
        /\ Len(front) = p - 1
        /\ \A n \in 1 .. p - 1 : front[n] = q[n]
    OBVIOUS
  <1>2. /\ back \in Seq(S)
        /\ Len(back) = Len(q) - p
        /\ \A n \in 1 .. Len(q) - p : back[n] = q[n + p]
    OBVIOUS
  <1>3. /\ front \o back \in Seq(S)
        /\ Len(front \o back) = Len(q) - 1
        /\ \A n \in 1 .. Len(q) - 1 :
             (front \o back)[n] = IF n < p THEN q[n] ELSE q[n + 1]
    <2> HIDE DEF front, back
    <2>1. p \in 1 .. Len(q) /\ Len(q) \in Nat
      OBVIOUS
    <2>2. front \o back \in Seq(S) /\ Len(front \o back) = Len(q) - 1
      BY <1>1, <1>2, <2>1
    <2>3. ASSUME NEW n \in 1 .. Len(q) - 1
          PROVE  (front \o back)[n] = IF n < p THEN q[n] ELSE q[n + 1]
      <3>1. CASE n < p
        <4>1. (front \o back)[n] = front[n]
          BY <3>1, <1>1, <1>2, <2>1, ConcatProperties
        <4>2. n \in 1 .. p - 1
          BY <3>1, <2>1
        <4>3. front[n] = q[n]
          BY <4>2, <1>1
        <4> QED
          BY <3>1, <4>1, <4>3
      <3>2. CASE n >= p
        <4>0. /\ n \in 1 .. Len(front) + Len(back)
              /\ ~(n <= Len(front))
              /\ n - Len(front) = n - (p - 1)
          BY <3>2, <1>1, <1>2, <2>1
        <4>1. (front \o back)[n] = back[n - (p - 1)]
          BY <4>0, <1>1, <1>2, ConcatProperties, SMTT(30)
        <4>2. n - (p - 1) \in 1 .. Len(q) - p
          BY <3>2, <2>1
        <4>3. back[n - (p - 1)] = q[n - (p - 1) + p]
          BY <4>2, <1>2
        <4>4. n - (p - 1) + p = n + 1 /\ ~ (n < p)
          BY <3>2, <2>1
        <4> QED
          BY <4>1, <4>3, <4>4
      <3>3. n < p \/ n >= p
        BY <2>1
      <3> QED
        BY <3>1, <3>2, <3>3, Zenon
    <2> QED
      BY <2>2, <2>3
  <1> QED
    BY <1>3 DEF RemoveAt

-----------------------------------------------------------------------------
(* The four ways a queue changes. *)

LEMMA AddLockQueue ==
    ASSUME NEW q \in Seq(LockElement), NEW t \in Workers, NEW b \in BOOLEAN,
           t \notin Tids(q), DistinctTids(q), Exclusive(q)
    PROVE  LET new == AddLock(q, t, b)
           IN  /\ new \in Seq(LockElement)
               /\ DistinctTids(new) /\ Exclusive(new)
               /\ Tids(new) = Tids(q) \union {t}
               /\ Len(new) \in DOMAIN new /\ new[Len(new)].tid = t
               /\ \A u \in Workers : u # t =>
                    /\ Passed(q, u) <=> Passed(new, u)
                    /\ Writes(q, u) <=> Writes(new, u)
               /\ ~Passed(new, t)
               /\ Writes(new, t) <=> ~b
  <1> DEFINE new == AddLock(q, t, b)
  <1>1. /\ new \in Seq(LockElement)
        /\ Len(new) = Len(q) + 1
        /\ DOMAIN new = 1 .. Len(q) + 1
        /\ DOMAIN q = 1 .. Len(q)
        /\ Len(q) \in Nat
        /\ \A p \in 1 .. Len(q) : new[p] = q[p]
        /\ new[Len(q) + 1] = [tid |-> t, isReader |-> b, isBlocked |-> TRUE]
    BY AddLockType
  <1>2. \A p \in 1 .. Len(q) : q[p].tid # t
    BY <1>1 DEF Tids
  <1> HIDE DEF new
  <1>3. DistinctTids(new)
    BY <1>1, <1>2 DEF DistinctTids
  <1>4. Exclusive(new)
    BY <1>1 DEF Exclusive
  <1>5. Tids(new) = Tids(q) \union {t}
    BY <1>1 DEF Tids
  <1>6. Len(new) \in DOMAIN new /\ new[Len(new)].tid = t
    BY <1>1
  <1>7. ASSUME NEW u \in Workers, u # t
        PROVE  /\ Passed(q, u) <=> Passed(new, u)
               /\ Writes(q, u) <=> Writes(new, u)
    BY <1>1, <1>7 DEF Passed, Writes
  <1>8. ~Passed(new, t)
    BY <1>1, <1>2 DEF Passed
  <1>9. Writes(new, t) <=> ~b
    BY <1>1, <1>2 DEF Writes
  <1> QED
    BY <1>1, <1>3, <1>4, <1>5, <1>6, <1>7, <1>8, <1>9 DEF new

LEMMA EnterQueue ==
    ASSUME NEW q \in Seq(LockElement), NEW p \in DOMAIN q,
           DistinctTids(q), Exclusive(q), CanEnter(q, p)
    PROVE  LET new == Enter(q, p)
           IN  /\ new \in Seq(LockElement)
               /\ DistinctTids(new) /\ Exclusive(new)
               /\ Tids(new) = Tids(q)
               /\ Passed(new, q[p].tid)
               /\ \A u \in Workers :
                    /\ u # q[p].tid => (Passed(q, u) <=> Passed(new, u))
                    /\ Writes(q, u) <=> Writes(new, u)
  <1> DEFINE new == Enter(q, p)
  <1>1. /\ new \in Seq(LockElement)
        /\ DOMAIN new = 1 .. Len(q)
        /\ DOMAIN q = 1 .. Len(q)
        /\ Len(q) \in Nat
        /\ \A n \in 1 .. Len(q) :
             /\ new[n].tid = q[n].tid
             /\ new[n].isReader <=> q[n].isReader
             /\ n = p => ~new[n].isBlocked
             /\ n # p => (new[n].isBlocked <=> q[n].isBlocked)
    <2>1. p \in 1 .. Len(q) /\ DOMAIN q = 1 .. Len(q) /\ Len(q) \in Nat
      OBVIOUS
    <2>2. q[p] \in LockElement
      BY <2>1
    <2> DEFINE e == [q[p] EXCEPT !.isBlocked = FALSE]
    <2>3. e \in LockElement /\ e.tid = q[p].tid /\ e.isReader = q[p].isReader
          /\ e.isBlocked = FALSE
      BY <2>2 DEF LockElement
    <2>4. new = [q EXCEPT ![p] = e]
      BY DEF Enter
    <2> HIDE DEF e, new
    <2>5. new \in Seq(LockElement) /\ DOMAIN new = 1 .. Len(q)
      BY <2>1, <2>3, <2>4, ExceptSeq
    <2>6. \A n \in 1 .. Len(q) : new[n] = IF n = p THEN e ELSE q[n]
      BY <2>1, <2>4
    <2> QED
      BY <2>1, <2>3, <2>5, <2>6
  <1> HIDE DEF new
  <1>2. DistinctTids(new)
    BY <1>1 DEF DistinctTids
  <1>3. Exclusive(new)
    <2>1. CASE ~q[p].isBlocked
      BY <1>1, <2>1 DEF Exclusive
    <2>2. CASE p = 1 /\ q[p].isBlocked
      <3>1. \A n \in 1 .. Len(q) : 1 < n => q[n].isBlocked
        BY <1>1, <2>2 DEF Exclusive
      <3>2. \A n \in 1 .. Len(q) : 1 < n => new[n].isBlocked
        BY <1>1, <2>2, <3>1
      <3> QED
        BY <1>1, <2>2, <3>2 DEF Exclusive
    <2>3. CASE p > 1 /\ q[p].isReader /\ q[p - 1].isReader /\ ~q[p - 1].isBlocked
      <3>1. \A m \in 1 .. p : q[m].isReader /\ (m < p => ~q[m].isBlocked)
        BY <1>1, <2>3 DEF Exclusive
      <3> QED
        <4> SUFFICES ASSUME NEW m \in 1 .. Len(q), NEW n \in 1 .. Len(q),
                            m < n, ~new[n].isBlocked
                     PROVE  ~new[m].isBlocked /\ new[m].isReader /\ new[n].isReader
          BY <1>1 DEF Exclusive
        <4>1. CASE n <= p
          BY <1>1, <3>1, <4>1
        <4>2. CASE n > p
          <5>1. ~q[n].isBlocked
            BY <1>1, <4>2
          <5>2. ~q[m].isBlocked /\ q[m].isReader /\ q[n].isReader
            BY <1>1, <5>1 DEF Exclusive
          <5> QED
            BY <1>1, <5>2
        <4> QED
          BY <1>1, <4>1, <4>2
    <2> QED
      BY <2>1, <2>2, <2>3 DEF CanEnter
  <1>4. Tids(new) = Tids(q)
    BY <1>1 DEF Tids
  <1>5. Passed(new, q[p].tid)
    BY <1>1 DEF Passed
  <1>6. ASSUME NEW u \in Workers
        PROVE  /\ u # q[p].tid => (Passed(q, u) <=> Passed(new, u))
               /\ Writes(q, u) <=> Writes(new, u)
    BY <1>1 DEF Passed, Writes
  <1> QED
    BY <1>1, <1>2, <1>3, <1>4, <1>5, <1>6 DEF new

LEMMA UnlockQueue ==
    ASSUME NEW q \in Seq(LockElement), NEW t \in Tids(q),
           DistinctTids(q), Exclusive(q)
    PROVE  LET new == Unlock(q, t)
           IN  /\ new \in Seq(LockElement)
               /\ DistinctTids(new) /\ Exclusive(new)
               /\ Tids(new) = Tids(q) \ {t}
               /\ \A u \in Workers : u # t =>
                    /\ Passed(q, u) <=> Passed(new, u)
                    /\ Writes(q, u) <=> Writes(new, u)
  <1> DEFINE p == Position(q, t)
             new == Unlock(q, t)
             old(n) == IF n < p THEN n ELSE n + 1
  <1>1. p \in 1 .. Len(q) /\ q[p].tid = t /\ Len(q) \in Nat /\ DOMAIN q = 1 .. Len(q)
    BY PositionOf
  <1> HIDE DEF p
  <1>2. /\ new \in Seq(LockElement)
        /\ DOMAIN new = 1 .. Len(q) - 1
        /\ \A n \in 1 .. Len(q) - 1 : new[n] = q[old(n)]
    BY <1>1, RemoveAtElements DEF Unlock, p
  <1> HIDE DEF new
  <1>3. \A n \in 1 .. Len(q) - 1 : old(n) \in 1 .. Len(q) /\ old(n) # p
    BY <1>1
  <1>4. \A m, n \in 1 .. Len(q) - 1 : (m < n <=> old(m) < old(n)) /\ (old(m) = old(n) => m = n)
    BY <1>1
  <1>5. \A k \in 1 .. Len(q) : k # p => \E n \in 1 .. Len(q) - 1 : old(n) = k
    <2> SUFFICES ASSUME NEW k \in 1 .. Len(q), k # p
                 PROVE  \E n \in 1 .. Len(q) - 1 : old(n) = k
      OBVIOUS
    <2>1. CASE k < p
      <3>1. k \in 1 .. Len(q) - 1 /\ old(k) = k
        BY <1>1, <2>1
      <3> QED
        BY <3>1
    <2>2. CASE k > p
      <3>1. k - 1 \in 1 .. Len(q) - 1 /\ old(k - 1) = k
        BY <1>1, <2>2
      <3> QED
        BY <3>1
    <2> QED
      BY <1>1, <2>1, <2>2
  <1> HIDE DEF old
  <1>6. DistinctTids(new)
    BY <1>1, <1>2, <1>3, <1>4 DEF DistinctTids
  <1>7. Exclusive(new)
    BY <1>1, <1>2, <1>3, <1>4 DEF Exclusive
  <1>8. \A n \in 1 .. Len(q) : q[n].tid = t => n = p
    BY <1>1 DEF DistinctTids
  <1>9. Tids(new) = Tids(q) \ {t}
    <2>1. Tids(new) \subseteq Tids(q) \ {t}
      BY <1>1, <1>2, <1>3, <1>8 DEF Tids
    <2>2. Tids(q) \ {t} \subseteq Tids(new)
      <3> SUFFICES ASSUME NEW k \in 1 .. Len(q), q[k].tid # t
                   PROVE  q[k].tid \in Tids(new)
        BY <1>1 DEF Tids
      <3>1. PICK n \in 1 .. Len(q) - 1 : old(n) = k
        BY <1>1, <1>5
      <3> QED
        BY <1>2, <3>1 DEF Tids
    <2> QED
      BY <2>1, <2>2
  <1>10. ASSUME NEW u \in Workers, u # t
         PROVE  /\ Passed(q, u) <=> Passed(new, u)
                /\ Writes(q, u) <=> Writes(new, u)
    <2>1. Passed(q, u) => Passed(new, u)
      BY <1>1, <1>2, <1>5, <1>10 DEF Passed
    <2>2. Passed(new, u) => Passed(q, u)
      BY <1>1, <1>2, <1>3 DEF Passed
    <2>3. Writes(q, u) => Writes(new, u)
      BY <1>1, <1>2, <1>5, <1>10 DEF Writes
    <2>4. Writes(new, u) => Writes(q, u)
      BY <1>1, <1>2, <1>3 DEF Writes
    <2> QED
      BY <2>1, <2>2, <2>3, <2>4
  <1> QED
    BY <1>2, <1>6, <1>7, <1>9, <1>10 DEF new

\* Two workers whose elements of one queue both passed both read.
LEMMA PassedTogetherRead ==
    ASSUME NEW q \in Seq(LockElement), DistinctTids(q), Exclusive(q),
           NEW t, NEW u, t # u, Passed(q, t), Passed(q, u)
    PROVE  ~Writes(q, t) /\ ~Writes(q, u)
  <1>1. PICK m \in DOMAIN q : q[m].tid = t /\ ~q[m].isBlocked
    BY DEF Passed
  <1>2. PICK n \in DOMAIN q : q[n].tid = u /\ ~q[n].isBlocked
    BY DEF Passed
  <1>3. m # n /\ m \in Nat /\ n \in Nat
    BY <1>1, <1>2
  <1>4. q[m].isReader /\ q[n].isReader
    BY <1>1, <1>2, <1>3 DEF Exclusive
  <1> QED
    BY <1>1, <1>2, <1>4 DEF Writes, DistinctTids
-----------------------------------------------------------------------------
(* The same for the whole table: an operation of worker t keeps the table's *)
(* invariant and changes nothing in what the queues say of other workers.   *)

TableInv == LockTableTypeOK /\ HoldersExclude /\ TokensMatchQueues

OthersKeep(t) ==
    \A u \in Workers : \A r \in Records : u # t =>
        /\ Passed(threadQueue[r], u) <=> Passed(threadQueue'[r], u)
        /\ Writes(threadQueue[r], u) <=> Writes(threadQueue'[r], u)

\* One queue changes to new, which adds t to it, and t gets a token for it.
LEMMA TableAdds ==
    ASSUME TableInv, NEW t \in Workers, NEW r \in Records, r \notin ToSet(adj[t]),
           NEW new \in Seq(LockElement), DistinctTids(new), Exclusive(new),
           Tids(new) = Tids(threadQueue[r]) \union {t},
           \A u \in Workers : u # t =>
             /\ Passed(threadQueue[r], u) <=> Passed(new, u)
             /\ Writes(threadQueue[r], u) <=> Writes(new, u),
           threadQueue' = [threadQueue EXCEPT ![r] = new],
           adj' = TokensWith(t, r)
    PROVE  /\ TableInv'
           /\ OthersKeep(t)
           /\ \A u \in Workers : u # t => adj'[u] = adj[u]
           /\ Len(adj'[t]) = Len(adj[t]) + 1
           /\ \A n \in 1 .. Len(adj[t]) : adj'[t][n] = adj[t][n]
           /\ adj'[t][Len(adj[t]) + 1] = r
  <1> USE DEF TableInv
  <1>1. /\ threadQueue'[r] = new
        /\ \A s \in Records : s # r => threadQueue'[s] = threadQueue[s]
        /\ threadQueue' \in [Records -> Seq(LockElement)]
    BY DEF LockTableTypeOK
  <1>2. adj[t] \in Seq(Records) /\ adj' = [adj EXCEPT ![t] = Append(adj[t], r)]
    BY DEF LockTableTypeOK, TokensWith
  <1>3. /\ adj' \in [Workers -> Seq(Records)]
        /\ \A u \in Workers : u # t => adj'[u] = adj[u]
        /\ adj'[t] = Append(adj[t], r)
    BY <1>2, AppendProperties DEF LockTableTypeOK
  <1>4. /\ DOMAIN adj[t] = 1 .. Len(adj[t]) /\ Len(adj[t]) \in Nat
        /\ DOMAIN adj'[t] = 1 .. Len(adj[t]) + 1
        /\ Len(adj'[t]) = Len(adj[t]) + 1
        /\ \A n \in 1 .. Len(adj[t]) : adj'[t][n] = adj[t][n]
        /\ adj'[t][Len(adj[t]) + 1] = r
    BY <1>2, <1>3, AppendProperties
  <1>5. ToSet(adj'[t]) = ToSet(adj[t]) \union {r}
    <2>1. DOMAIN adj'[t] = DOMAIN adj[t] \union {Len(adj[t]) + 1}
      BY <1>4
    <2>2. ASSUME NEW s \in ToSet(adj'[t]) PROVE s \in ToSet(adj[t]) \union {r}
      BY <1>4, <2>1 DEF ToSet
    <2>3. ASSUME NEW s \in ToSet(adj[t]) \union {r} PROVE s \in ToSet(adj'[t])
      BY <1>4, <2>1 DEF ToSet
    <2> QED BY <2>2, <2>3
  <1>6. LockTableTypeOK'
    BY <1>1, <1>3 DEF LockTableTypeOK
  <1>7. HoldersExclude'
    BY <1>1 DEF HoldersExclude
  <1>8. TokensMatchQueues'
    <2>1. ASSUME NEW u \in Workers, NEW m \in DOMAIN adj'[u], NEW n \in DOMAIN adj'[u],
                 adj'[u][m] = adj'[u][n]
          PROVE  m = n
      <3>1. CASE u = t
        <4>1. \A i \in 1 .. Len(adj[t]) : adj[t][i] # r
          BY <1>4 DEF ToSet
        <4> QED
          BY <2>1, <3>1, <4>1, <1>4, SMTT(30) DEF TokensMatchQueues
      <3>2. CASE u # t
        BY <2>1, <3>2, <1>3 DEF TokensMatchQueues
      <3> QED
        BY <3>1, <3>2
    <2>2. ASSUME NEW s \in Records PROVE DistinctTids(threadQueue'[s])
      BY <1>1 DEF TokensMatchQueues
    <2>3. ASSUME NEW s \in Records, NEW u \in Workers
          PROVE  s \in ToSet(adj'[u]) <=> u \in Tids(threadQueue'[s])
      <3>1. CASE s = r /\ u = t
        BY <3>1, <1>1, <1>5
      <3>2. CASE s # r /\ u = t
        BY <3>2, <1>1, <1>5 DEF TokensMatchQueues
      <3>3. CASE u # t
        BY <3>3, <1>1, <1>3 DEF TokensMatchQueues
      <3> QED
        BY <3>1, <3>2, <3>3
    <2> QED
      BY <2>1, <2>2, <2>3 DEF TokensMatchQueues
  <1>9. OthersKeep(t)
    BY <1>1 DEF OthersKeep
  <1> QED
    BY <1>3, <1>4, <1>6, <1>7, <1>8, <1>9

\* The effect on the table of asking for a lock, granted or not.
AskedFor(t, r, isReader) ==
    /\ TableInv'
    /\ OthersKeep(t)
    /\ \A u \in Workers : u # t => adj'[u] = adj[u]
    /\ Len(adj'[t]) = Len(adj[t]) + 1
    /\ \A n \in 1 .. Len(adj[t]) : adj'[t][n] = adj[t][n]
    /\ adj'[t][Len(adj[t]) + 1] = r
    /\ \A s \in Records : s # r => threadQueue'[s] = threadQueue[s]
    /\ Writes(threadQueue'[r], t) <=> ~isReader

LEMMA AskTable ==
    ASSUME TableInv, NEW t \in Workers, NEW r \in Records, NEW b \in BOOLEAN,
           r \notin ToSet(adj[t]),
           threadQueue' = Requested(t, r, b), adj' = TokensWith(t, r)
    PROVE  AskedFor(t, r, b)
  <1> DEFINE q == threadQueue[r]
             new == AddLock(q, t, b)
  <1>1. /\ q \in Seq(LockElement) /\ DistinctTids(q) /\ Exclusive(q)
        /\ t \notin Tids(q)
    BY DEF TableInv, LockTableTypeOK, HoldersExclude, TokensMatchQueues
  <1>2. threadQueue' = [threadQueue EXCEPT ![r] = new]
    BY DEF Requested
  <1>3. threadQueue'[r] = new /\ \A s \in Records : s # r => threadQueue'[s] = threadQueue[s]
    BY <1>2 DEF TableInv, LockTableTypeOK
  <1> HIDE DEF q
  <1>4. /\ new \in Seq(LockElement) /\ DistinctTids(new) /\ Exclusive(new)
        /\ Tids(new) = Tids(q) \union {t}
        /\ \A u \in Workers : u # t =>
             /\ Passed(q, u) <=> Passed(new, u)
             /\ Writes(q, u) <=> Writes(new, u)
        /\ Writes(new, t) <=> ~b
    BY <1>1, AddLockQueue
  <1> HIDE DEF new
  <1> QED
    BY <1>2, <1>3, <1>4, TableAdds DEF q, AskedFor

LEMMA GrantTable ==
    ASSUME TableInv, NEW t \in Workers, NEW r \in Records, NEW b \in BOOLEAN,
           r \notin ToSet(adj[t]), Grant(t, r, b)
    PROVE  AskedFor(t, r, b) /\ Passed(threadQueue'[r], t)
  <1> DEFINE q == threadQueue[r]
             asked == AddLock(q, t, b)
             new == Enter(asked, Len(asked))
  <1>1. /\ q \in Seq(LockElement) /\ DistinctTids(q) /\ Exclusive(q)
        /\ t \notin Tids(q)
    BY DEF TableInv, LockTableTypeOK, HoldersExclude, TokensMatchQueues
  <1>2. Requested(t, r, b) = [threadQueue EXCEPT ![r] = asked]
        /\ Requested(t, r, b)[r] = asked
    BY DEF Requested, TableInv, LockTableTypeOK
  <1>3. /\ CanEnter(asked, Len(asked))
        /\ threadQueue' = [threadQueue EXCEPT ![r] = new]
        /\ adj' = TokensWith(t, r)
    BY <1>2 DEF Grant, TableInv, LockTableTypeOK
  <1>4. threadQueue'[r] = new /\ \A s \in Records : s # r => threadQueue'[s] = threadQueue[s]
    BY <1>3 DEF TableInv, LockTableTypeOK
  <1> HIDE DEF q
  <1>5. /\ asked \in Seq(LockElement) /\ DistinctTids(asked) /\ Exclusive(asked)
        /\ Tids(asked) = Tids(q) \union {t}
        /\ asked[Len(asked)].tid = t
        /\ \A u \in Workers : u # t =>
             /\ Passed(q, u) <=> Passed(asked, u)
             /\ Writes(q, u) <=> Writes(asked, u)
        /\ Writes(asked, t) <=> ~b
    BY <1>1, AddLockQueue
  <1>6. Len(asked) \in DOMAIN asked
    BY <1>1, AddLockQueue
  <1> HIDE DEF asked
  <1>7. /\ new \in Seq(LockElement) /\ DistinctTids(new) /\ Exclusive(new)
        /\ Tids(new) = Tids(asked)
        /\ Passed(new, t)
        /\ \A u \in Workers :
             /\ u # t => (Passed(asked, u) <=> Passed(new, u))
             /\ Writes(asked, u) <=> Writes(new, u)
    BY <1>3, <1>5, <1>6, EnterQueue
  <1> HIDE DEF new
  <1>8. /\ Tids(new) = Tids(q) \union {t}
        /\ Writes(new, t) <=> ~b
        /\ \A u \in Workers : u # t =>
             /\ Passed(q, u) <=> Passed(new, u)
             /\ Writes(q, u) <=> Writes(new, u)
    BY <1>5, <1>7
  <1>9. /\ TableInv'
        /\ OthersKeep(t)
        /\ \A u \in Workers : u # t => adj'[u] = adj[u]
        /\ Len(adj'[t]) = Len(adj[t]) + 1
        /\ \A n \in 1 .. Len(adj[t]) : adj'[t][n] = adj[t][n]
        /\ adj'[t][Len(adj[t]) + 1] = r
    BY <1>3, <1>7, <1>8, TableAdds DEF q
  <1> QED
    BY <1>4, <1>7, <1>8, <1>9 DEF AskedFor

LEMMA PassTable ==
    ASSUME TableInv, NEW t \in Workers, NEW r \in ToSet(adj[t]), Pass(t, r)
    PROVE  /\ TableInv'
           /\ OthersKeep(t)
           /\ \A s \in Records : s # r => threadQueue'[s] = threadQueue[s]
           /\ Passed(threadQueue'[r], t)
           /\ Writes(threadQueue[r], t) <=> Writes(threadQueue'[r], t)
  <1> DEFINE q == threadQueue[r]
             p == Position(q, t)
             new == Enter(q, p)
  <1>1. r \in Records
    BY DEF ToSet, TableInv, LockTableTypeOK
  <1>2. q \in Seq(LockElement) /\ DistinctTids(q) /\ Exclusive(q) /\ t \in Tids(q)
    BY <1>1 DEF TableInv, LockTableTypeOK, HoldersExclude, TokensMatchQueues
  <1>3. /\ CanEnter(q, p)
        /\ threadQueue' = [threadQueue EXCEPT ![r] = new]
        /\ adj' = adj
    BY DEF Pass, CanPass
  <1>4. threadQueue'[r] = new /\ \A s \in Records : s # r => threadQueue'[s] = threadQueue[s]
    BY <1>1, <1>3 DEF TableInv, LockTableTypeOK
  <1> HIDE DEF q
  <1>5. p \in DOMAIN q /\ q[p].tid = t
    BY <1>2, PositionOf
  <1> HIDE DEF p
  <1>6. /\ new \in Seq(LockElement) /\ DistinctTids(new) /\ Exclusive(new)
        /\ Tids(new) = Tids(q)
        /\ Passed(new, t)
        /\ \A u \in Workers :
             /\ u # t => (Passed(q, u) <=> Passed(new, u))
             /\ Writes(q, u) <=> Writes(new, u)
    BY <1>2, <1>3, <1>5, EnterQueue
  <1> HIDE DEF new
  <1>7. LockTableTypeOK'
    BY <1>1, <1>3, <1>6 DEF TableInv, LockTableTypeOK
  <1>8. HoldersExclude'
    BY <1>4, <1>6 DEF TableInv, HoldersExclude
  <1>9. TokensMatchQueues'
    BY <1>3, <1>4, <1>6 DEF TableInv, TokensMatchQueues, q
  <1>10. OthersKeep(t)
    BY <1>4, <1>6 DEF OthersKeep, q
  <1> QED
    BY <1>4, <1>6, <1>7, <1>8, <1>9, <1>10 DEF TableInv, q

LEMMA UnlockAllTable ==
    ASSUME TableInv, NEW t \in Workers, UnlockAll(t)
    PROVE  /\ TableInv'
           /\ OthersKeep(t)
           /\ \A u \in Workers : u # t => adj'[u] = adj[u]
           /\ adj'[t] = <<>>
  <1>1. /\ adj' \in [Workers -> Seq(Records)]
        /\ adj'[t] = <<>>
        /\ \A u \in Workers : u # t => adj'[u] = adj[u]
    BY DEF UnlockAll, TableInv, LockTableTypeOK
  <1>2. ASSUME NEW r \in Records
        PROVE  LET q == threadQueue[r]
                   new == threadQueue'[r]
               IN  /\ new \in Seq(LockElement)
                   /\ DistinctTids(new) /\ Exclusive(new)
                   /\ Tids(new) = Tids(q) \ {t}
                   /\ \A u \in Workers : u # t =>
                        /\ Passed(q, u) <=> Passed(new, u)
                        /\ Writes(q, u) <=> Writes(new, u)
    <2>1. /\ threadQueue[r] \in Seq(LockElement)
          /\ DistinctTids(threadQueue[r])
          /\ Exclusive(threadQueue[r])
          /\ r \in ToSet(adj[t]) <=> t \in Tids(threadQueue[r])
      BY DEF TableInv, LockTableTypeOK, HoldersExclude, TokensMatchQueues
    <2>2. CASE r \in ToSet(adj[t])
      <3>1. threadQueue'[r] = Unlock(threadQueue[r], t)
        BY <2>2 DEF UnlockAll
      <3> QED
        BY <2>1, <2>2, <3>1, UnlockQueue
    <2>3. CASE r \notin ToSet(adj[t])
      <3>1. threadQueue'[r] = threadQueue[r]
        BY <2>3 DEF UnlockAll
      <3> QED
        BY <2>1, <2>3, <3>1
    <2> QED
      BY <2>2, <2>3
  <1>3. LockTableTypeOK'
    <2>1. threadQueue' \in [Records -> Seq(LockElement)]
      BY <1>2 DEF UnlockAll
    <2> QED
      BY <1>1, <2>1 DEF LockTableTypeOK
  <1>4. HoldersExclude'
    BY <1>2 DEF HoldersExclude
  <1>5. TokensMatchQueues'
    <2>1. ASSUME NEW u \in Workers, NEW m \in DOMAIN adj'[u], NEW n \in DOMAIN adj'[u],
                 adj'[u][m] = adj'[u][n]
          PROVE  m = n
      BY <2>1, <1>1 DEF TableInv, TokensMatchQueues
    <2>2. ASSUME NEW r \in Records PROVE DistinctTids(threadQueue'[r])
      BY <1>2
    <2>3. ASSUME NEW r \in Records, NEW u \in Workers
          PROVE  r \in ToSet(adj'[u]) <=> u \in Tids(threadQueue'[r])
      <3>1. r \in ToSet(adj[u]) <=> u \in Tids(threadQueue[r])
        BY DEF TableInv, TokensMatchQueues
      <3>2. CASE u = t
        <4>1. ToSet(adj'[t]) = {}
          BY <1>1 DEF ToSet
        <4>2. t \notin Tids(threadQueue'[r])
          BY <1>2
        <4> QED
          BY <3>2, <4>1, <4>2
      <3>3. CASE u # t
        BY <3>1, <3>3, <1>1, <1>2
      <3> QED
        BY <3>2, <3>3
    <2> QED
      BY <2>1, <2>2, <2>3 DEF TokensMatchQueues
  <1>6. OthersKeep(t)
    BY <1>2 DEF OthersKeep
  <1> QED
    BY <1>1, <1>3, <1>4, <1>5, <1>6 DEF TableInv

-----------------------------------------------------------------------------
(* Values and picks. *)

LEMMA WrapType == \A v \in Int : Wrap(v) \in RecordValue
  <1> SUFFICES ASSUME NEW v \in Int PROVE Wrap(v) \in RecordValue
    OBVIOUS
  <1> DEFINE m == 2 * HalfRange
             x == (v + HalfRange) % m
  <1>1. m \in Nat \ {0} /\ HalfRange \in Nat /\ m = HalfRange + HalfRange
    BY HalfRangeAssumption
  <1>2. v + HalfRange \in Int
    BY <1>1
  <1>3. x \in 0 .. m - 1
    <2> HIDE DEF m
    <2> QED
      BY <1>1, <1>2
  <1>4. Wrap(v) = x - HalfRange
    BY DEF Wrap
  <1> HIDE DEF x, m
  <1> QED
    BY <1>1, <1>3, <1>4 DEF RecordValue

LEMMA NewType ==
    \A v, w \in RecordValue : NewJ(v, w) \in RecordValue /\ NewK(v, w) \in RecordValue
  <1> SUFFICES ASSUME NEW v \in RecordValue, NEW w \in RecordValue
               PROVE  NewJ(v, w) \in RecordValue /\ NewK(v, w) \in RecordValue
    OBVIOUS
  <1>1. v \in Int /\ w \in Int
    BY HalfRangeAssumption DEF RecordValue
  <1>2. w + v + 1 \in Int /\ w - v \in Int
    BY <1>1
  <1> QED
    BY <1>2, WrapType DEF NewJ, NewK

LEMMA PickFacts ==
    ASSUME NEW p \in Picks
    PROVE  \A m, n \in Stage : p[n] \in Records /\ (p[m] = p[n] => m = n)
  BY DEF Picks, Stage

LEMMA WorkerType ==
    ASSUME TypeOK, NEW t \in Workers
    PROVE  /\ pc[t] \in Places
           /\ stage[t] \in {1, 2, 3}
           /\ adj[t] \in Seq(Records)
           /\ Len(adj[t]) \in Nat
           /\ DOMAIN adj[t] = 1 .. Len(adj[t])
           /\ records[t] \in Seq(BeforeImage)
           /\ Len(records[t]) \in Nat
           /\ DOMAIN records[t] = 1 .. Len(records[t])
  BY DEF TypeOK, WorkersTypeOK, LockTableTypeOK, Stage

-----------------------------------------------------------------------------
(* What a worker holds. *)

LEMMA Sizes ==
    ASSUME LockInv, NEW t \in Workers, Active(t)
    PROVE  /\ Len(records[t]) \in Nat
           /\ Len(adj[t]) \in Nat
           /\ Len(records[t]) <= Len(adj[t])
           /\ Len(adj[t]) <= 3
  <1>1. TypeOK /\ Progress(t)
    BY DEF LockInv, ProgressInv
  <1>2. /\ pc[t] \in {"enter", "request", "yield", "poll", "read", "update",
                      "finish", "commit", "rollback"}
        /\ stage[t] \in {1, 2, 3}
        /\ Len(adj[t]) \in Nat /\ Len(records[t]) \in Nat
    BY <1>1, WorkerType DEF Active, Places
  <1>3. CASE pc[t] \in {"enter", "request"}
    BY <1>1, <1>2, <1>3 DEF Progress
  <1>4. CASE pc[t] \in {"yield", "poll", "read"}
    BY <1>1, <1>2, <1>4 DEF Progress
  <1>5. CASE pc[t] \in {"update", "finish", "commit", "rollback"}
    BY <1>1, <1>2, <1>5 DEF Progress
  <1> QED
    BY <1>2, <1>3, <1>4, <1>5

\* The n-th record a transaction has read is locked by it, for writing unless
\* n is 1.
LEMMA ReadIsHeld ==
    ASSUME LockInv, NEW t \in Workers, Active(t), NEW n \in DOMAIN records[t]
    PROVE  /\ n \in Stage
           /\ records[t][n].index = pick[t][n]
           /\ pick[t][n] \in Records
           /\ Passed(threadQueue[pick[t][n]], t)
           /\ Writes(threadQueue[pick[t][n]], t) <=> n # 1
  <1>1. n \in 1 .. Len(records[t]) /\ DOMAIN adj[t] = 1 .. Len(adj[t])
    BY WorkerType DEF LockInv
  <1>2. n \in Nat \ {0} /\ n <= Len(records[t])
    BY <1>1, Sizes
  <1>3. n \in DOMAIN adj[t] /\ n \in Stage
    BY <1>1, <1>2, Sizes DEF Stage
  <1>4. adj[t][n] = pick[t][n] /\ pick[t] \in Picks /\ records[t][n].index = pick[t][n]
    BY <1>3 DEF LockInv, ProgressInv, Progress
  <1>5. Passed(threadQueue[pick[t][n]], t) /\ (Writes(threadQueue[pick[t][n]], t) <=> n # 1)
    BY <1>2, <1>3, <1>4 DEF LockInv, ElementsInv, Elements
  <1> QED
    BY <1>3, <1>4, <1>5, PickFacts

\* An access of t is covered by a lock that t has passed, a write by a write
\* lock.
LEMMA AccessIsHeld ==
    ASSUME LockInv, NEW t \in Workers, NEW a \in Access(t)
    PROVE  /\ a.record \in Records
           /\ Passed(threadQueue[a.record], t)
           /\ a.isWrite => Writes(threadQueue[a.record], t)
  <1>1. CASE pc[t] = "read"
    <2>1. a = [record |-> pick[t][stage[t]], isWrite |-> FALSE]
      BY <1>1 DEF Access, Target
    <2>2. /\ stage[t] \in DOMAIN adj[t] /\ stage[t] \in Stage
          /\ pick[t] \in Picks /\ adj[t][stage[t]] = pick[t][stage[t]]
      <3>1. Progress(t) /\ TypeOK
        BY DEF LockInv, ProgressInv
      <3>2. Len(adj[t]) = stage[t]
        BY <1>1, <3>1 DEF Progress
      <3>3. stage[t] \in DOMAIN adj[t] /\ stage[t] \in Stage
        BY <3>1, <3>2, WorkerType DEF Stage
      <3> QED
        BY <1>1, <3>1, <3>3 DEF Progress, Active
    <2>3. Passed(threadQueue[pick[t][stage[t]]], t)
      BY <1>1, <2>2 DEF LockInv, ElementsInv, Elements
    <2> QED
      BY <2>1, <2>2, <2>3, PickFacts
  <1>2. CASE pc[t] = "update"
    <2>1. a = [record |-> pick[t][stage[t]], isWrite |-> TRUE]
      BY <1>2 DEF Access, Target
    <2>2. Active(t) /\ stage[t] \in DOMAIN records[t] /\ stage[t] # 1
      <3>1. Progress(t) /\ TypeOK
        BY DEF LockInv, ProgressInv
      <3>2. Len(records[t]) = stage[t] /\ stage[t] # 1
        BY <1>2, <3>1 DEF Progress
      <3> QED
        BY <1>2, <3>1, <3>2, WorkerType DEF Active
    <2> QED
      BY <2>1, <2>2, ReadIsHeld
  <1>3. CASE pc[t] = "rollback"
    <2>1. PICK n \in DOMAIN records[t] :
            records[t][n].isUpdated /\ a = [record |-> records[t][n].index, isWrite |-> TRUE]
      BY <1>3 DEF Access
    <2>2. Active(t) /\ n # 1
      BY <1>3, <2>1 DEF LockInv, ProgressInv, Progress, Active
    <2> QED
      BY <2>1, <2>2, ReadIsHeld
  <1>4. CASE pc[t] \notin {"read", "update", "rollback"}
    BY <1>4 DEF Access
  <1> QED
    BY <1>1, <1>2, <1>3, <1>4

\* LockInv excludes data races.
LEMMA LockInvNoDataRace == LockInv => NoDataRace
  <1> SUFFICES ASSUME LockInv,
                      NEW t \in Workers, NEW u \in Workers, t # u,
                      NEW a \in Access(t), NEW b \in Access(u), a.record = b.record
               PROVE  ~a.isWrite /\ ~b.isWrite
    BY DEF NoDataRace
  <1> DEFINE q == threadQueue[a.record]
  <1>1. a.record \in Records /\ Passed(q, t) /\ (a.isWrite => Writes(q, t))
    BY AccessIsHeld
  <1>2. Passed(q, u) /\ (b.isWrite => Writes(q, u))
    BY AccessIsHeld
  <1>3. q \in Seq(LockElement) /\ DistinctTids(q) /\ Exclusive(q)
    BY <1>1 DEF LockInv, TypeOK, LockTableTypeOK, HoldersExclude, TokensMatchQueues
  <1> HIDE DEF q
  <1> QED
    BY <1>1, <1>2, <1>3, PassedTogetherRead

-----------------------------------------------------------------------------
(* One step of worker t: what must be shown of t, and of the others.        *)

SameWorker(u) ==
    /\ pc'[u] = pc[u] /\ stage'[u] = stage[u] /\ pick'[u] = pick[u]
    /\ records'[u] = records[u] /\ adj'[u] = adj[u]

\* A step of t leaves what the other workers know and hold alone.
LEMMA OthersProgress ==
    ASSUME LockInv, NEW t \in Workers, NEW u \in Workers, u # t,
           SameWorker(u), OthersKeep(t)
    PROVE  Progress(u)' /\ Elements(u)' /\ (Active(u)' <=> Active(u))
  <1>1. Active(u)' <=> Active(u)
    BY DEF SameWorker, Active
  <1>2. Progress(u)'
    BY <1>1 DEF LockInv, ProgressInv, Progress, SameWorker
  <1>3. Elements(u)'
    <2> SUFFICES ASSUME NEW n \in DOMAIN adj[u]
                 PROVE  /\ Writes(threadQueue'[adj[u][n]], u) <=> n # 1
                        /\ (n <= Len(records[u]) \/ pc[u] = "read") =>
                             Passed(threadQueue'[adj[u][n]], u)
      BY DEF Elements, SameWorker
    <2>1. adj[u][n] \in Records
      BY WorkerType DEF LockInv
    <2> QED
      BY <2>1 DEF LockInv, ElementsInv, Elements, OthersKeep
  <1> QED
    BY <1>1, <1>2, <1>3

\* A write under a passed write lock does not touch what others have read.
LEMMA WriteKeepsReads ==
    ASSUME LockInv, NEW t \in Workers, NEW u \in Workers, u # t,
           Active(u), SameWorker(u), NEW r \in Records, NEW v,
           Passed(threadQueue[r], t), Writes(threadQueue[r], t),
           db' = [db EXCEPT ![r] = v]
    PROVE  ReadsCurrent(u)'
  <1> SUFFICES ASSUME NEW n \in DOMAIN records[u], ~records[u][n].isUpdated
               PROVE  db'[records[u][n].index] = records[u][n].value
    BY DEF ReadsCurrent, SameWorker
  <1>1. /\ records[u][n].index \in Records
        /\ Passed(threadQueue[records[u][n].index], u)
    BY ReadIsHeld
  <1>2. threadQueue[r] \in Seq(LockElement) /\ DistinctTids(threadQueue[r])
        /\ Exclusive(threadQueue[r])
    BY DEF LockInv, TypeOK, LockTableTypeOK, HoldersExclude, TokensMatchQueues
  <1>3. records[u][n].index # r
    BY <1>1, <1>2, PassedTogetherRead
  <1>4. db'[records[u][n].index] = db[records[u][n].index]
    BY <1>1, <1>3 DEF LockInv, TypeOK, WorkersTypeOK
  <1> QED
    BY <1>4 DEF LockInv, ReadsRemainCurrent, ReadsCurrent

LEMMA TableStays ==
    ASSUME LockInv, UNCHANGED lockTableVars, NEW t \in Workers
    PROVE  TableInv' /\ OthersKeep(t)
  BY DEF LockInv, TypeOK, TableInv, lockTableVars, LockTableTypeOK, HoldersExclude,
         TokensMatchQueues, OthersKeep

\* The parts of the invariant put together again after a step of t.
LEMMA StepKeeps ==
    ASSUME LockInv, NEW t \in Workers,
           TableInv', WorkersTypeOK', MutexInv',
           Progress(t)', Elements(t)', Active(t)' => ReadsCurrent(t)',
           OthersKeep(t),
           \A u \in Workers : u # t => SameWorker(u),
           \A u \in Workers : (u # t /\ Active(u)) => ReadsCurrent(u)'
    PROVE  LockInv'
  <1>1. ASSUME NEW u \in Workers PROVE Progress(u)' /\ Elements(u)'
    BY OthersProgress
  <1>2. ASSUME NEW u \in Workers, Active(u)' PROVE ReadsCurrent(u)'
    BY <1>2, OthersProgress
  <1>3. ProgressInv' /\ ElementsInv'
    BY <1>1 DEF ProgressInv, ElementsInv
  <1>4. ReadsRemainCurrent'
    BY <1>2 DEF ReadsRemainCurrent
  <1> QED
    BY <1>3, <1>4 DEF LockInv, TypeOK, TableInv

\* Steps that leave the database and what the others have read alone.
LEMMA QuietReads ==
    ASSUME LockInv, NEW u \in Workers, Active(u), SameWorker(u), UNCHANGED db
    PROVE  ReadsCurrent(u)'
  BY DEF LockInv, ReadsRemainCurrent, ReadsCurrent, SameWorker

-----------------------------------------------------------------------------
(* The invariant under each action. *)

\* Shared by the actions that only move t and the mutex.
MoveOnly(t) ==
    /\ UNCHANGED <<lockTableVars, db, stage, pick, records>>
    /\ pc' = [pc EXCEPT ![t] = pc'[t]]

LEMMA MoveFacts ==
    ASSUME LockInv, NEW t \in Workers, MoveOnly(t), Active(t) <=> Active(t)',
           pc'[t] = "read" => pc[t] = "read"
    PROVE  /\ TableInv' /\ OthersKeep(t)
           /\ Elements(t)'
           /\ Active(t)' => ReadsCurrent(t)'
           /\ \A u \in Workers : u # t => SameWorker(u)
           /\ \A u \in Workers : (u # t /\ Active(u)) => ReadsCurrent(u)'
  <1> USE DEF MoveOnly
  <1>1. TableInv' /\ OthersKeep(t)
    BY TableStays
  <1>2. \A u \in Workers : u # t => SameWorker(u)
    BY DEF SameWorker, lockTableVars, LockInv, TypeOK, WorkersTypeOK
  <1>3. Elements(t)'
    BY DEF Elements, LockInv, ElementsInv, lockTableVars
  <1>4. Active(t)' => ReadsCurrent(t)'
    BY DEF LockInv, ReadsRemainCurrent, ReadsCurrent
  <1>5. \A u \in Workers : (u # t /\ Active(u)) => ReadsCurrent(u)'
    BY <1>2, QuietReads
  <1> QED
    BY <1>1, <1>2, <1>3, <1>4, <1>5

LEMMA BeginKeeps ==
    ASSUME LockInv, NEW t \in Workers, Begin(t)
    PROVE  LockInv'
  <1> USE DEF Begin, Goto
  <1>1. TableInv' /\ OthersKeep(t)
    BY TableStays
  <1>2. WorkersTypeOK'
    BY DEF LockInv, TypeOK, WorkersTypeOK, globalVars, Places
  <1>3. MutexInv'
    BY DEF LockInv, TypeOK, WorkersTypeOK, MutexInv, globalVars
  <1>4. \A u \in Workers : u # t => SameWorker(u)
    BY DEF SameWorker, lockTableVars, LockInv, TypeOK, WorkersTypeOK
  <1>5. pick'[t] \in Picks /\ records'[t] = <<>> /\ pc'[t] = "enter" /\ adj'[t] = <<>>
        /\ stage'[t] = stage[t]
    BY DEF LockInv, TypeOK, WorkersTypeOK, ProgressInv, Progress, Active, lockTableVars
  <1>6. stage[t] = 1
    BY DEF LockInv, ProgressInv, Progress, Active
  <1>7. Progress(t)'
    BY <1>5, <1>6 DEF Progress, Active
  <1>8. Elements(t)'
    BY <1>5 DEF Elements
  <1>9. ReadsCurrent(t)'
    BY <1>5 DEF ReadsCurrent
  <1>10. \A u \in Workers : (u # t /\ Active(u)) => ReadsCurrent(u)'
    BY <1>4, QuietReads
  <1> QED
    BY <1>1, <1>2, <1>3, <1>4, <1>7, <1>8, <1>9, <1>10, StepKeeps

LEMMA EnterRequestKeeps ==
    ASSUME LockInv, NEW t \in Workers, EnterRequest(t)
    PROVE  LockInv'
  <1> USE DEF EnterRequest, Goto, Acquire
  <1>1. WorkersTypeOK'
    BY DEF LockInv, TypeOK, WorkersTypeOK, Places
  <1>2. MutexInv'
    BY NoThreadAssumption DEF LockInv, TypeOK, WorkersTypeOK, MutexInv
  <1>3. MoveOnly(t) /\ pc'[t] = "request"
    BY DEF MoveOnly, LockInv, TypeOK, WorkersTypeOK
  <1>4. Active(t) <=> Active(t)'
    BY <1>3 DEF Active
  <1>5. Progress(t)'
    BY <1>3, <1>4 DEF LockInv, ProgressInv, Progress, MoveOnly, lockTableVars
  <1> QED
    BY <1>1, <1>2, <1>3, <1>4, <1>5, MoveFacts, StepKeeps

LEMMA RelockKeeps ==
    ASSUME LockInv, NEW t \in Workers, Relock(t)
    PROVE  LockInv'
  <1> USE DEF Relock, Goto, Acquire
  <1>1. WorkersTypeOK'
    BY DEF LockInv, TypeOK, WorkersTypeOK, Places
  <1>2. MutexInv'
    BY NoThreadAssumption DEF LockInv, TypeOK, WorkersTypeOK, MutexInv
  <1>3. MoveOnly(t) /\ pc'[t] = "poll"
    BY DEF MoveOnly, LockInv, TypeOK, WorkersTypeOK
  <1>4. Active(t) <=> Active(t)'
    BY <1>3 DEF Active
  <1>5. Progress(t)'
    BY <1>3, <1>4 DEF LockInv, ProgressInv, Progress, MoveOnly, lockTableVars
  <1> QED
    BY <1>1, <1>2, <1>3, <1>4, <1>5, MoveFacts, StepKeeps

LEMMA PollFailsKeeps ==
    ASSUME LockInv, NEW t \in Workers, PollFails(t)
    PROVE  LockInv'
  <1> USE DEF PollFails, Goto, Release
  <1>1. WorkersTypeOK'
    BY DEF LockInv, TypeOK, WorkersTypeOK, Places
  <1>2. MutexInv'
    BY NoThreadAssumption DEF LockInv, TypeOK, WorkersTypeOK, MutexInv
  <1>3. MoveOnly(t) /\ pc'[t] = "yield"
    BY DEF MoveOnly, LockInv, TypeOK, WorkersTypeOK
  <1>4. Active(t) <=> Active(t)'
    BY <1>3 DEF Active
  <1>5. Progress(t)'
    BY <1>3, <1>4 DEF LockInv, ProgressInv, Progress, MoveOnly, lockTableVars
  <1> QED
    BY <1>1, <1>2, <1>3, <1>4, <1>5, MoveFacts, StepKeeps

LEMMA EnterCommitKeeps ==
    ASSUME LockInv, NEW t \in Workers, EnterCommit(t)
    PROVE  LockInv'
  <1> USE DEF EnterCommit, Goto, Acquire
  <1>1. WorkersTypeOK'
    BY DEF LockInv, TypeOK, WorkersTypeOK, Places
  <1>2. MutexInv'
    BY NoThreadAssumption DEF LockInv, TypeOK, WorkersTypeOK, MutexInv
  <1>3. MoveOnly(t) /\ pc'[t] = "commit"
    BY DEF MoveOnly, LockInv, TypeOK, WorkersTypeOK
  <1>4. Active(t) <=> Active(t)'
    BY <1>3 DEF Active
  <1>5. Progress(t)'
    BY <1>3, <1>4 DEF LockInv, ProgressInv, Progress, MoveOnly, lockTableVars
  <1> QED
    BY <1>1, <1>2, <1>3, <1>4, <1>5, MoveFacts, StepKeeps

LEMMA OverrunCommitKeeps ==
    ASSUME LockInv, NEW t \in Workers, OverrunCommit(t)
    PROVE  LockInv'
  <1> USE DEF OverrunCommit, Goto
  <1>1. WorkersTypeOK'
    BY DEF LockInv, TypeOK, WorkersTypeOK, Places
  <1>2. MutexInv'
    BY DEF LockInv, TypeOK, WorkersTypeOK, MutexInv
  <1>3. MoveOnly(t) /\ pc'[t] = "rollback"
    BY DEF MoveOnly, LockInv, TypeOK, WorkersTypeOK
  <1>4. Active(t) <=> Active(t)'
    BY <1>3 DEF Active
  <1>5. Progress(t)'
    BY <1>3, <1>4 DEF LockInv, ProgressInv, Progress, MoveOnly, lockTableVars
  <1> QED
    BY <1>1, <1>2, <1>3, <1>4, <1>5, MoveFacts, StepKeeps

LEMMA CountDeadlockKeeps ==
    ASSUME LockInv, NEW t \in Workers, CountDeadlock(t)
    PROVE  LockInv'
  <1> USE DEF CountDeadlock, Goto
  <1>1. WorkersTypeOK'
    BY DeadlockCapAssumption DEF LockInv, TypeOK, WorkersTypeOK, Places
  <1>2. MutexInv'
    BY DEF LockInv, TypeOK, WorkersTypeOK, MutexInv
  <1>3. MoveOnly(t) /\ pc'[t] = "begin"
    BY DEF MoveOnly, LockInv, TypeOK, WorkersTypeOK
  <1>4. Active(t) <=> Active(t)'
    BY <1>3 DEF Active
  <1>5. Progress(t)'
    BY <1>3, <1>4 DEF LockInv, ProgressInv, Progress, MoveOnly, lockTableVars, Active
  <1> QED
    BY <1>1, <1>2, <1>3, <1>4, <1>5, MoveFacts, StepKeeps

\* The record a worker is about to lock has no token yet.
LEMMA TargetIsNew ==
    ASSUME LockInv, NEW t \in Workers, pc[t] = "request"
    PROVE  /\ Target(t) \in Records /\ Target(t) \notin ToSet(adj[t])
           /\ WantsReadLock(t) \in BOOLEAN
           /\ Len(adj[t]) = stage[t] - 1 /\ Len(records[t]) = stage[t] - 1
           /\ stage[t] \in {1, 2, 3}
           /\ pick[t] \in Picks
           /\ Active(t)
           /\ TableInv
  <1>1. /\ Active(t) /\ Progress(t) /\ TypeOK
    BY DEF Active, LockInv, ProgressInv
  <1>2. /\ pick[t] \in Picks /\ Len(adj[t]) = stage[t] - 1 /\ Len(records[t]) = stage[t] - 1
        /\ \A n \in DOMAIN adj[t] : adj[t][n] = pick[t][n]
    BY <1>1 DEF Progress
  <1>3. stage[t] \in {1, 2, 3} /\ DOMAIN adj[t] = 1 .. stage[t] - 1
    BY <1>1, <1>2, WorkerType
  <1>4. Target(t) \in Records
    BY <1>2, <1>3, PickFacts DEF Target, Stage
  <1>5. \A n \in DOMAIN adj[t] : adj[t][n] # Target(t)
    BY <1>2, <1>3, PickFacts DEF Target, Stage
  <1>6. Target(t) \notin ToSet(adj[t])
    BY <1>5 DEF ToSet
  <1> QED
    BY <1>1, <1>2, <1>3, <1>4, <1>6 DEF LockInv, TypeOK, TableInv, WantsReadLock

\* Asking for the lock of the current stage, with whatever answer.
LEMMA AskFacts ==
    ASSUME LockInv, NEW t \in Workers, pc[t] = "request",
           AskedFor(t, Target(t), WantsReadLock(t)),
           UNCHANGED <<db, stage, pick, records>>,
           pc'[t] \in {"read", "yield", "rollback"},
           \A u \in Workers : u # t => pc'[u] = pc[u],
           pc'[t] = "read" => Passed(threadQueue'[Target(t)], t)
    PROVE  /\ TableInv' /\ OthersKeep(t)
           /\ Progress(t)'
           /\ Elements(t)'
           /\ Active(t)' => ReadsCurrent(t)'
           /\ \A u \in Workers : u # t => SameWorker(u)
           /\ \A u \in Workers : (u # t /\ Active(u)) => ReadsCurrent(u)'
  <1> DEFINE r == Target(t)
  <1>1. TableInv' /\ OthersKeep(t)
    BY DEF AskedFor
  <1>2. \A u \in Workers : u # t => SameWorker(u)
    BY DEF SameWorker, AskedFor
  <1>3. /\ Len(adj[t]) = stage[t] - 1 /\ Len(records[t]) = stage[t] - 1
        /\ stage[t] \in {1, 2, 3} /\ pick[t] \in Picks /\ Active(t)
    BY TargetIsNew
  <1>4. /\ Len(adj'[t]) = stage[t]
        /\ \A n \in 1 .. stage[t] - 1 : adj'[t][n] = adj[t][n]
        /\ adj'[t][stage[t]] = r
    <2>1. stage[t] = Len(adj[t]) + 1 /\ stage[t] - 1 = Len(adj[t])
      BY <1>3
    <2> HIDE DEF r
    <2> QED
      BY <2>1 DEF AskedFor, r
  <1>5. DOMAIN adj'[t] = 1 .. stage[t] /\ DOMAIN adj[t] = 1 .. stage[t] - 1
    BY <1>1, <1>3, <1>4, WorkerType DEF TableInv, LockTableTypeOK, LockInv
  <1>6. \A n \in DOMAIN adj[t] : adj[t][n] = pick[t][n] /\ adj[t][n] \in Records
    BY WorkerType DEF LockInv, ProgressInv, Progress
  <1>7. \A n \in 1 .. stage[t] : adj'[t][n] = pick[t][n]
    <2>1. ASSUME NEW n \in 1 .. stage[t] - 1 PROVE adj'[t][n] = pick[t][n]
      BY <1>4, <1>5, <1>6
    <2>2. adj'[t][stage[t]] = pick[t][stage[t]]
      BY <1>4 DEF Target
    <2> QED
      BY <1>3, <2>1, <2>2
  <1>8. Progress(t)'
    BY <1>3, <1>4, <1>5, <1>7, SMTT(30) DEF LockInv, ProgressInv, Progress, Active
  <1>9. Elements(t)'
    <2> SUFFICES ASSUME NEW n \in 1 .. stage[t]
                 PROVE  /\ Writes(threadQueue'[adj'[t][n]], t) <=> n # 1
                        /\ (n <= Len(records[t]) \/ pc'[t] = "read") =>
                             Passed(threadQueue'[adj'[t][n]], t)
      BY <1>5 DEF Elements
    <2>1. CASE n = stage[t]
      <3>1. Writes(threadQueue'[r], t) <=> stage[t] # 1
        BY DEF AskedFor, WantsReadLock
      <3>2. ~(n <= Len(records[t]))
        BY <1>3, <2>1
      <3> QED
        BY <1>4, <2>1, <3>1, <3>2
    <2>2. CASE n # stage[t]
      <3>1. n \in DOMAIN adj[t] /\ adj'[t][n] = adj[t][n] /\ n <= Len(records[t])
        BY <1>3, <1>4, <1>5, <2>2
      <3>2. adj[t][n] \in Records /\ adj[t][n] # r
        BY <3>1, <1>6, TargetIsNew DEF ToSet
      <3>3. threadQueue'[adj[t][n]] = threadQueue[adj[t][n]]
        BY <3>2 DEF AskedFor
      <3> QED
        BY <3>1, <3>3 DEF LockInv, ElementsInv, Elements
    <2> QED
      BY <2>1, <2>2
  <1>10. Active(t)' => ReadsCurrent(t)'
    BY <1>3 DEF LockInv, ReadsRemainCurrent, ReadsCurrent
  <1>11. \A u \in Workers : (u # t /\ Active(u)) => ReadsCurrent(u)'
    BY <1>2, QuietReads
  <1> QED
    BY <1>1, <1>2, <1>8, <1>9, <1>10, <1>11

LEMMA LockGrantedKeeps ==
    ASSUME LockInv, NEW t \in Workers, LockGranted(t)
    PROVE  LockInv'
  <1> USE DEF LockGranted, Goto, Release
  <1>1. WorkersTypeOK'
    BY DEF LockInv, TypeOK, WorkersTypeOK, Places
  <1>2. MutexInv'
    BY NoThreadAssumption DEF LockInv, TypeOK, WorkersTypeOK, MutexInv
  <1>3. pc'[t] = "read" /\ \A u \in Workers : u # t => pc'[u] = pc[u]
    BY DEF LockInv, TypeOK, WorkersTypeOK
  <1>4. AskedFor(t, Target(t), WantsReadLock(t)) /\ Passed(threadQueue'[Target(t)], t)
    BY TargetIsNew, GrantTable
  <1> QED
    BY <1>1, <1>2, <1>3, <1>4, AskFacts, StepKeeps

LEMMA LockRefusedKeeps ==
    ASSUME LockInv, NEW t \in Workers, LockRefused(t)
    PROVE  LockInv'
  <1> USE DEF LockRefused, Goto, globalVars
  <1>1. WorkersTypeOK'
    BY DEF LockInv, TypeOK, WorkersTypeOK, Places
  <1>2. MutexInv'
    BY DEF LockInv, TypeOK, WorkersTypeOK, MutexInv
  <1>3. pc'[t] = "rollback" /\ \A u \in Workers : u # t => pc'[u] = pc[u]
    BY DEF LockInv, TypeOK, WorkersTypeOK
  <1>4. AskedFor(t, Target(t), WantsReadLock(t))
    BY TargetIsNew, AskTable DEF Refuse
  <1> QED
    BY <1>1, <1>2, <1>3, <1>4, AskFacts, StepKeeps

LEMMA LockWaitsKeeps ==
    ASSUME LockInv, NEW t \in Workers, LockWaits(t)
    PROVE  LockInv'
  <1> USE DEF LockWaits, Goto, Release
  <1>1. WorkersTypeOK'
    BY DEF LockInv, TypeOK, WorkersTypeOK, Places
  <1>2. MutexInv'
    BY NoThreadAssumption DEF LockInv, TypeOK, WorkersTypeOK, MutexInv
  <1>3. pc'[t] = "yield" /\ \A u \in Workers : u # t => pc'[u] = pc[u]
    BY DEF LockInv, TypeOK, WorkersTypeOK
  <1>4. AskedFor(t, Target(t), WantsReadLock(t))
    BY TargetIsNew, AskTable DEF StartWaiting
  <1> QED
    BY <1>1, <1>2, <1>3, <1>4, AskFacts, StepKeeps

LEMMA PollPassesKeeps ==
    ASSUME LockInv, NEW t \in Workers, PollPasses(t)
    PROVE  LockInv'
  <1> USE DEF PollPasses, Goto, Release
  <1> DEFINE r == Target(t)
  <1>1. WorkersTypeOK'
    BY DEF LockInv, TypeOK, WorkersTypeOK, Places
  <1>2. MutexInv'
    BY NoThreadAssumption DEF LockInv, TypeOK, WorkersTypeOK, MutexInv
  <1>3. pc'[t] = "read" /\ adj' = adj /\ \A u \in Workers : u # t => pc'[u] = pc[u]
    BY DEF LockInv, TypeOK, WorkersTypeOK, Pass
  <1>4. /\ Active(t) /\ Len(adj[t]) = stage[t] /\ Len(records[t]) = stage[t] - 1
        /\ pick[t] \in Picks /\ \A n \in DOMAIN adj[t] : adj[t][n] = pick[t][n]
    BY DEF LockInv, ProgressInv, Progress, Active
  <1>5. stage[t] \in {1, 2, 3} /\ DOMAIN adj[t] = 1 .. stage[t]
    BY <1>4, WorkerType DEF LockInv
  <1>6. r = adj[t][stage[t]] /\ r \in ToSet(adj[t]) /\ TableInv
    BY <1>4, <1>5 DEF Target, ToSet, LockInv, TypeOK, TableInv
  <1>7. /\ TableInv' /\ OthersKeep(t)
        /\ \A s \in Records : s # r => threadQueue'[s] = threadQueue[s]
        /\ Passed(threadQueue'[r], t)
        /\ Writes(threadQueue[r], t) <=> Writes(threadQueue'[r], t)
    BY <1>6, PassTable
  <1>8. \A u \in Workers : u # t => SameWorker(u)
    BY <1>3 DEF SameWorker
  <1>9. Progress(t)'
    BY <1>3, <1>4 DEF LockInv, ProgressInv, Progress, Active
  <1>10. Elements(t)'
    <2> SUFFICES ASSUME NEW n \in 1 .. stage[t]
                 PROVE  /\ Writes(threadQueue'[adj[t][n]], t) <=> n # 1
                        /\ Passed(threadQueue'[adj[t][n]], t)
      BY <1>3, <1>5 DEF Elements
    <2>1. Writes(threadQueue[adj[t][n]], t) <=> n # 1
      BY <1>5 DEF LockInv, ElementsInv, Elements
    <2>2. CASE n = stage[t]
      BY <1>6, <1>7, <2>1, <2>2
    <2>3. CASE n # stage[t]
      <3>1. n <= Len(records[t])
        BY <1>4, <1>5, <2>3
      <3>2. adj[t][n] # r /\ adj[t][n] \in Records
        <4>1. adj[t][n] = pick[t][n] /\ r = pick[t][stage[t]]
          BY <1>4, <1>5 DEF Target
        <4>2. n \in Stage /\ stage[t] \in Stage
          BY <1>5 DEF Stage
        <4> HIDE DEF r
        <4> QED
          BY <1>4, <2>3, <4>1, <4>2, PickFacts
      <3> QED
        BY <1>5, <1>7, <2>1, <3>1, <3>2 DEF LockInv, ElementsInv, Elements
    <2> QED
      BY <2>2, <2>3
  <1>11. Active(t)' => ReadsCurrent(t)'
    BY <1>4 DEF LockInv, ReadsRemainCurrent, ReadsCurrent
  <1>12. \A u \in Workers : (u # t /\ Active(u)) => ReadsCurrent(u)'
    BY <1>8, QuietReads
  <1> QED
    BY <1>1, <1>2, <1>7, <1>8, <1>9, <1>10, <1>11, <1>12, StepKeeps

LEMMA ReadRecordKeeps ==
    ASSUME LockInv, NEW t \in Workers, ReadRecord(t)
    PROVE  LockInv'
  <1> DEFINE image == [index |-> Target(t), value |-> db[Target(t)], isUpdated |-> FALSE]
  <1>1. /\ Active(t) /\ pick[t] \in Picks
        /\ Len(adj[t]) = stage[t] /\ Len(records[t]) = stage[t] - 1
        /\ \A n \in DOMAIN adj[t] : adj[t][n] = pick[t][n]
        /\ \A n \in DOMAIN records[t] : records[t][n].index = pick[t][n]
                                        /\ (records[t][n].isUpdated => n # 1)
    BY DEF LockInv, ProgressInv, Progress, Active, ReadRecord
  <1>2. stage[t] \in {1, 2, 3} /\ records[t] \in Seq(BeforeImage)
        /\ DOMAIN adj[t] = 1 .. stage[t] /\ DOMAIN records[t] = 1 .. stage[t] - 1
    BY <1>1, WorkerType DEF LockInv
  <1>3. Target(t) \in Records /\ image \in BeforeImage
    BY <1>1, <1>2, PickFacts DEF Target, Stage, BeforeImage, LockInv, TypeOK, WorkersTypeOK
  <1>4. /\ records' = [records EXCEPT ![t] = Append(records[t], image)]
        /\ UNCHANGED <<lockTableVars, globalVars, db, pick, commitId, undo, clog>>
    BY DEF ReadRecord
  <1>5. IF stage[t] = 1 THEN /\ stage' = [stage EXCEPT ![t] = 2]
                             /\ pc' = [pc EXCEPT ![t] = "enter"]
        ELSE pc' = [pc EXCEPT ![t] = "update"] /\ stage' = stage
    BY DEF ReadRecord, Goto
  <1>6. pc[t] = "read"
    BY DEF ReadRecord
  <1> HIDE DEF image
  <1>7. /\ records'[t] = Append(records[t], image)
        /\ Len(records'[t]) = stage[t]
        /\ DOMAIN records'[t] = 1 .. stage[t]
        /\ \A n \in 1 .. stage[t] - 1 : records'[t][n] = records[t][n]
        /\ records'[t][stage[t]] = image
        /\ records' \in [Workers -> Seq(BeforeImage)]
    <2>1. records \in [Workers -> Seq(BeforeImage)]
      BY DEF LockInv, TypeOK, WorkersTypeOK
    <2>2. Append(records[t], image) \in Seq(BeforeImage)
          /\ Len(Append(records[t], image)) = Len(records[t]) + 1
          /\ \A n \in 1 .. Len(records[t]) : Append(records[t], image)[n] = records[t][n]
          /\ Append(records[t], image)[Len(records[t]) + 1] = image
      BY <1>2, <1>3, AppendProperties
    <2>3. Len(records[t]) + 1 = stage[t]
      BY <1>1, <1>2
    <2> QED
      BY <1>1, <1>2, <1>4, <2>1, <2>2, <2>3
  <1>8. WorkersTypeOK'
    <2>1. pc' \in [Workers -> Places] /\ stage' \in [Workers -> Stage]
      <3>1. pc \in [Workers -> Places] /\ stage \in [Workers -> Stage]
        BY DEF LockInv, TypeOK, WorkersTypeOK
      <3>2. CASE stage[t] = 1
        BY <1>5, <3>1, <3>2 DEF Places, Stage
      <3>3. CASE stage[t] # 1
        BY <1>5, <3>1, <3>3 DEF Places, Stage
      <3> QED
        BY <3>2, <3>3
    <2> QED
      BY <1>4, <1>7, <2>1 DEF LockInv, TypeOK, WorkersTypeOK, globalVars
  <1>9. MutexInv'
    BY <1>4, <1>5, <1>6 DEF LockInv, TypeOK, WorkersTypeOK, MutexInv, globalVars
  <1>10. TableInv' /\ OthersKeep(t)
    BY <1>4, TableStays
  <1>11. \A u \in Workers : u # t => SameWorker(u)
    BY <1>4, <1>5 DEF SameWorker, lockTableVars, LockInv, TypeOK, WorkersTypeOK
  <1>12. adj'[t] = adj[t] /\ pick'[t] = pick[t] /\ threadQueue' = threadQueue /\ db' = db
    BY <1>4 DEF lockTableVars
  <1>13. \/ pc'[t] = "enter" /\ stage[t] = 1 /\ stage'[t] = 2
         \/ pc'[t] = "update" /\ stage[t] # 1 /\ stage'[t] = stage[t]
    BY <1>5 DEF LockInv, TypeOK, WorkersTypeOK
  <1>14. Progress(t)'
    <2>1. \A n \in DOMAIN records'[t] : records'[t][n].index = pick[t][n]
                                        /\ (records'[t][n].isUpdated => n # 1)
      BY <1>1, <1>2, <1>7 DEF image, Target
    <2>2. Len(adj'[t]) = stage[t] /\ \A n \in DOMAIN adj'[t] : adj'[t][n] = pick[t][n]
      BY <1>1, <1>12
    <2>3. CASE pc'[t] = "enter" /\ stage[t] = 1 /\ stage'[t] = 2
      <3>1. stage'[t] - 1 = stage[t]
        BY <2>3
      <3> QED
        BY <1>1, <1>7, <1>12, <2>1, <2>2, <2>3, <3>1 DEF Progress, Active
    <2>4. CASE pc'[t] = "update" /\ stage[t] # 1 /\ stage'[t] = stage[t]
      BY <1>1, <1>7, <1>12, <2>1, <2>2, <2>4 DEF Progress, Active
    <2> QED
      BY <1>13, <2>3, <2>4
  <1>15. Elements(t)'
    BY <1>2, <1>6, <1>12 DEF LockInv, ElementsInv, Elements
  <1>16. ReadsCurrent(t)'
    <2>1. ReadsCurrent(t)
      BY <1>1 DEF LockInv, ReadsRemainCurrent
    <2> QED
      BY <1>2, <1>7, <1>12, <2>1 DEF ReadsCurrent, image
  <1>17. \A u \in Workers : (u # t /\ Active(u)) => ReadsCurrent(u)'
    BY <1>4, <1>11, QuietReads
  <1> QED
    BY <1>8, <1>9, <1>10, <1>11, <1>14, <1>15, <1>16, <1>17, StepKeeps

LEMMA UpdateRecordKeeps ==
    ASSUME LockInv, NEW t \in Workers, UpdateRecord(t)
    PROVE  LockInv'
  <1> DEFINE r == Target(t)
  <1>1. /\ Active(t) /\ pick[t] \in Picks /\ pc[t] = "update"
        /\ Len(adj[t]) = stage[t] /\ Len(records[t]) = stage[t] /\ stage[t] # 1
        /\ \A n \in DOMAIN adj[t] : adj[t][n] = pick[t][n]
        /\ \A n \in DOMAIN records[t] : records[t][n].index = pick[t][n]
                                        /\ (records[t][n].isUpdated => n # 1)
    BY DEF LockInv, ProgressInv, Progress, Active, UpdateRecord
  <1>2. stage[t] \in {2, 3} /\ records[t] \in Seq(BeforeImage)
        /\ DOMAIN adj[t] = 1 .. stage[t] /\ DOMAIN records[t] = 1 .. stage[t]
    BY <1>1, WorkerType DEF LockInv
  <1> DEFINE image == [records[t][stage[t]] EXCEPT !.isUpdated = TRUE]
  <1>3. /\ records' = [records EXCEPT ![t] = [records[t] EXCEPT ![stage[t]] = image]]
        /\ db' = [db EXCEPT ![r] = NewValue(t)]
        /\ UNCHANGED <<lockTableVars, globalVars, pick, commitId, undo, clog>>
    BY DEF UpdateRecord
  <1>4. IF stage[t] = 2 THEN /\ stage' = [stage EXCEPT ![t] = 3]
                             /\ pc' = [pc EXCEPT ![t] = "enter"]
        ELSE pc' = [pc EXCEPT ![t] = "finish"] /\ stage' = stage
    BY DEF UpdateRecord, Goto
  <1>5. /\ r \in Records /\ r = pick[t][stage[t]]
        /\ Passed(threadQueue[r], t) /\ Writes(threadQueue[r], t)
    BY <1>1, <1>2, ReadIsHeld DEF Target
  <1> HIDE DEF r
  <1>6. records[t][stage[t]] \in BeforeImage
    BY <1>2
  <1>7. image \in BeforeImage /\ image.isUpdated /\ image.index = records[t][stage[t]].index
    BY <1>6 DEF BeforeImage
  <1> HIDE DEF image
  <1>8. /\ Len(records'[t]) = stage[t]
        /\ DOMAIN records'[t] = 1 .. stage[t]
        /\ \A n \in 1 .. stage[t] : n # stage[t] => records'[t][n] = records[t][n]
        /\ records'[t][stage[t]] = image
        /\ records' \in [Workers -> Seq(BeforeImage)]
    <2> DEFINE new == [records[t] EXCEPT ![stage[t]] = image]
    <2>1. records \in [Workers -> Seq(BeforeImage)]
      BY DEF LockInv, TypeOK, WorkersTypeOK
    <2>2. new \in Seq(BeforeImage) /\ Len(new) = Len(records[t])
          /\ DOMAIN new = DOMAIN records[t]
      BY <1>2, <1>7, ExceptSeq
    <2>3. new[stage[t]] = image /\ \A n \in 1 .. stage[t] : n # stage[t] => new[n] = records[t][n]
      BY <1>2
    <2>4. records'[t] = new
      BY <1>3, <2>1
    <2>5. records' \in [Workers -> Seq(BeforeImage)]
      BY <1>3, <2>1, <2>2
    <2> HIDE DEF new
    <2> QED
      BY <1>1, <1>2, <2>2, <2>3, <2>4, <2>5
  <1>9. NewValue(t) \in RecordValue
    <2>1. \A n \in 1 .. stage[t] : records[t][n].value \in RecordValue
      <3>1. \A n \in 1 .. stage[t] : records[t][n] \in BeforeImage
        BY <1>2
      <3> QED
        BY <3>1 DEF BeforeImage
    <2>2. ri(t) \in RecordValue /\ records[t][2].value \in RecordValue
          /\ (stage[t] = 3 => records[t][3].value \in RecordValue)
      BY <1>2, <2>1 DEF ri
    <2> QED
      BY <1>2, <2>2, NewType DEF NewValue, rj, rk
  <1>10. db' \in [Records -> RecordValue]
    BY <1>3, <1>5, <1>9 DEF LockInv, TypeOK, WorkersTypeOK
  <1>11. WorkersTypeOK'
    <2>1. pc' \in [Workers -> Places] /\ stage' \in [Workers -> Stage]
      <3>1. pc \in [Workers -> Places] /\ stage \in [Workers -> Stage]
        BY DEF LockInv, TypeOK, WorkersTypeOK
      <3>2. CASE stage[t] = 2
        BY <1>4, <3>1, <3>2 DEF Places, Stage
      <3>3. CASE stage[t] # 2
        BY <1>4, <3>1, <3>3 DEF Places, Stage
      <3> QED
        BY <3>2, <3>3
    <2> QED
      BY <1>3, <1>8, <1>10, <2>1 DEF LockInv, TypeOK, WorkersTypeOK, globalVars
  <1>12. MutexInv'
    BY <1>1, <1>3, <1>4 DEF LockInv, TypeOK, WorkersTypeOK, MutexInv, globalVars
  <1>13. TableInv' /\ OthersKeep(t)
    BY <1>3, TableStays
  <1>14. \A u \in Workers : u # t => SameWorker(u)
    BY <1>3, <1>4 DEF SameWorker, lockTableVars, LockInv, TypeOK, WorkersTypeOK
  <1>15. adj'[t] = adj[t] /\ pick'[t] = pick[t] /\ threadQueue' = threadQueue
    BY <1>3 DEF lockTableVars
  <1>16. \/ pc'[t] = "enter" /\ stage[t] = 2 /\ stage'[t] = 3
         \/ pc'[t] = "finish" /\ stage[t] = 3 /\ stage'[t] = 3
    BY <1>2, <1>4 DEF LockInv, TypeOK, WorkersTypeOK
  <1>17. Progress(t)'
    <2>1. \A n \in DOMAIN records'[t] : records'[t][n].index = pick[t][n]
                                        /\ (records'[t][n].isUpdated => n # 1)
      BY <1>1, <1>2, <1>7, <1>8
    <2> QED
      BY <1>1, <1>2, <1>8, <1>15, <1>16, <2>1, SMTT(30) DEF Progress, Active
  <1>18. Elements(t)'
    BY <1>1, <1>2, <1>8, <1>15, <1>16 DEF LockInv, ElementsInv, Elements
  <1>19. ReadsCurrent(t)'
    <2> SUFFICES ASSUME NEW n \in 1 .. stage[t], ~records'[t][n].isUpdated
                 PROVE  db'[records'[t][n].index] = records'[t][n].value
      BY <1>8 DEF ReadsCurrent
    <2>1. n # stage[t] /\ records'[t][n] = records[t][n]
      BY <1>7, <1>8
    <2>2. db[records[t][n].index] = records[t][n].value
      BY <1>1, <1>2, <2>1 DEF LockInv, ReadsRemainCurrent, ReadsCurrent
    <2>3. records[t][n].index = pick[t][n] /\ pick[t][n] # r /\ pick[t][n] \in Records
      BY <1>1, <1>2, <1>5, <2>1, PickFacts DEF Stage
    <2>4. db'[pick[t][n]] = db[pick[t][n]]
      BY <1>3, <2>3 DEF LockInv, TypeOK, WorkersTypeOK
    <2> QED
      BY <2>1, <2>2, <2>3, <2>4
  <1>20. ASSUME NEW u \in Workers, u # t, Active(u)
         PROVE  ReadsCurrent(u)'
    BY <1>3, <1>5, <1>14, <1>20, WriteKeepsReads
  <1> QED
    BY <1>11, <1>12, <1>13, <1>14, <1>17, <1>18, <1>19, <1>20, StepKeeps

LEMMA UndoUpdateKeeps ==
    ASSUME LockInv, NEW t \in Workers, UndoUpdate(t)
    PROVE  LockInv'
  <1> DEFINE n == undo[t]
             image == records[t][n]
  <1>1. /\ pc[t] = "rollback" /\ n <= Len(records[t])
        /\ IF image.isUpdated THEN db' = [db EXCEPT ![image.index] = image.value]
                              ELSE db' = db
        /\ undo' = [undo EXCEPT ![t] = undo[t] + 1]
        /\ UNCHANGED <<lockTableVars, globalVars, pc, stage, pick, records, commitId, clog>>
    BY DEF UndoUpdate
  <1>2. Active(t) /\ n \in DOMAIN records[t] /\ image \in BeforeImage
    <2>1. undo[t] \in Nat \ {0} /\ records[t] \in Seq(BeforeImage)
      BY DEF LockInv, TypeOK, WorkersTypeOK
    <2> QED
      BY <1>1, <2>1 DEF Active
  <1>3. image.isUpdated => n # 1
    BY <1>2 DEF LockInv, ProgressInv, Progress
  <1>4. /\ image.index \in Records /\ image.index = pick[t][n]
        /\ n \in Stage
        /\ Passed(threadQueue[image.index], t)
        /\ image.isUpdated => Writes(threadQueue[image.index], t)
    BY <1>2, <1>3, ReadIsHeld
  <1>5. image.value \in RecordValue
    BY <1>2 DEF BeforeImage
  <1> HIDE DEF image, n
  <1>6. db' \in [Records -> RecordValue]
    BY <1>1, <1>4, <1>5 DEF LockInv, TypeOK, WorkersTypeOK
  <1>7. WorkersTypeOK'
    BY <1>1, <1>6 DEF LockInv, TypeOK, WorkersTypeOK, globalVars
  <1>8. MutexInv'
    BY <1>1 DEF LockInv, MutexInv, globalVars
  <1>9. TableInv' /\ OthersKeep(t)
    BY <1>1, TableStays
  <1>10. \A u \in Workers : SameWorker(u)
    BY <1>1 DEF SameWorker, lockTableVars
  <1>11. Progress(t)'
    BY <1>1 DEF LockInv, ProgressInv, Progress, Active, lockTableVars
  <1>12. Elements(t)'
    BY <1>1 DEF LockInv, ElementsInv, Elements, lockTableVars
  <1>13. ReadsCurrent(t)'
    <2> SUFFICES ASSUME NEW m \in DOMAIN records[t], ~records[t][m].isUpdated
                 PROVE  db'[records[t][m].index] = records[t][m].value
      BY <1>1 DEF ReadsCurrent
    <2>1. db[records[t][m].index] = records[t][m].value
      BY <1>2 DEF LockInv, ReadsRemainCurrent, ReadsCurrent
    <2>2. CASE ~image.isUpdated
      BY <1>1, <2>1, <2>2
    <2>3. CASE image.isUpdated
      <3>1. m # n
        BY <2>3 DEF image
      <3>2. m \in Stage /\ records[t][m].index = pick[t][m] /\ pick[t] \in Picks
        BY <1>2, ReadIsHeld DEF LockInv, ProgressInv, Progress
      <3>3. records[t][m].index # image.index /\ records[t][m].index \in Records
        BY <1>4, <3>1, <3>2, PickFacts
      <3>4. db'[records[t][m].index] = db[records[t][m].index]
        BY <1>1, <2>3, <3>3 DEF LockInv, TypeOK, WorkersTypeOK
      <3> QED
        BY <2>1, <3>4
    <2> QED
      BY <2>2, <2>3
  <1>14. ASSUME NEW u \in Workers, u # t, Active(u)
         PROVE  ReadsCurrent(u)'
    <2>1. CASE ~image.isUpdated
      <3>1. UNCHANGED db
        BY <1>1, <2>1
      <3> QED
        BY <1>10, <1>14, <3>1, QuietReads
    <2>2. CASE image.isUpdated
      BY <1>1, <1>4, <1>10, <1>14, <2>2, WriteKeepsReads
    <2> QED
      BY <2>1, <2>2
  <1> QED
    BY <1>7, <1>8, <1>9, <1>10, <1>11, <1>12, <1>13, <1>14, StepKeeps

\* unlockAll(), the mutex is released and workTransaction returns.
LEMMA ReturnFacts ==
    ASSUME LockInv, NEW t \in Workers, NEW place \in {"begin", "deadlock", "done"},
           UnlockAll(t), Release(t), Return(t, place),
           UNCHANGED <<db, records>>, mutex = t
    PROVE  /\ TableInv' /\ OthersKeep(t)
           /\ MutexInv'
           /\ Progress(t)' /\ Elements(t)'
           /\ Active(t)' => ReadsCurrent(t)'
           /\ \A u \in Workers : u # t => SameWorker(u)
           /\ \A u \in Workers : (u # t /\ Active(u)) => ReadsCurrent(u)'
  <1> USE DEF Return, Goto
  <1>1. /\ TableInv' /\ OthersKeep(t)
        /\ \A u \in Workers : u # t => adj'[u] = adj[u]
        /\ adj'[t] = <<>>
    BY UnlockAllTable DEF LockInv, TypeOK, TableInv
  <1>2. MutexInv'
    BY NoThreadAssumption DEF LockInv, TypeOK, WorkersTypeOK, MutexInv, Release
  <1>3. \A u \in Workers : u # t => SameWorker(u)
    BY <1>1 DEF SameWorker, LockInv, TypeOK, WorkersTypeOK
  <1>4. pc'[t] = place /\ stage'[t] = 1 /\ ~Active(t)'
    BY DEF LockInv, TypeOK, WorkersTypeOK, Active
  <1>5. Progress(t)'
    BY <1>1, <1>4 DEF Progress, Active
  <1>6. Elements(t)'
    BY <1>1 DEF Elements
  <1>7. \A u \in Workers : (u # t /\ Active(u)) => ReadsCurrent(u)'
    BY <1>3, QuietReads
  <1> QED
    BY <1>1, <1>2, <1>3, <1>4, <1>5, <1>6, <1>7

LEMMA ReturnType ==
    ASSUME LockInv, NEW t \in Workers, NEW place \in {"begin", "deadlock", "done"},
           Return(t, place)
    PROVE  /\ pc' \in [Workers -> Places]
           /\ stage' \in [Workers -> Stage]
           /\ pick' \in [Workers -> Picks \union {<<>>}]
           /\ commitId' \in [Workers -> Nat]
           /\ undo' \in [Workers -> Nat \ {0}]
  BY DEF Return, Goto, LockInv, TypeOK, WorkersTypeOK, Places, Stage

LEMMA CommitKeeps ==
    ASSUME LockInv, NEW t \in Workers, Commit(t)
    PROVE  LockInv'
  <1> USE DEF Commit
  <1>1. mutex = t
    BY DEF LockInv, MutexInv
  <1>2. /\ pick[t] \in Picks /\ DOMAIN records[t] = {1, 2, 3}
        /\ records[t] \in Seq(BeforeImage)
    <2>1. Active(t) /\ Len(records[t]) = 3 /\ pick[t] \in Picks
      BY DEF LockInv, ProgressInv, Progress, Active
    <2> QED
      BY <2>1, WorkerType DEF LockInv
  <1>3. ri(t) \in RecordValue /\ rj(t) \in RecordValue /\ rk(t) \in RecordValue
    <2>1. records[t][1] \in BeforeImage /\ records[t][2] \in BeforeImage
          /\ records[t][3] \in BeforeImage
      BY <1>2
    <2> QED
      BY <2>1, NewType DEF ri, rj, rk, BeforeImage
  <1>4. pick[t][1] \in Records /\ pick[t][2] \in Records /\ pick[t][3] \in Records
    BY <1>2, PickFacts DEF Stage
  <1>5. currentOrder \in Nat /\ currentOrder + 1 \in 1 .. LastOrder
    BY LastOrderAssumption DEF LockInv, TypeOK, WorkersTypeOK
  <1> DEFINE log == [commitId |-> currentOrder + 1,
                     i |-> pick[t][1], j |-> pick[t][2], k |-> pick[t][3],
                     vi |-> ri(t), vj |-> rj(t), vk |-> rk(t)]
  <1>6. log \in LogEntry
    BY <1>3, <1>4, <1>5 DEF LogEntry
  <1>7. clog' = [clog EXCEPT ![t] = Append(clog[t], log)]
    OBVIOUS
  <1> HIDE DEF log
  <1>8. clog' \in [Workers -> Seq(LogEntry)]
    <2>1. clog \in [Workers -> Seq(LogEntry)]
      BY DEF LockInv, TypeOK, WorkersTypeOK
    <2>2. Append(clog[t], log) \in Seq(LogEntry)
      BY <1>6, <2>1, AppendProperties
    <2> QED
      BY <1>7, <2>1, <2>2
  <1>9. WorkersTypeOK'
    <2>1. /\ pc' \in [Workers -> Places] /\ stage' \in [Workers -> Stage]
          /\ pick' \in [Workers -> Picks \union {<<>>}]
          /\ commitId' \in [Workers -> Nat] /\ undo' \in [Workers -> Nat \ {0}]
      BY ReturnType
    <2>2. mutex' = NoThread /\ currentOrder' \in Nat /\ UNCHANGED <<deadlockCnt, db, records>>
      BY <1>5 DEF Release
    <2>3. /\ deadlockCnt \in 0 .. DeadlockCap /\ db \in [Records -> RecordValue]
          /\ records \in [Workers -> Seq(BeforeImage)]
      BY DEF LockInv, TypeOK, WorkersTypeOK
    <2> QED
      BY <1>8, <2>1, <2>2, <2>3 DEF WorkersTypeOK
  <1> QED
    BY <1>1, <1>9, ReturnFacts, StepKeeps

LEMMA EndRollbackKeeps ==
    ASSUME LockInv, NEW t \in Workers, EndRollback(t)
    PROVE  LockInv'
  <1> DEFINE place == IF commitId[t] > LastOrder THEN "done" ELSE "deadlock"
  <1>1. mutex = t
    BY DEF LockInv, MutexInv, EndRollback
  <1>2. place \in {"begin", "deadlock", "done"} /\ Return(t, place)
    BY DEF EndRollback
  <1> HIDE DEF place
  <1>3. WorkersTypeOK'
    BY <1>2, ReturnType DEF EndRollback, Release, LockInv, TypeOK, WorkersTypeOK
  <1> QED
    BY <1>1, <1>2, <1>3, ReturnFacts, StepKeeps DEF EndRollback

-----------------------------------------------------------------------------
(* The theorems. *)

LEMMA InitLockInv == Init => LockInv
  <1> SUFFICES ASSUME Init PROVE LockInv
    OBVIOUS
  <1> USE DEF Init, LockTableInit
  <1>1. LockTableTypeOK
    BY DEF LockTableTypeOK
  <1>2. WorkersTypeOK
    BY DefaultValueAssumption, DeadlockCapAssumption
    DEF WorkersTypeOK, Places, Stage, NewDatabase
  <1>3. HoldersExclude
    BY DEF HoldersExclude, Exclusive
  <1>4. TokensMatchQueues
    BY DEF TokensMatchQueues, DistinctTids, Tids, ToSet
  <1>5. MutexInv
    BY NoThreadAssumption DEF MutexInv
  <1>6. ProgressInv
    BY DEF ProgressInv, Progress, Active
  <1>7. ElementsInv
    BY DEF ElementsInv, Elements
  <1>8. ReadsRemainCurrent
    BY DEF ReadsRemainCurrent, Active
  <1> QED
    BY <1>1, <1>2, <1>3, <1>4, <1>5, <1>6, <1>7, <1>8 DEF LockInv, TypeOK

LEMMA NextLockInv == LockInv /\ [Next]_vars => LockInv'
  <1> SUFFICES ASSUME LockInv, [Next]_vars PROVE LockInv'
    OBVIOUS
  <1>1. CASE UNCHANGED vars
    BY <1>1 DEF vars, lockTableVars, globalVars, workerVars, LockInv, TypeOK,
         LockTableTypeOK, WorkersTypeOK, HoldersExclude, TokensMatchQueues, MutexInv,
         ProgressInv, Progress, ElementsInv, Elements, ReadsRemainCurrent,
         ReadsCurrent, Active
  <1>2. ASSUME NEW t \in Workers, Step(t) PROVE LockInv'
    BY <1>2, BeginKeeps, EnterRequestKeeps, LockGrantedKeeps, LockRefusedKeeps,
       LockWaitsKeeps, RelockKeeps, PollPassesKeeps, PollFailsKeeps,
       ReadRecordKeeps, UpdateRecordKeeps, EnterCommitKeeps, CommitKeeps,
       OverrunCommitKeeps, UndoUpdateKeeps, EndRollbackKeeps, CountDeadlockKeeps
    DEF Step
  <1> QED
    BY <1>1, <1>2 DEF Next, Terminating

\* The inductive invariant holds in every state of the transaction engine.
THEOREM LockInvAlways == Spec => []LockInv
  BY InitLockInv, NextLockInv, PTL DEF Spec

\* Every variable of lock table, database and workers keeps its type.
THEOREM TypeCorrect == Spec => []TypeOK
  <1>1. LockInv => TypeOK
    BY DEF LockInv
  <1> QED
    BY <1>1, LockInvAlways, PTL

\* RWLock::canEnter admits a writer alone and readers together, for any number
\* of workers.
THEOREM LocksExclude == Spec => []HoldersExclude
  <1>1. LockInv => HoldersExclude
    BY DEF LockInv
  <1> QED
    BY <1>1, LockInvAlways, PTL

\* LockTable::unlockAll never erases through a dangling iterator and leaves no
\* element behind; the assertion in hasCycle cannot fail.
THEOREM TokensExact == Spec => []TokensMatchQueues
  <1>1. LockInv => TokensMatchQueues
    BY DEF LockInv
  <1> QED
    BY <1>1, LockInvAlways, PTL

\* Database::get and Database::set, called outside the mutex, never race.
THEOREM RaceFree == Spec => []NoDataRace
  BY LockInvAlways, LockInvNoDataRace, PTL

\* What a transaction has read stays what the database holds until it ends.
THEOREM ReadsStable == Spec => []ReadsRemainCurrent
  <1>1. LockInv => ReadsRemainCurrent
    BY DEF LockInv
  <1> QED
    BY <1>1, LockInvAlways, PTL
-----------------------------------------------------------------------------
(* What the log files hold. *)

\* One line more in one file.
Appended(files, g, t, log, line) ==
    /\ files \in [Workers -> Seq(LogEntry)] /\ log \in LogEntry
    /\ g = [files EXCEPT ![t] = Append(files[t], log)]
    /\ line = <<t, Len(files[t]) + 1>>

LEMMA LineAdded ==
    ASSUME NEW t \in Workers, NEW files, NEW g, NEW log, NEW line,
           Appended(files, g, t, log, line)
    PROVE  /\ line \notin Lines(files)
           /\ Lines(g) = Lines(files) \union {line}
           /\ \A l \in Lines(files) : g[l[1]][l[2]] = files[l[1]][l[2]]
           /\ g[line[1]][line[2]] = log
           /\ LogsOf(g) = LogsOf(files) \union {log}
  <1> DEFINE n == Len(files[t])
  <1>1. files[t] \in Seq(LogEntry) /\ n \in Nat /\ DOMAIN files[t] = 1 .. n
    BY DEF Appended
  <1>2. /\ g \in [Workers -> Seq(LogEntry)] /\ \A u \in Workers : u # t => g[u] = files[u]
        /\ g[t] = Append(files[t], log) /\ log \in LogEntry
    BY DEF Appended
  <1>3. /\ DOMAIN g[t] = 1 .. n + 1
        /\ \A m \in 1 .. n : g[t][m] = files[t][m]
        /\ g[t][n + 1] = log
    BY <1>1, <1>2
  <1> HIDE DEF n
  <1>4. 1 .. n + 1 = (1 .. n) \union {n + 1} /\ n + 1 \notin 1 .. n
    BY <1>1
  <1>5. DOMAIN files = Workers /\ DOMAIN g = Workers
    BY <1>2 DEF Appended
  <1>6. ASSUME NEW u \in Workers, NEW m
        PROVE  /\ m \in DOMAIN g[u] <=> m \in DOMAIN files[u] \/ (u = t /\ m = n + 1)
               /\ m \in DOMAIN files[u] => g[u][m] = files[u][m]
    <2>1. CASE u = t
      BY <1>1, <1>3, <1>4, <2>1
    <2>2. CASE u # t
      BY <1>2, <2>2
    <2> QED
      BY <2>1, <2>2
  <1>7. line = <<t, n + 1>> /\ n + 1 \notin DOMAIN files[t]
    BY <1>1, <1>4 DEF n, Appended
  <1>8. line \notin Lines(files)
    BY <1>5, <1>7 DEF Lines
  <1>9. Lines(g) = Lines(files) \union {line}
    <2>1. ASSUME NEW l \in Lines(g) PROVE l \in Lines(files) \/ l = line
      <3>1. PICK u \in Workers : \E m \in DOMAIN g[u] : l = <<u, m>>
        BY <1>5 DEF Lines
      <3>2. PICK m \in DOMAIN g[u] : l = <<u, m>>
        BY <3>1
      <3> QED
        BY <1>5, <1>6, <1>7, <3>2 DEF Lines
    <2>2. ASSUME NEW l \in Lines(files) PROVE l \in Lines(g)
      <3>1. PICK u \in Workers : \E m \in DOMAIN files[u] : l = <<u, m>>
        BY <1>5 DEF Lines
      <3> QED
        BY <1>5, <1>6, <3>1 DEF Lines
    <2>3. line \in Lines(g)
      BY <1>5, <1>6, <1>7 DEF Lines
    <2> QED
      BY <2>1, <2>2, <2>3
  <1>10. ASSUME NEW l \in Lines(files) PROVE g[l[1]][l[2]] = files[l[1]][l[2]]
    <2>1. PICK u \in Workers : \E m \in DOMAIN files[u] : l = <<u, m>>
      BY <1>5 DEF Lines
    <2>2. PICK m \in DOMAIN files[u] : l = <<u, m>>
      BY <2>1
    <2>3. g[u][m] = files[u][m]
      BY <1>6
    <2> QED
      BY <2>2, <2>3
  <1>11. LogsOf(g) = LogsOf(files) \union {log}
    <2>1. ASSUME NEW x \in LogsOf(g) PROVE x \in LogsOf(files) \/ x = log
      <3>1. PICK u \in Workers : \E m \in DOMAIN g[u] : x = g[u][m]
        BY <1>5 DEF LogsOf
      <3>2. PICK m \in DOMAIN g[u] : x = g[u][m]
        BY <3>1
      <3>3. CASE m \in DOMAIN files[u]
        BY <1>5, <1>6, <3>2, <3>3 DEF LogsOf
      <3>4. CASE u = t /\ m = n + 1
        BY <1>3, <3>2, <3>4
      <3> QED
        BY <1>6, <3>3, <3>4
    <2>2. ASSUME NEW x \in LogsOf(files) PROVE x \in LogsOf(g)
      <3>1. PICK u \in Workers : \E m \in DOMAIN files[u] : x = files[u][m]
        BY <1>5 DEF LogsOf
      <3>2. PICK m \in DOMAIN files[u] : x = files[u][m]
        BY <3>1
      <3>3. m \in DOMAIN g[u] /\ x = g[u][m]
        BY <1>6, <3>2
      <3> QED
        BY <1>5, <3>3 DEF LogsOf
    <2>3. log \in LogsOf(g)
      <3>1. n + 1 \in DOMAIN g[t] /\ log = g[t][n + 1]
        BY <1>3, <1>4
      <3> QED
        BY <1>5, <3>1 DEF LogsOf
    <2> QED
      BY <2>1, <2>2, <2>3
  <1> QED
    BY <1>3, <1>7, <1>8, <1>9, <1>10, <1>11

LEMMA LineOfLog ==
    ASSUME NEW files, NEW log \in LogsOf(files)
    PROVE  \E l \in Lines(files) : log = files[l[1]][l[2]]
  <1>1. PICK t \in DOMAIN files : \E n \in DOMAIN files[t] : log = files[t][n]
    BY DEF LogsOf
  <1>2. PICK n \in DOMAIN files[t] : log = files[t][n]
    BY <1>1
  <1>3. <<t, n>> \in Lines(files)
    BY DEF Lines
  <1> QED
    BY <1>2, <1>3

\* When the files hold each id once, one entry has it.
LEMMA LogAtFacts ==
    ASSUME NEW files, NEW count,
           {log.commitId : log \in LogsOf(files)} = 1 .. count,
           \A l, m \in Lines(files) :
             files[l[1]][l[2]].commitId = files[m[1]][m[2]].commitId => l = m,
           NEW n \in 1 .. count
    PROVE  /\ LogAt(files, n) \in LogsOf(files)
           /\ LogAt(files, n).commitId = n
           /\ \A log \in LogsOf(files) : log.commitId = n => log = LogAt(files, n)
  <1>1. PICK log \in LogsOf(files) : log.commitId = n
    OBVIOUS
  <1>2. LogAt(files, n) \in LogsOf(files) /\ LogAt(files, n).commitId = n
    BY <1>1 DEF LogAt
  <1>3. ASSUME NEW x \in LogsOf(files), x.commitId = n PROVE x = LogAt(files, n)
    <2>1. PICK l \in Lines(files) : x = files[l[1]][l[2]]
      BY LineOfLog
    <2>2. PICK m \in Lines(files) : LogAt(files, n) = files[m[1]][m[2]]
      BY <1>2, LineOfLog
    <2> QED
      BY <1>2, <1>3, <2>1, <2>2
  <1> QED
    BY <1>2, <1>3

-----------------------------------------------------------------------------
(* The validator's replay. *)

\* A set of natural numbers with 0 and with the successors of its members has
\* all of them.
LEMMA Successors ==
    ASSUME NEW S \in SUBSET Nat, 0 \in S, \A n \in S : n + 1 \in S
    PROVE  S = Nat
  <1> SUFFICES ASSUME Nat \ S # {} PROVE FALSE
    OBVIOUS
  <1>1. PICK R : R = OpToRel(<, Nat)
    OBVIOUS
  <1>2. IsWellFoundedOn(R, Nat)
    BY <1>1, NatLessThanWellFounded
  <1>3. \A x, y \in Nat : x < y => <<x, y>> \in R
    BY <1>1 DEF OpToRel
  <1>4. Nat \ S \in SUBSET Nat
    OBVIOUS
  <1>5. PICK x \in Nat \ S : \A y \in Nat \ S : ~ (<<y, x>> \in R)
    BY <1>2, <1>4, WFMin
  <1>6. x \in Nat /\ x # 0
    OBVIOUS
  <1>7. x - 1 \in Nat /\ x - 1 < x /\ (x - 1) + 1 = x
    BY <1>6
  <1>8. x - 1 \in S
    BY <1>3, <1>5, <1>6, <1>7
  <1> QED
    BY <1>5, <1>7, <1>8

Replayed(files, n, old) ==
    LET log == LogAt(files, n)
        vi == old[log.i]
    IN  [old EXCEPT ![log.j] = NewJ(vi, @), ![log.k] = NewK(vi, @)]

Replays(files, indices, m, v) ==
    v = [n \in 0 .. m |-> IF n = 0 THEN NewDatabase(indices) ELSE Replayed(files, n, v[n - 1])]

\* What the validator's loop computes.
LEMMA ReplayFacts ==
    ASSUME NEW files, NEW indices, NEW count \in Nat
    PROVE  /\ Replay(files, indices, count)[0] = NewDatabase(indices)
           /\ \A n \in 1 .. count : Replay(files, indices, count)[n] =
                Replayed(files, n, Replay(files, indices, count)[n - 1])
  <1> DEFINE S == {m \in Nat : \E v : Replays(files, indices, m, v)}
  <1>1. 0 \in S
    <2>1. Replays(files, indices, 0, [n \in 0 .. 0 |-> NewDatabase(indices)])
      BY DEF Replays
    <2> QED
      BY <2>1
  <1>2. ASSUME NEW m \in S PROVE m + 1 \in S
    <2>1. PICK v : Replays(files, indices, m, v)
      OBVIOUS
    <2>2. v[0] = NewDatabase(indices) /\ \A n \in 1 .. m : v[n] = Replayed(files, n, v[n - 1])
      BY <2>1 DEF Replays
    <2> DEFINE w == [n \in 0 .. m + 1 |-> IF n <= m THEN v[n] ELSE Replayed(files, m + 1, v[m])]
    <2>3. ASSUME NEW n \in 0 .. m + 1
          PROVE  w[n] = IF n = 0 THEN NewDatabase(indices) ELSE Replayed(files, n, w[n - 1])
      <3>1. CASE n = 0
        BY <2>2, <3>1
      <3>2. CASE n \in 1 .. m
        BY <2>2, <3>2
      <3>3. CASE n = m + 1
        BY <3>3
      <3> QED
        BY <3>1, <3>2, <3>3
    <2>4. Replays(files, indices, m + 1, w)
      BY <2>3 DEF Replays
    <2> QED
      BY <2>4
  <1>3. count \in S
    <2> HIDE DEF S
    <2>1. S \in SUBSET Nat
      BY DEF S
    <2> QED
      BY <1>1, <1>2, <2>1, Successors
  <1> DEFINE after == CHOOSE v : Replays(files, indices, count, v)
  <1>4. Replays(files, indices, count, after)
    BY <1>3
  <1>5. Replay(files, indices, count) = after
    BY DEF Replay, Replays, Replayed
  <1> HIDE DEF after
  <1> QED
    BY <1>4, <1>5 DEF Replays

\* Where two sets of files have the same entries, the replays agree.
LEMMA ReplaysAgree ==
    ASSUME NEW files, NEW g, NEW indices, NEW count \in Nat, NEW m \in 0 .. count,
           \A n \in 1 .. m : LogAt(g, n) = LogAt(files, n)
    PROVE  \A n \in 0 .. m : Replay(g, indices, count)[n] = Replay(files, indices, count)[n]
  <1> DEFINE a == Replay(files, indices, count)
             b == Replay(g, indices, count)
             S == {n \in Nat : n <= m => b[n] = a[n]}
  <1>1. /\ a[0] = NewDatabase(indices) /\ b[0] = NewDatabase(indices)
        /\ \A n \in 1 .. count : a[n] = Replayed(files, n, a[n - 1])
        /\ \A n \in 1 .. count : b[n] = Replayed(g, n, b[n - 1])
    BY ReplayFacts
  <1> HIDE DEF a, b
  <1>2. 0 \in S
    BY <1>1
  <1>3. ASSUME NEW n \in S PROVE n + 1 \in S
    <2>1. n \in Nat /\ (n + 1) - 1 = n
      OBVIOUS
    <2>2. CASE n + 1 <= m
      <3>1. n + 1 \in 1 .. m /\ n + 1 \in 1 .. count
        BY <2>1, <2>2
      <3>2. b[n] = a[n]
        BY <2>1, <2>2
      <3>3. Replayed(g, n + 1, b[n]) = Replayed(files, n + 1, a[n])
        BY <3>1, <3>2 DEF Replayed
      <3> QED
        BY <1>1, <2>1, <3>1, <3>3
    <2>3. CASE ~ (n + 1 <= m)
      BY <2>1, <2>3
    <2> QED
      BY <2>2, <2>3
  <1>4. S = Nat
    <2> HIDE DEF S
    <2>1. S \in SUBSET Nat
      BY DEF S
    <2> QED
      BY <1>2, <1>3, <2>1, Successors
  <1> QED
    BY <1>4 DEF a, b

-----------------------------------------------------------------------------
(* The database without the updates that are not committed. *)

\* t has overwritten its n-th record and has not returned.
Dirty(t, n) == Active(t) /\ n \in DOMAIN records[t] /\ records[t][n].isUpdated

\* What Committed is, in words that do not choose.
Reverted(c) ==
    /\ \A t \in Workers, n \in Stage : Dirty(t, n) => c[records[t][n].index] = records[t][n].value
    /\ \A r \in Records :
         (\A t \in Workers, n \in Stage : Dirty(t, n) => records[t][n].index # r) => c[r] = db[r]

\* Two workers have no record in common that one of them has locked for writing.
LEMMA ImagesApart ==
    ASSUME LockInv, NEW t \in Workers, NEW u \in Workers, Active(t), Active(u),
           NEW m \in DOMAIN records[t], NEW n \in DOMAIN records[u], n # 1,
           records[t][m].index = records[u][n].index
    PROVE  t = u /\ m = n
  <1>1. /\ m \in Stage /\ records[t][m].index = pick[t][m]
        /\ pick[t][m] \in Records /\ Passed(threadQueue[pick[t][m]], t)
    BY ReadIsHeld
  <1>2. /\ n \in Stage /\ records[u][n].index = pick[u][n]
        /\ Passed(threadQueue[pick[u][n]], u) /\ Writes(threadQueue[pick[u][n]], u)
    BY ReadIsHeld
  <1> DEFINE q == threadQueue[pick[t][m]]
  <1>3. q \in Seq(LockElement) /\ DistinctTids(q) /\ Exclusive(q)
    BY <1>1 DEF LockInv, TypeOK, LockTableTypeOK, HoldersExclude, TokensMatchQueues
  <1>4. Passed(q, t) /\ Passed(q, u) /\ Writes(q, u)
    BY <1>1, <1>2
  <1> HIDE DEF q
  <1>5. t = u
    BY <1>3, <1>4, PassedTogetherRead
  <1>6. pick[t] \in Picks /\ pick[t][m] = pick[t][n]
    BY <1>1, <1>2, <1>5 DEF LockInv, ProgressInv, Progress
  <1> QED
    BY <1>1, <1>2, <1>5, <1>6, PickFacts

LEMMA DirtyFacts ==
    ASSUME LockInv, NEW t \in Workers, NEW n, Dirty(t, n)
    PROVE  /\ n \in Stage /\ n # 1 /\ Active(t) /\ n \in DOMAIN records[t]
           /\ records[t][n].index \in Records /\ records[t][n].isUpdated
  <1>1. n \in DOMAIN records[t] /\ Active(t) /\ records[t][n].isUpdated
    BY DEF Dirty
  <1>2. n # 1
    BY <1>1 DEF LockInv, ProgressInv, Progress
  <1> QED
    BY <1>1, <1>2, ReadIsHeld

LEMMA CommittedIs == LockInv => Committed \in [Records -> RecordValue] /\ Reverted(Committed)
  <1> SUFFICES ASSUME LockInv PROVE Committed \in [Records -> RecordValue] /\ Reverted(Committed)
    OBVIOUS
  <1>1. ASSUME NEW image
        PROVE  image \in DirtyImages <=>
                 \E t \in Workers : \E n \in DOMAIN records[t] : Dirty(t, n) /\ image = records[t][n]
    BY DEF DirtyImages, Dirty
  <1>2. ASSUME NEW t \in Workers, NEW n \in Stage, Dirty(t, n)
        PROVE  Committed[records[t][n].index] = records[t][n].value
    <2> DEFINE r == records[t][n].index
               image == CHOOSE image \in DirtyImages : image.index = r
    <2>1. n # 1 /\ Active(t) /\ n \in DOMAIN records[t] /\ r \in Records
      BY <1>2, DirtyFacts
    <2>2. records[t][n] \in DirtyImages
      BY <1>1, <1>2, <2>1
    <2>3. image \in DirtyImages /\ image.index = r
      BY <2>2
    <2>4. PICK u \in Workers : \E m \in DOMAIN records[u] : Dirty(u, m) /\ image = records[u][m]
      BY <1>1, <2>3
    <2>5. PICK m \in DOMAIN records[u] : Dirty(u, m) /\ image = records[u][m]
      BY <2>4
    <2>6. u = t /\ m = n
      BY <2>1, <2>3, <2>5, DirtyFacts, ImagesApart
    <2>7. Committed[r] = image.value
      BY <2>1, <2>2 DEF Committed
    <2> QED
      BY <2>5, <2>6, <2>7
  <1>3. ASSUME NEW r \in Records,
               \A t \in Workers, n \in Stage : Dirty(t, n) => records[t][n].index # r
        PROVE  Committed[r] = db[r]
    <2>1. ASSUME NEW image \in DirtyImages PROVE image.index # r
      <3>1. PICK t \in Workers : \E n \in DOMAIN records[t] : Dirty(t, n) /\ image = records[t][n]
        BY <1>1
      <3>2. PICK n \in DOMAIN records[t] : Dirty(t, n) /\ image = records[t][n]
        BY <3>1
      <3> QED
        BY <1>3, <3>2, DirtyFacts
    <2> QED
      BY <2>1 DEF Committed
  <1>4. ASSUME NEW r \in Records PROVE Committed[r] \in RecordValue
    <2>1. CASE \A t \in Workers, n \in Stage : Dirty(t, n) => records[t][n].index # r
      BY <1>3, <2>1 DEF LockInv, TypeOK, WorkersTypeOK
    <2>2. CASE \E t \in Workers, n \in Stage : Dirty(t, n) /\ records[t][n].index = r
      <3>1. PICK t \in Workers, n \in Stage : Dirty(t, n) /\ records[t][n].index = r
        BY <2>2
      <3>2. records[t][n] \in BeforeImage
        BY <3>1, WorkerType DEF Dirty, LockInv
      <3> QED
        BY <1>2, <3>1, <3>2 DEF BeforeImage
    <2> QED
      BY <2>1, <2>2
  <1>5. Committed \in [Records -> RecordValue]
    BY <1>4 DEF Committed
  <1> QED
    BY <1>2, <1>3, <1>5 DEF Reverted

\* It is what Reverted says, also after a step.
LEMMA CommittedAfter ==
    ASSUME LockInv', NEW c, c \in [Records -> RecordValue], Reverted(c)'
    PROVE  Committed' = c
  <1>1. (LockInv => Committed \in [Records -> RecordValue] /\ Reverted(Committed))'
    BY CommittedIs, PTL
  <1>2. PICK d : d = Committed'
    OBVIOUS
  <1>3. d \in [Records -> RecordValue] /\ Reverted(d)'
    BY <1>1, <1>2 DEF Reverted
  <1>4. ASSUME NEW r \in Records PROVE d[r] = c[r]
    <2>1. CASE \A t \in Workers, n \in Stage : Dirty(t, n)' => records'[t][n].index # r
      BY <1>3, <2>1 DEF Reverted
    <2>2. CASE \E t \in Workers, n \in Stage : Dirty(t, n)' /\ records'[t][n].index = r
      BY <1>3, <2>2 DEF Reverted
    <2> QED
      BY <2>1, <2>2
  <1> QED
    BY <1>2, <1>3, <1>4

\* What a transaction has read, whether it has updated it or not, is what was
\* last committed.
LEMMA ImageIsCommitted ==
    ASSUME LockInv, NEW t \in Workers, Active(t), NEW n \in DOMAIN records[t]
    PROVE  Committed[records[t][n].index] = records[t][n].value
  <1>1. n \in Stage /\ records[t][n].index \in Records
    BY ReadIsHeld
  <1>2. CASE records[t][n].isUpdated
    BY <1>1, <1>2, CommittedIs DEF Dirty, Reverted
  <1>3. CASE ~records[t][n].isUpdated
    <2>1. db[records[t][n].index] = records[t][n].value
      BY <1>3 DEF LockInv, ReadsRemainCurrent, ReadsCurrent
    <2>2. ASSUME NEW u \in Workers, NEW m \in Stage, Dirty(u, m)
          PROVE  records[u][m].index # records[t][n].index
      BY <1>3, <2>2, DirtyFacts, ImagesApart
    <2> QED
      BY <1>1, <2>1, <2>2, CommittedIs DEF Reverted
  <1> QED
    BY <1>2, <1>3

-----------------------------------------------------------------------------
(* One step: what must be shown of the worker that makes it. *)

LEMMA RevertedStays ==
    ASSUME NEW c, Reverted(c),
           \A u \in Workers, n \in Stage : Dirty(u, n)' <=> Dirty(u, n),
           \A u \in Workers, n \in Stage : Dirty(u, n) =>
             /\ records'[u][n].index = records[u][n].index
             /\ records'[u][n].value = records[u][n].value,
           \A r \in Records :
             (\A u \in Workers, n \in Stage : Dirty(u, n) => records[u][n].index # r) =>
               db'[r] = db[r]
    PROVE  Reverted(c)'
  <1>1. ASSUME NEW u \in Workers, NEW n \in Stage, Dirty(u, n)'
        PROVE  c[records'[u][n].index] = records'[u][n].value
    BY <1>1 DEF Reverted
  <1>2. ASSUME NEW r \in Records,
               \A u \in Workers, n \in Stage : Dirty(u, n)' => records'[u][n].index # r
        PROVE  c[r] = db'[r]
    <2>1. \A u \in Workers, n \in Stage : Dirty(u, n) => records[u][n].index # r
      BY <1>2
    <2> QED
      BY <2>1 DEF Reverted
  <1> QED
    BY <1>1, <1>2 DEF Reverted

LEMMA DirtyOthers ==
    ASSUME NEW u \in Workers, SameWorker(u), NEW n
    PROVE  /\ Dirty(u, n)' <=> Dirty(u, n)
           /\ Active(u)' <=> Active(u)
           /\ records'[u][n].index = records[u][n].index
           /\ records'[u][n].value = records[u][n].value
  BY DEF SameWorker, Dirty, Active

LEMMA OthersUpdates ==
    ASSUME LockInv, NEW u \in Workers, UpdatesOK(u), SameWorker(u), undo'[u] = undo[u],
           Active(u) => \A n \in DOMAIN records[u] :
             db'[records[u][n].index] = db[records[u][n].index]
    PROVE  UpdatesOK(u)'
  <1>1. /\ rj(u)' = rj(u) /\ rk(u)' = rk(u) /\ (Active(u)' <=> Active(u))
        /\ pc'[u] = pc[u] /\ stage'[u] = stage[u] /\ records'[u] = records[u]
    BY DEF SameWorker, rj, rk, ri, Active
  <1> QED
    BY <1>1 DEF UpdatesOK

\* A step that commits nothing.
LEMMA StepIsInvisible ==
    ASSUME SerialInv, LockInv', NEW t \in Workers,
           \A u \in Workers : u # t => SameWorker(u) /\ undo'[u] = undo[u],
           \A u \in Workers : u # t /\ Active(u) =>
             \A n \in DOMAIN records[u] : db'[records[u][n].index] = db[records[u][n].index],
           clog' = clog, CommitCount' = CommitCount, \A u \in Workers : IdsOK(u)',
           UpdatesOK(t)', NEW c, c = Committed, Reverted(c)'
    PROVE  SerialInv' /\ Committed' = Committed /\ History' = History
  <1>1. c \in [Records -> RecordValue]
    BY CommittedIs DEF SerialInv
  <1>2. Committed' = Committed
    BY <1>1, CommittedAfter
  <1>3. History' = History
    BY DEF History
  <1>4. LogsInv'
    BY DEF SerialInv, LogsInv
  <1>5. ReplayInv'
    BY <1>2, <1>3 DEF SerialInv, ReplayInv
  <1>6. ASSUME NEW u \in Workers PROVE UpdatesOK(u)'
    BY OthersUpdates DEF SerialInv
  <1> QED
    BY <1>2, <1>3, <1>4, <1>5, <1>6 DEF SerialInv

IdsSame == currentOrder' = currentOrder /\ commitId' = commitId

LEMMA IdsStay ==
    ASSUME SerialInv, IdsSame, \A u \in Workers : pc'[u] = "done" => pc[u] = "done"
    PROVE  CommitCount' = CommitCount /\ \A u \in Workers : IdsOK(u)'
  BY DEF SerialInv, IdsSame, IdsOK, CommitCount

\* A step by which t only comes to another place.
LEMMA MoveIsInvisible ==
    ASSUME SerialInv, LockInv', NEW t \in Workers,
           UNCHANGED <<db, records, stage, pick, undo, clog>>,
           \A u \in Workers : u # t => pc'[u] = pc[u] /\ adj'[u] = adj[u],
           Active(t)' <=> Active(t),
           pc'[t] # "rollback" =>
             pc[t] # "rollback" /\ (pc'[t] \in {"finish", "commit"} <=> pc[t] \in {"finish", "commit"}),
           CommitCount' = CommitCount, \A u \in Workers : IdsOK(u)'
    PROVE  SerialInv' /\ Committed' = Committed /\ History' = History
  <1>1. \A u \in Workers : u # t => SameWorker(u) /\ undo'[u] = undo[u]
    BY DEF SameWorker
  <1>2. UpdatesOK(t)'
    <2>1. UpdatesOK(t) /\ rj(t)' = rj(t) /\ rk(t)' = rk(t)
      BY DEF SerialInv, rj, rk, ri
    <2> QED
      BY <2>1 DEF UpdatesOK
  <1>3. PICK c : c = Committed
    OBVIOUS
  <1>4. Reverted(c)'
    <2>1. Reverted(c)
      BY <1>3, CommittedIs DEF SerialInv
    <2>2. \A u \in Workers, n \in Stage : Dirty(u, n)' <=> Dirty(u, n)
      BY DEF Dirty, Active
    <2> QED
      BY <2>1, <2>2, RevertedStays
  <1> QED
    BY <1>1, <1>2, <1>3, <1>4, StepIsInvisible

\* The steps of a worker that wait, get or are refused a lock, and those around
\* the critical section of a commit.
LEMMA WaitingIsInvisible ==
    ASSUME SerialInv, LockInv', NEW t \in Workers,
           \/ EnterRequest(t) \/ LockGranted(t) \/ LockRefused(t) \/ LockWaits(t)
           \/ Relock(t) \/ PollPasses(t) \/ PollFails(t) \/ EnterCommit(t) \/ CountDeadlock(t)
    PROVE  SerialInv' /\ Committed' = Committed /\ History' = History
  <1>1. UNCHANGED <<db, records, stage, pick, undo, clog>> /\ IdsSame
    BY DEF EnterRequest, LockGranted, LockRefused, LockWaits, Relock, PollPasses, PollFails,
           EnterCommit, CountDeadlock, IdsSame, globalVars
  <1>2. \A u \in Workers : u # t => pc'[u] = pc[u]
    BY DEF EnterRequest, LockGranted, LockRefused, LockWaits, Relock, PollPasses, PollFails,
           EnterCommit, CountDeadlock, Goto, SerialInv, LockInv, TypeOK, WorkersTypeOK
  <1>3. \/ pc[t] \in {"enter", "request", "yield", "poll"}
           /\ pc'[t] \in {"request", "read", "yield", "poll", "rollback"}
        \/ pc[t] = "finish" /\ pc'[t] = "commit"
        \/ pc[t] = "deadlock" /\ pc'[t] = "begin"
    BY DEF EnterRequest, LockGranted, LockRefused, LockWaits, Relock, PollPasses, PollFails,
           EnterCommit, CountDeadlock, Goto, SerialInv, LockInv, TypeOK, WorkersTypeOK
  <1>4. \A u \in Workers : u # t => adj'[u] = adj[u]
    <2>1. CASE LockGranted(t) \/ LockRefused(t) \/ LockWaits(t)
      <3>1. pc[t] = "request"
        BY <2>1 DEF LockGranted, LockRefused, LockWaits
      <3>2. AskedFor(t, Target(t), WantsReadLock(t))
        BY <2>1, <3>1, TargetIsNew, GrantTable, AskTable
        DEF SerialInv, LockGranted, LockRefused, LockWaits, Refuse, StartWaiting
      <3> QED
        BY <3>2 DEF AskedFor
    <2>2. CASE PollPasses(t)
      BY <2>2 DEF PollPasses, Pass
    <2>3. CASE EnterRequest(t) \/ Relock(t) \/ PollFails(t) \/ EnterCommit(t) \/ CountDeadlock(t)
      BY <2>3 DEF EnterRequest, Relock, PollFails, EnterCommit, CountDeadlock, lockTableVars
    <2> QED
      BY <2>1, <2>2, <2>3
  <1>5. \A u \in Workers : pc'[u] = "done" => pc[u] = "done"
    BY <1>2, <1>3
  <1>6. CommitCount' = CommitCount /\ \A u \in Workers : IdsOK(u)'
    BY <1>1, <1>5, IdsStay
  <1>7. Active(t)' <=> Active(t)
    BY <1>3 DEF Active
  <1> QED
    BY <1>1, <1>2, <1>3, <1>4, <1>6, <1>7, MoveIsInvisible

LEMMA OverrunIsInvisible ==
    ASSUME SerialInv, LockInv', NEW t \in Workers, OverrunCommit(t)
    PROVE  SerialInv' /\ Committed' = Committed /\ History' = History
  <1>1. /\ UNCHANGED <<db, records, stage, pick, undo, clog, adj>>
        /\ currentOrder' = currentOrder + 1 /\ currentOrder + 1 > LastOrder
        /\ commitId' = [commitId EXCEPT ![t] = currentOrder + 1]
        /\ pc[t] = "commit" /\ pc'[t] = "rollback"
        /\ \A u \in Workers : u # t => pc'[u] = pc[u]
    BY DEF OverrunCommit, Goto, lockTableVars, SerialInv, LockInv, TypeOK, WorkersTypeOK
  <1>2. currentOrder \in Nat /\ LastOrder \in Nat
        /\ \A u \in Workers : commitId[u] \in Nat
    BY LastOrderAssumption DEF SerialInv, LockInv, TypeOK, WorkersTypeOK
  <1>3. CommitCount' = CommitCount
    BY <1>1, <1>2 DEF CommitCount
  <1>4. ASSUME NEW u \in Workers PROVE IdsOK(u)'
    <2>1. IdsOK(u)
      BY DEF SerialInv
    <2>2. commitId'[u] <= currentOrder + 1
      BY <1>1, <1>2, <2>1 DEF IdsOK, SerialInv, LockInv, TypeOK, WorkersTypeOK
    <2> QED
      BY <1>1, <1>2, <2>2 DEF IdsOK
  <1>5. Active(t)' <=> Active(t)
    BY <1>1 DEF Active
  <1> QED
    BY <1>1, <1>3, <1>4, <1>5, MoveIsInvisible

LEMMA BeginIsInvisible ==
    ASSUME SerialInv, LockInv', NEW t \in Workers, Begin(t)
    PROVE  SerialInv' /\ Committed' = Committed /\ History' = History
  <1>1. /\ UNCHANGED <<db, stage, undo, clog, adj>> /\ IdsSame
        /\ pc[t] = "begin" /\ pc'[t] = "enter" /\ records'[t] = <<>>
        /\ \A u \in Workers : u # t => /\ pc'[u] = pc[u] /\ records'[u] = records[u]
                                       /\ pick'[u] = pick[u]
    BY DEF Begin, Goto, lockTableVars, globalVars, IdsSame, SerialInv, LockInv, TypeOK, WorkersTypeOK
  <1>2. \A u \in Workers : u # t => SameWorker(u) /\ undo'[u] = undo[u]
    BY <1>1 DEF SameWorker
  <1>3. CommitCount' = CommitCount /\ \A u \in Workers : IdsOK(u)'
    BY <1>1, IdsStay
  <1>4. UpdatesOK(t)'
    BY <1>1 DEF UpdatesOK, SerialInv
  <1>5. PICK c : c = Committed
    OBVIOUS
  <1>6. Reverted(c)'
    <2>1. Reverted(c)
      BY <1>5, CommittedIs DEF SerialInv
    <2>2. ASSUME NEW n PROVE ~Dirty(t, n) /\ ~Dirty(t, n)'
      BY <1>1 DEF Dirty, Active
    <2> QED
      BY <1>1, <1>2, <2>1, <2>2, DirtyOthers, RevertedStays
  <1> QED
    BY <1>1, <1>2, <1>3, <1>4, <1>5, <1>6, StepIsInvisible

LEMMA ReadIsInvisible ==
    ASSUME SerialInv, LockInv', NEW t \in Workers, ReadRecord(t)
    PROVE  SerialInv' /\ Committed' = Committed /\ History' = History
  <1> DEFINE image == [index |-> Target(t), value |-> db[Target(t)], isUpdated |-> FALSE]
  <1>1. /\ UNCHANGED <<db, undo, clog, adj, pick>> /\ IdsSame
        /\ pc[t] = "read"
        /\ \/ pc'[t] = "enter" /\ stage[t] = 1 /\ stage'[t] = 2
           \/ pc'[t] = "update" /\ stage[t] # 1 /\ stage'[t] = stage[t]
        /\ records'[t] = Append(records[t], image)
        /\ \A u \in Workers : u # t => /\ pc'[u] = pc[u] /\ records'[u] = records[u]
                                       /\ stage'[u] = stage[u]
    BY DEF ReadRecord, Goto, lockTableVars, globalVars, IdsSame, SerialInv, LockInv, TypeOK, WorkersTypeOK
  <1> HIDE DEF image
  <1>2. \A u \in Workers : u # t => SameWorker(u) /\ undo'[u] = undo[u]
    BY <1>1 DEF SameWorker
  <1>3. CommitCount' = CommitCount /\ \A u \in Workers : IdsOK(u)'
    BY <1>1, IdsStay
  <1>4. /\ stage[t] \in {1, 2, 3} /\ Len(records[t]) = stage[t] - 1 /\ Active(t) /\ Active(t)'
        /\ records[t] \in Seq(BeforeImage) /\ undo[t] \in Nat /\ DOMAIN records[t] = 1 .. stage[t] - 1
    <2>1. TypeOK /\ Progress(t) /\ stage[t] \in {1, 2, 3}
      BY WorkerType DEF SerialInv, LockInv, ProgressInv
    <2>2. Active(t) /\ Active(t)' /\ Len(records[t]) = stage[t] - 1
      BY <1>1, <2>1 DEF Progress, Active
    <2>3. undo[t] \in Nat
      BY <2>1 DEF TypeOK, WorkersTypeOK
    <2> QED
      BY <2>1, <2>2, <2>3, WorkerType
  <1>5. /\ DOMAIN records'[t] = 1 .. stage[t]
        /\ \A n \in 1 .. stage[t] - 1 : records'[t][n] = records[t][n]
        /\ ~records'[t][stage[t]].isUpdated
    <2>1. records'[t][stage[t]] = image
      BY <1>1, <1>4
    <2>2. ~records'[t][stage[t]].isUpdated
      BY <2>1 DEF image
    <2> QED
      BY <1>1, <1>4, <2>2
  <1>6. \A n : Dirty(t, n)' <=> Dirty(t, n)
    BY <1>4, <1>5 DEF Dirty
  <1>7. UpdatesOK(t)'
    <2>1. UpdatesOK(t) /\ undo[t] = 1
      BY <1>1 DEF SerialInv, UpdatesOK
    <2>2. undo'[t] = 1
      BY <1>1, <2>1
    <2>3. ASSUME NEW n \in DOMAIN records'[t]
          PROVE  records'[t][n].isUpdated <=>
                   n # 1 /\ (n < stage'[t] \/ pc'[t] \in {"finish", "commit"})
      <3>1. CASE n = stage[t]
        BY <1>1, <1>4, <1>5, <3>1
      <3>2. CASE n # stage[t]
        <4>1. n \in 1 .. stage[t] - 1
          BY <1>4, <1>5, <3>2
        <4>2. records'[t][n].isUpdated <=> n # 1
          BY <1>1, <1>4, <1>5, <2>1, <4>1 DEF UpdatesOK
        <4> QED
          BY <1>1, <1>4, <4>1, <4>2
      <3> QED
        BY <3>1, <3>2
    <2>4. ASSUME NEW n \in DOMAIN records'[t], records'[t][n].isUpdated
          PROVE  db'[records'[t][n].index] = IF n = 2 THEN rj(t)' ELSE rk(t)'
      <3>1. n \in 1 .. stage[t] - 1 /\ n # 1
        BY <1>1, <1>4, <1>5, <2>3, <2>4
      <3>2. n = 2 /\ stage[t] = 3
        BY <1>4, <3>1
      <3>3. db[records[t][n].index] = rj(t)
        BY <1>4, <1>5, <2>1, <2>4, <3>1, <3>2 DEF UpdatesOK
      <3>4. rj(t)' = rj(t)
        BY <1>5, <3>2 DEF rj, ri
      <3> QED
        BY <1>1, <1>5, <3>1, <3>2, <3>3, <3>4
    <2>5. ASSUME NEW n \in DOMAIN records'[t] PROVE ~ (n < undo'[t])
      BY <1>4, <1>5, <2>2
    <2> QED
      BY <2>2, <2>3, <2>4, <2>5 DEF UpdatesOK
  <1>8. PICK c : c = Committed
    OBVIOUS
  <1>9. Reverted(c)'
    <2>1. Reverted(c)
      BY <1>8, CommittedIs DEF SerialInv
    <2>2. ASSUME NEW n, Dirty(t, n)
          PROVE  records'[t][n].index = records[t][n].index
                 /\ records'[t][n].value = records[t][n].value
      BY <1>4, <1>5, <2>2 DEF Dirty
    <2> QED
      BY <1>1, <1>2, <1>6, <2>1, <2>2, DirtyOthers, RevertedStays
  <1> QED
    BY <1>1, <1>2, <1>3, <1>7, <1>8, <1>9, StepIsInvisible

\* The first write to a record: Committed now has its old value from the image.
LEMMA UpdateIsInvisible ==
    ASSUME SerialInv, LockInv', NEW t \in Workers, UpdateRecord(t)
    PROVE  SerialInv' /\ Committed' = Committed /\ History' = History
  <1> DEFINE s == stage[t]
             r == Target(t)
             image == [records[t][s] EXCEPT !.isUpdated = TRUE]
  <1>1. /\ UNCHANGED <<undo, clog, adj, pick>> /\ IdsSame
        /\ pc[t] = "update"
        /\ \/ pc'[t] = "enter" /\ s = 2 /\ stage'[t] = 3
           \/ pc'[t] = "finish" /\ s # 2 /\ stage'[t] = s
        /\ records'[t] = [records[t] EXCEPT ![s] = image]
        /\ db' = [db EXCEPT ![r] = NewValue(t)]
        /\ \A u \in Workers : u # t => /\ pc'[u] = pc[u] /\ records'[u] = records[u]
                                       /\ stage'[u] = stage[u]
    BY DEF UpdateRecord, Goto, lockTableVars, globalVars, IdsSame, SerialInv, LockInv, TypeOK, WorkersTypeOK
  <1>2. \A u \in Workers : u # t => SameWorker(u) /\ undo'[u] = undo[u]
    BY <1>1 DEF SameWorker
  <1>3. CommitCount' = CommitCount /\ \A u \in Workers : IdsOK(u)'
    BY <1>1, IdsStay
  <1>4. /\ Active(t) /\ Active(t)' /\ s \in {2, 3} /\ DOMAIN records[t] = 1 .. s
        /\ records[t] \in Seq(BeforeImage)
    <2>1. TypeOK /\ Progress(t) /\ s \in {1, 2, 3}
      BY WorkerType DEF SerialInv, LockInv, ProgressInv
    <2>2. Active(t) /\ Active(t)' /\ s # 1 /\ Len(records[t]) = s
      BY <1>1, <2>1 DEF Progress, Active
    <2> QED
      BY <2>1, <2>2, WorkerType
  <1>5. r = records[t][s].index /\ r \in Records /\ s \in DOMAIN records[t]
    <2>1. s \in DOMAIN records[t] /\ LockInv
      BY <1>4 DEF SerialInv
    <2>2. records[t][s].index = pick[t][s] /\ pick[t][s] \in Records
      BY <1>4, <2>1, ReadIsHeld
    <2> QED
      BY <2>1, <2>2 DEF Target
  <1>6. /\ DOMAIN records'[t] = 1 .. s
        /\ \A n \in 1 .. s : /\ records'[t][n].index = records[t][n].index
                             /\ records'[t][n].value = records[t][n].value
                             /\ n # s => records'[t][n] = records[t][n]
        /\ records'[t][s].isUpdated
    <2>1. records[t][s] \in BeforeImage
      BY <1>4
    <2>2. image.index = records[t][s].index /\ image.value = records[t][s].value /\ image.isUpdated
      BY <2>1 DEF BeforeImage
    <2>3. records'[t][s] = image /\ \A n \in 1 .. s : n # s => records'[t][n] = records[t][n]
      BY <1>1, <1>4
    <2> QED
      BY <1>1, <1>4, <2>2, <2>3
  <1> HIDE DEF image, r
  <1>7. /\ db'[r] = NewValue(t) /\ \A x \in Records : x # r => db'[x] = db[x]
    BY <1>1, <1>5 DEF SerialInv, LockInv, TypeOK, WorkersTypeOK
  <1>8. UpdatesOK(t) /\ undo[t] = 1 /\ undo'[t] = 1
    BY <1>1 DEF SerialInv, UpdatesOK
  <1>9. \A n \in 1 .. s : records[t][n].isUpdated <=> n # 1 /\ n < s
    BY <1>1, <1>4, <1>8 DEF UpdatesOK
  <1>10. \A n : Dirty(t, n)' <=> Dirty(t, n) \/ n = s
    BY <1>4, <1>6 DEF Dirty
  <1>11. ASSUME NEW u \in Workers, Active(u), NEW n \in DOMAIN records[u],
                records[u][n].index = r
         PROVE  u = t /\ n = s
    BY <1>4, <1>5, <1>11, ImagesApart DEF SerialInv
  <1>12. UpdatesOK(t)'
    <2>1. ri(t)' = ri(t) /\ rj(t)' = rj(t) /\ (s = 3 => rk(t)' = rk(t))
      BY <1>4, <1>6 DEF ri, rj, rk
    <2>2. ASSUME NEW n \in 1 .. s
          PROVE  /\ records'[t][n].isUpdated <=> n # 1
                 /\ n # 1 => db'[records'[t][n].index] = IF n = 2 THEN rj(t)' ELSE rk(t)'
      <3>1. CASE n = s
        <4>1. records'[t][n].isUpdated /\ n # 1 /\ records'[t][n].index = r
          BY <1>4, <1>5, <1>6, <3>1
        <4>2. NewValue(t) = IF n = 2 THEN rj(t)' ELSE rk(t)'
          BY <1>4, <2>1, <3>1 DEF NewValue
        <4> QED
          BY <1>7, <4>1, <4>2
      <3>2. CASE n # s
        <4>1. n < s /\ records'[t][n] = records[t][n] /\ (records[t][n].isUpdated <=> n # 1)
          BY <1>4, <1>6, <1>9, <3>2
        <4>2. CASE n = 1
          BY <4>1, <4>2
        <4>3. CASE n # 1
          <5>1. n = 2 /\ s = 3
            BY <1>4, <4>1, <4>3
          <5>2. db[records[t][n].index] = rj(t)
            BY <1>4, <1>8, <4>1, <4>3, <5>1 DEF UpdatesOK
          <5>3. records[t][n].index \in Records /\ records[t][n].index # r
            BY <1>4, <1>11, <3>2, ReadIsHeld DEF SerialInv
          <5> QED
            BY <1>7, <2>1, <4>1, <5>1, <5>2, <5>3
        <4> QED
          BY <4>2, <4>3
      <3> QED
        BY <3>1, <3>2
    <2>3. \A n \in 1 .. s : n # 1 <=> n # 1 /\ (n < stage'[t] \/ pc'[t] \in {"finish", "commit"})
      BY <1>1, <1>4
    <2>4. \A n \in 1 .. s : ~ (n < undo'[t])
      BY <1>4, <1>8
    <2> QED
      BY <1>6, <1>8, <2>2, <2>3, <2>4 DEF UpdatesOK
  <1>13. PICK c : c = Committed
    OBVIOUS
  <1>14. Reverted(c)'
    <2>1. Reverted(c) /\ c[r] = records[t][s].value
      BY <1>4, <1>5, <1>13, CommittedIs, ImageIsCommitted DEF SerialInv
    <2>2. ASSUME NEW u \in Workers, NEW n \in Stage, Dirty(u, n)'
          PROVE  c[records'[u][n].index] = records'[u][n].value
      <3>1. CASE u = t /\ n = s
        BY <1>4, <1>5, <1>6, <2>1, <3>1
      <3>2. CASE ~ (u = t /\ n = s)
        <4>1. Dirty(u, n)
          BY <1>2, <1>10, <2>2, <3>2, DirtyOthers
        <4>2. records'[u][n].index = records[u][n].index /\ records'[u][n].value = records[u][n].value
          BY <1>2, <1>4, <1>6, <4>1, DirtyOthers DEF Dirty
        <4> QED
          BY <2>1, <4>1, <4>2 DEF Reverted
      <3> QED
        BY <3>1, <3>2
    <2>3. ASSUME NEW x \in Records,
                 \A u \in Workers, n \in Stage : Dirty(u, n)' => records'[u][n].index # x
          PROVE  c[x] = db'[x]
      <3>1. x # r
        BY <1>4, <1>5, <1>6, <1>10, <2>3 DEF Stage
      <3>2. ASSUME NEW u \in Workers, NEW n \in Stage, Dirty(u, n) PROVE records[u][n].index # x
        <4>1. Dirty(u, n)' /\ records'[u][n].index = records[u][n].index
          BY <1>2, <1>4, <1>6, <1>10, <3>2, DirtyOthers DEF Dirty
        <4> QED
          BY <2>3, <4>1
      <3> QED
        BY <1>7, <2>1, <3>1, <3>2 DEF Reverted
    <2> QED
      BY <2>2, <2>3 DEF Reverted
  <1>15. ASSUME NEW u \in Workers, u # t, Active(u), NEW n \in DOMAIN records[u]
         PROVE  db'[records[u][n].index] = db[records[u][n].index]
    <2>1. records[u][n].index \in Records
      BY <1>15, ReadIsHeld DEF SerialInv
    <2> QED
      BY <1>7, <1>11, <1>15, <2>1
  <1> QED
    BY <1>1, <1>2, <1>3, <1>12, <1>13, <1>14, <1>15, StepIsInvisible

\* One record is restored; Committed had its old value already.
LEMMA UndoIsInvisible ==
    ASSUME SerialInv, LockInv', NEW t \in Workers, UndoUpdate(t)
    PROVE  SerialInv' /\ Committed' = Committed /\ History' = History
  <1> DEFINE n == undo[t]
             image == records[t][n]
  <1>1. /\ pc[t] = "rollback" /\ n <= Len(records[t])
        /\ IF image.isUpdated THEN db' = [db EXCEPT ![image.index] = image.value]
                              ELSE db' = db
        /\ \A u \in Workers : u # t => undo'[u] = undo[u]
        /\ undo'[t] = n + 1
        /\ UNCHANGED <<pc, stage, pick, records, adj, clog>> /\ IdsSame
    BY DEF UndoUpdate, lockTableVars, globalVars, IdsSame, SerialInv, LockInv, TypeOK, WorkersTypeOK
  <1>2. Active(t) /\ Active(t)' /\ n \in Nat \ {0} /\ n \in DOMAIN records[t]
        /\ DOMAIN records[t] \subseteq Nat
    <2>1. TypeOK
      BY DEF SerialInv, LockInv
    <2>2. n \in Nat \ {0}
      BY <2>1 DEF TypeOK, WorkersTypeOK
    <2> QED
      BY <1>1, <2>1, <2>2, WorkerType DEF Active
  <1>3. image.index \in Records /\ n \in Stage
    BY <1>2, ReadIsHeld DEF SerialInv
  <1>4. image.isUpdated => Dirty(t, n)
    BY <1>2 DEF Dirty
  <1> HIDE DEF image, n
  <1>5. /\ image.isUpdated => db'[image.index] = image.value
        /\ \A x \in Records : ~image.isUpdated \/ x # image.index => db'[x] = db[x]
    BY <1>1, <1>3 DEF SerialInv, LockInv, TypeOK, WorkersTypeOK
  <1>6. \A u \in Workers : SameWorker(u)
    BY <1>1 DEF SameWorker
  <1>7. CommitCount' = CommitCount /\ \A u \in Workers : IdsOK(u)'
    BY <1>1, IdsStay
  <1>8. ASSUME NEW u \in Workers, Active(u), NEW m \in DOMAIN records[u],
               image.isUpdated, records[u][m].index = image.index
        PROVE  u = t /\ m = n
    BY <1>2, <1>4, <1>8, DirtyFacts, ImagesApart DEF SerialInv, image
  <1>9. UpdatesOK(t)'
    <2>1. UpdatesOK(t) /\ rj(t)' = rj(t) /\ rk(t)' = rk(t)
      BY <1>1 DEF SerialInv, ri, rj, rk
    <2>2. ASSUME NEW m \in DOMAIN records[t], records[t][m].isUpdated
          PROVE  db'[records[t][m].index] = IF m < n + 1 THEN records[t][m].value
                                            ELSE IF m = 2 THEN rj(t) ELSE rk(t)
      <3>1. CASE m = n
        BY <1>2, <1>5, <2>2, <3>1 DEF image
      <3>2. CASE m # n
        <4>1. db[records[t][m].index] = IF m < n THEN records[t][m].value
                                        ELSE IF m = 2 THEN rj(t) ELSE rk(t)
          BY <1>2, <2>1, <2>2 DEF UpdatesOK, n
        <4>2. db'[records[t][m].index] = db[records[t][m].index]
          <5>1. records[t][m].index \in Records
            BY <1>2, ReadIsHeld DEF SerialInv
          <5> QED
            BY <1>2, <1>5, <1>8, <3>2, <5>1
        <4>3. m < n + 1 <=> m < n
          BY <1>2, <3>2
        <4> QED
          BY <4>1, <4>2, <4>3
      <3> QED
        BY <3>1, <3>2
    <2> QED
      BY <1>1, <2>1, <2>2 DEF UpdatesOK
  <1>10. PICK c : c = Committed
    OBVIOUS
  <1>11. Reverted(c)'
    <2>1. Reverted(c)
      BY <1>10, CommittedIs DEF SerialInv
    <2>2. \A u \in Workers, m \in Stage : Dirty(u, m)' <=> Dirty(u, m)
      BY <1>6, DirtyOthers
    <2>3. \A u \in Workers, m \in Stage : records'[u][m].index = records[u][m].index
                                          /\ records'[u][m].value = records[u][m].value
      BY <1>6, DirtyOthers
    <2>4. ASSUME NEW r \in Records,
                 \A u \in Workers, m \in Stage : Dirty(u, m) => records[u][m].index # r
          PROVE  db'[r] = db[r]
      BY <1>3, <1>4, <1>5, <2>4 DEF image
    <2> QED
      BY <2>1, <2>2, <2>3, <2>4, RevertedStays
  <1>12. ASSUME NEW u \in Workers, u # t, Active(u), NEW m \in DOMAIN records[u]
         PROVE  db'[records[u][m].index] = db[records[u][m].index]
    <2>1. records[u][m].index \in Records
      BY <1>12, ReadIsHeld DEF SerialInv
    <2> QED
      BY <1>5, <1>8, <1>12, <2>1
  <1> QED
    BY <1>1, <1>6, <1>7, <1>9, <1>10, <1>11, <1>12, StepIsInvisible

\* workTransaction returns.
LEMMA Returns ==
    ASSUME SerialInv, NEW t \in Workers, NEW place \in {"begin", "deadlock", "done"},
           Active(t), UnlockAll(t), Return(t, place), UNCHANGED <<db, records>>
    PROVE  /\ \A u \in Workers : u # t => SameWorker(u) /\ undo'[u] = undo[u]
           /\ pc'[t] = place /\ commitId'[t] = 0
           /\ \A u \in Workers : u # t => pc'[u] = pc[u] /\ commitId'[u] = commitId[u]
           /\ UpdatesOK(t)'
           /\ \A n : ~Dirty(t, n)'
  <1>1. \A u \in Workers : u # t => adj'[u] = adj[u]
    BY UnlockAllTable DEF SerialInv, LockInv, TypeOK, TableInv
  <1>2. /\ pc'[t] = place /\ commitId'[t] = 0 /\ undo'[t] = 1
        /\ \A u \in Workers : u # t => /\ pc'[u] = pc[u] /\ commitId'[u] = commitId[u]
                                       /\ stage'[u] = stage[u] /\ pick'[u] = pick[u]
                                       /\ undo'[u] = undo[u]
    BY DEF Return, Goto, SerialInv, LockInv, TypeOK, WorkersTypeOK
  <1>3. \A u \in Workers : u # t => SameWorker(u)
    BY <1>1, <1>2 DEF SameWorker
  <1>4. ~Active(t)'
    BY <1>2 DEF Active
  <1> QED
    BY <1>2, <1>3, <1>4 DEF UpdatesOK, Dirty

\* All records are restored: the database holds what Committed had for them.
LEMMA RollbackIsInvisible ==
    ASSUME SerialInv, LockInv', NEW t \in Workers, EndRollback(t)
    PROVE  SerialInv' /\ Committed' = Committed /\ History' = History
  <1> DEFINE place == IF commitId[t] > LastOrder THEN "done" ELSE "deadlock"
  <1>1. /\ pc[t] = "rollback" /\ undo[t] > Len(records[t])
        /\ UnlockAll(t) /\ Return(t, place) /\ UNCHANGED <<db, records, clog, currentOrder>>
        /\ place \in {"begin", "deadlock", "done"}
        /\ place = "done" => commitId[t] > LastOrder
    BY DEF EndRollback
  <1> HIDE DEF place
  <1>2. Active(t)
    BY <1>1 DEF Active
  <1>3. /\ \A u \in Workers : u # t => SameWorker(u) /\ undo'[u] = undo[u]
        /\ pc'[t] = place /\ commitId'[t] = 0
        /\ \A u \in Workers : u # t => pc'[u] = pc[u] /\ commitId'[u] = commitId[u]
        /\ UpdatesOK(t)'
        /\ \A n : ~Dirty(t, n)'
    BY <1>1, <1>2, Returns
  <1>4. CommitCount' = CommitCount
    BY <1>1 DEF CommitCount
  <1>5. ASSUME NEW u \in Workers PROVE IdsOK(u)'
    <2>1. /\ IdsOK(u) /\ IdsOK(t) /\ currentOrder \in Nat /\ LastOrder \in Nat
          /\ commitId[t] \in Nat
      BY LastOrderAssumption DEF SerialInv, LockInv, TypeOK, WorkersTypeOK
    <2>2. CASE u = t
      BY <1>1, <1>3, <2>1, <2>2 DEF IdsOK
    <2>3. CASE u # t
      BY <1>1, <1>3, <2>1, <2>3 DEF IdsOK
    <2> QED
      BY <2>2, <2>3
  <1>6. PICK c : c = Committed
    OBVIOUS
  <1>7. Reverted(c)'
    <2>1. Reverted(c)
      BY <1>6, CommittedIs DEF SerialInv
    <2>2. ASSUME NEW u \in Workers, NEW n \in Stage, Dirty(u, n)'
          PROVE  c[records'[u][n].index] = records'[u][n].value
      BY <1>1, <1>3, <2>1, <2>2, DirtyOthers DEF Reverted
    <2>3. ASSUME NEW r \in Records,
                 \A u \in Workers, n \in Stage : Dirty(u, n)' => records'[u][n].index # r
          PROVE  c[r] = db'[r]
      <3>1. CASE \E n \in Stage : Dirty(t, n) /\ records[t][n].index = r
        <4>1. PICK n \in Stage : Dirty(t, n) /\ records[t][n].index = r
          BY <3>1
        <4>2. n < undo[t]
          <5>1. n \in 1 .. Len(records[t]) /\ Len(records[t]) \in Nat
            BY <4>1, WorkerType DEF Dirty, SerialInv, LockInv
          <5>2. undo[t] \in Nat
            BY DEF SerialInv, LockInv, TypeOK, WorkersTypeOK
          <5> QED
            BY <1>1, <5>1, <5>2
        <4>3. db[r] = records[t][n].value
          BY <4>1, <4>2 DEF SerialInv, UpdatesOK, Dirty
        <4> QED
          BY <1>1, <2>1, <4>1, <4>3 DEF Reverted
      <3>2. CASE \A n \in Stage : Dirty(t, n) => records[t][n].index # r
        <4>1. ASSUME NEW u \in Workers, NEW n \in Stage, Dirty(u, n)
              PROVE  records[u][n].index # r
          BY <1>1, <1>3, <2>3, <3>2, <4>1, DirtyOthers
        <4> QED
          BY <1>1, <2>1, <4>1 DEF Reverted
      <3> QED
        BY <3>1, <3>2
    <2> QED
      BY <2>2, <2>3 DEF Reverted
  <1> QED
    BY <1>1, <1>3, <1>4, <1>5, <1>6, <1>7, StepIsInvisible

\* A transaction before its commit: what it logs and what it has stored are the
\* values that its arithmetic yields from the committed ones.
LEMMA AtCommit ==
    ASSUME SerialInv, NEW t \in Workers, pc[t] = "commit",
           NEW i, i = pick[t][1], NEW j, j = pick[t][2], NEW k, k = pick[t][3]
    PROVE  /\ Active(t)
           /\ i \in Records /\ j \in Records /\ k \in Records /\ i # j /\ j # k /\ k # i
           /\ ri(t) = Committed[i] /\ rj(t) = NewJ(Committed[i], Committed[j])
           /\ rk(t) = NewK(Committed[i], Committed[k])
           /\ db[j] = rj(t) /\ db[k] = rk(t)
           /\ \A n : Dirty(t, n) <=> n \in {2, 3}
           /\ records[t][2].index = j /\ records[t][3].index = k
           /\ ri(t) \in RecordValue /\ rj(t) \in RecordValue /\ rk(t) \in RecordValue
  <1>1. Active(t) /\ TypeOK /\ LockInv /\ UpdatesOK(t) /\ undo[t] = 1
    BY DEF SerialInv, LockInv, Active, UpdatesOK
  <1>2. DOMAIN records[t] = 1 .. 3 /\ records[t] \in Seq(BeforeImage)
    <2>1. stage[t] = 3 /\ Len(records[t]) = stage[t]
      BY <1>1 DEF LockInv, ProgressInv, Progress
    <2> QED
      BY <1>1, <2>1, WorkerType
  <1>3. /\ 1 \in DOMAIN records[t] /\ 2 \in DOMAIN records[t] /\ 3 \in DOMAIN records[t]
        /\ \A n \in DOMAIN records[t] : n \in {1, 2, 3} /\ ~ (n < 1)
    BY <1>2
  <1>4. /\ records[t][1].index = i /\ records[t][2].index = j /\ records[t][3].index = k
        /\ i \in Records /\ j \in Records /\ k \in Records
    BY <1>1, <1>3, ReadIsHeld
  <1>5. i # j /\ j # k /\ k # i
    <2>1. pick[t] \in Picks
      BY <1>1 DEF LockInv, ProgressInv, Progress
    <2> QED
      BY <2>1 DEF Picks
  <1>6. /\ records[t][1].value = Committed[i] /\ records[t][2].value = Committed[j]
        /\ records[t][3].value = Committed[k]
    BY <1>1, <1>3, <1>4, ImageIsCommitted
  <1>7. ri(t) = Committed[i] /\ rj(t) = NewJ(Committed[i], Committed[j])
        /\ rk(t) = NewK(Committed[i], Committed[k])
    BY <1>6 DEF ri, rj, rk
  <1>8. Committed[i] \in RecordValue /\ Committed[j] \in RecordValue /\ Committed[k] \in RecordValue
    BY <1>1, <1>4, CommittedIs
  <1>9. ri(t) \in RecordValue /\ rj(t) \in RecordValue /\ rk(t) \in RecordValue
    <2>1. \A v, w \in RecordValue : NewJ(v, w) \in RecordValue /\ NewK(v, w) \in RecordValue
      BY NewType
    <2> QED
      BY <1>7, <1>8, <2>1
  <1>10. \A n \in DOMAIN records[t] : records[t][n].isUpdated <=> n # 1
    BY <1>1, <1>3 DEF UpdatesOK
  <1>11. \A n : Dirty(t, n) <=> n \in {2, 3}
    BY <1>1, <1>3, <1>10 DEF Dirty
  <1>12. db[j] = rj(t) /\ db[k] = rk(t)
    <2>1. records[t][2].isUpdated /\ records[t][3].isUpdated
      BY <1>3, <1>10
    <2> QED
      BY <1>1, <1>3, <1>4, <2>1 DEF UpdatesOK
  <1> QED
    BY <1>1, <1>4, <1>5, <1>7, <1>9, <1>11, <1>12

\* The log before and after a commit.
LEMMA LogGrows ==
    ASSUME SerialInv, NEW t \in Workers, NEW log \in LogEntry,
           currentOrder + 1 <= LastOrder, currentOrder' = currentOrder + 1,
           log.commitId = currentOrder + 1,
           clog' = [clog EXCEPT ![t] = Append(clog[t], log)]
    PROVE  /\ CommitCount \in Nat /\ CommitCount = currentOrder /\ CommitCount' = CommitCount + 1
           /\ CommitCount + 1 <= LastOrder
           /\ LogsInv'
           /\ LogAt(clog', CommitCount + 1) = log
           /\ \A n \in 1 .. CommitCount : LogAt(clog', n) = LogAt(clog, n)
  <1>1. CommitCount \in Nat /\ CommitCount = currentOrder /\ CommitCount' = CommitCount + 1
        /\ CommitCount + 1 <= LastOrder
    BY LastOrderAssumption DEF SerialInv, LockInv, TypeOK, WorkersTypeOK, CommitCount
  <1> DEFINE N == CommitCount
  <1>2. clog \in [Workers -> Seq(LogEntry)]
    BY DEF SerialInv, LockInv, TypeOK, WorkersTypeOK
  <1>3. PICK g, line : g = clog' /\ line = <<t, Len(clog[t]) + 1>>
    OBVIOUS
  <1>4. /\ line \notin Lines(clog)
        /\ Lines(g) = Lines(clog) \union {line}
        /\ \A l \in Lines(clog) : g[l[1]][l[2]] = clog[l[1]][l[2]]
        /\ g[line[1]][line[2]] = log
        /\ LogsOf(g) = LogsOf(clog) \union {log}
    <2>1. Appended(clog, g, t, log, line)
      BY <1>2, <1>3 DEF Appended
    <2> QED
      BY <2>1, LineAdded
  <1>5. /\ {x.commitId : x \in LogsOf(clog)} = 1 .. N
        /\ \A l, m \in Lines(clog) :
             clog[l[1]][l[2]].commitId = clog[m[1]][m[2]].commitId => l = m
    BY DEF SerialInv, LogsInv
  <1>6. log.commitId = N + 1 /\ N + 1 \notin 1 .. N /\ 1 .. N + 1 = (1 .. N) \union {N + 1}
        /\ N \in Nat
    BY <1>1
  <1> HIDE DEF N
  <1>7. {x.commitId : x \in LogsOf(g)} = 1 .. N + 1
    BY <1>4, <1>5, <1>6
  <1>8. ASSUME NEW l \in Lines(clog)
        PROVE  clog[l[1]][l[2]].commitId \in 1 .. N
    <2>1. PICK u \in DOMAIN clog : \E n \in DOMAIN clog[u] : l = <<u, n>>
      BY DEF Lines
    <2>2. PICK n \in DOMAIN clog[u] : l = <<u, n>>
      BY <2>1
    <2>3. clog[l[1]][l[2]] \in LogsOf(clog)
      BY <2>2 DEF LogsOf
    <2> QED
      BY <1>5, <2>3
  <1>9. ASSUME NEW l \in Lines(g), NEW m \in Lines(g),
               g[l[1]][l[2]].commitId = g[m[1]][m[2]].commitId
        PROVE  l = m
    <2>1. CASE l \in Lines(clog) /\ m \in Lines(clog)
      BY <1>4, <1>5, <1>9, <2>1
    <2>2. CASE l \in Lines(clog) /\ m = line
      BY <1>4, <1>6, <1>8, <1>9, <2>2
    <2>3. CASE m \in Lines(clog) /\ l = line
      BY <1>4, <1>6, <1>8, <1>9, <2>3
    <2> QED
      BY <1>4, <2>1, <2>2, <2>3
  <1>10. \A l, m \in Lines(g) : g[l[1]][l[2]].commitId = g[m[1]][m[2]].commitId => l = m
    BY <1>9
  <1>11. LogsInv'
    <2>1. CommitCount' = N + 1
      BY <1>1 DEF N
    <2>2. /\ {x.commitId : x \in LogsOf(clog')} = 1 .. N + 1
          /\ \A l, m \in Lines(clog') :
               clog'[l[1]][l[2]].commitId = clog'[m[1]][m[2]].commitId => l = m
      <3>1. {x.commitId : x \in LogsOf(clog')} = 1 .. N + 1
        BY <1>3, <1>7
      <3>2. \A l, m \in Lines(clog') :
              clog'[l[1]][l[2]].commitId = clog'[m[1]][m[2]].commitId => l = m
        BY <1>3, <1>10
      <3> QED
        BY <3>1, <3>2
    <2> QED
      BY <2>1, <2>2 DEF LogsInv
  <1>12. LogAt(g, N + 1) = log
    <2>1. N + 1 \in 1 .. N + 1
      BY <1>6
    <2>2. \A x \in LogsOf(g) : x.commitId = N + 1 => x = LogAt(g, N + 1)
      BY <1>7, <1>10, <2>1, LogAtFacts
    <2> QED
      BY <1>4, <1>6, <2>2
  <1>13. ASSUME NEW n \in 1 .. N PROVE LogAt(g, n) = LogAt(clog, n)
    <2>1. LogAt(clog, n) \in LogsOf(clog) /\ LogAt(clog, n).commitId = n
      BY <1>5, LogAtFacts
    <2>2. n \in 1 .. N + 1
      BY <1>6
    <2>3. \A x \in LogsOf(g) : x.commitId = n => x = LogAt(g, n)
      BY <1>7, <1>10, <2>2, LogAtFacts
    <2> QED
      BY <1>4, <2>1, <2>3
  <1> QED
    BY <1>1, <1>3, <1>11, <1>12, <1>13 DEF N

\* A commit is one transaction of the serial database.
LEMMA CommitIsSerial ==
    ASSUME SerialInv, LockInv', NEW t \in Workers, Commit(t)
    PROVE  SerialInv' /\ Serial!SerialNext
  <1>1. PICK i, j, k, c, d :
          /\ i = pick[t][1] /\ j = pick[t][2] /\ k = pick[t][3] /\ c = Committed
          /\ d = [c EXCEPT ![j] = NewJ(c[i], c[j]), ![k] = NewK(c[i], c[k])]
    OBVIOUS
  <1>2. PICK log : log = [commitId |-> currentOrder + 1, i |-> i, j |-> j, k |-> k,
                          vi |-> ri(t), vj |-> rj(t), vk |-> rk(t)]
    OBVIOUS
  <1>3. /\ pc[t] = "commit" /\ currentOrder + 1 <= LastOrder
        /\ currentOrder' = currentOrder + 1
        /\ UnlockAll(t) /\ Return(t, "begin") /\ UNCHANGED <<db, records>>
        /\ clog' = [clog EXCEPT ![t] = Append(clog[t], log)]
    <2>1. clog \in [Workers -> Seq(LogEntry)]
      BY DEF SerialInv, LockInv, TypeOK, WorkersTypeOK
    <2> QED
      BY <1>1, <1>2, <2>1 DEF Commit
  <1>4. /\ Active(t)
        /\ i \in Records /\ j \in Records /\ k \in Records /\ i # j /\ j # k /\ k # i
        /\ ri(t) = c[i] /\ rj(t) = NewJ(c[i], c[j]) /\ rk(t) = NewK(c[i], c[k])
        /\ db[j] = rj(t) /\ db[k] = rk(t)
        /\ \A n : Dirty(t, n) <=> n \in {2, 3}
        /\ records[t][2].index = j /\ records[t][3].index = k
        /\ ri(t) \in RecordValue /\ rj(t) \in RecordValue /\ rk(t) \in RecordValue
    BY <1>1, <1>3, AtCommit
  <1>5. c \in [Records -> RecordValue] /\ Reverted(c)
    BY <1>1, CommittedIs DEF SerialInv
  <1>6. /\ d \in [Records -> RecordValue]
        /\ d[j] = rj(t) /\ d[k] = rk(t)
        /\ \A r \in Records : r # j /\ r # k => d[r] = c[r]
    BY <1>1, <1>4, <1>5
  <1>7. /\ \A u \in Workers : u # t => SameWorker(u) /\ undo'[u] = undo[u]
        /\ pc'[t] = "begin" /\ commitId'[t] = 0
        /\ \A u \in Workers : u # t => pc'[u] = pc[u] /\ commitId'[u] = commitId[u]
        /\ UpdatesOK(t)'
        /\ \A n : ~Dirty(t, n)'
    BY <1>3, <1>4, Returns
  <1>8. ASSUME NEW u \in Workers, NEW n, u # t, Dirty(u, n)
        PROVE  records[u][n].index # j /\ records[u][n].index # k
    <2>1. /\ n # 1 /\ n \in DOMAIN records[u] /\ Active(u) /\ LockInv
      BY <1>8, DirtyFacts DEF SerialInv
    <2>2. 2 \in DOMAIN records[t] /\ 3 \in DOMAIN records[t]
      BY <1>4 DEF Dirty
    <2> QED
      BY <1>4, <1>8, <2>1, <2>2, ImagesApart
  <1>9. Reverted(d)'
    <2>1. ASSUME NEW u \in Workers, NEW n \in Stage, Dirty(u, n)'
          PROVE  d[records'[u][n].index] = records'[u][n].value
      <3>1. u # t
        BY <1>7, <2>1
      <3>2. Dirty(u, n)
        BY <1>7, <2>1, <3>1, DirtyOthers
      <3>3. records[u][n].index \in Records
        BY <3>2, DirtyFacts DEF SerialInv
      <3>4. c[records[u][n].index] = records[u][n].value
        BY <1>5, <3>2 DEF Reverted
      <3> QED
        BY <1>3, <1>6, <1>8, <3>1, <3>2, <3>3, <3>4
    <2>2. ASSUME NEW r \in Records,
                 \A u \in Workers, n \in Stage : Dirty(u, n)' => records'[u][n].index # r
          PROVE  d[r] = db'[r]
      <3>1. CASE r = j
        BY <1>3, <1>4, <1>6, <3>1
      <3>2. CASE r = k
        BY <1>3, <1>4, <1>6, <3>2
      <3>3. CASE r # j /\ r # k
        <4>1. ASSUME NEW u \in Workers, NEW n \in Stage, Dirty(u, n)
              PROVE  records[u][n].index # r
          <5>1. CASE u = t
            BY <1>4, <3>3, <4>1, <5>1
          <5>2. CASE u # t
            BY <1>3, <1>7, <2>2, <4>1, <5>2, DirtyOthers
          <5> QED
            BY <5>1, <5>2
        <4>2. c[r] = db[r]
          BY <1>5, <4>1 DEF Reverted
        <4> QED
          BY <1>3, <1>6, <3>3, <4>2
      <3> QED
        BY <3>1, <3>2, <3>3
    <2> QED
      BY <2>1, <2>2 DEF Reverted
  <1>10. Committed' = d
    BY <1>6, <1>9, CommittedAfter
  <1>11. log \in LogEntry /\ log.commitId = currentOrder + 1
    <2>1. currentOrder + 1 \in 1 .. LastOrder
      BY <1>3, LastOrderAssumption DEF SerialInv, LockInv, TypeOK, WorkersTypeOK
    <2> QED
      BY <1>2, <1>4, <2>1 DEF LogEntry
  <1>12. PICK N : N = CommitCount
    OBVIOUS
  <1>13. /\ N \in Nat /\ N = currentOrder /\ CommitCount' = N + 1 /\ N + 1 <= LastOrder
         /\ LogsInv'
         /\ LogAt(clog', N + 1) = log
         /\ \A n \in 1 .. N : LogAt(clog', n) = LogAt(clog, n)
    BY <1>3, <1>11, <1>12, LogGrows
  <1>14. /\ History \in Seq(LogEntry) /\ Len(History) = N
         /\ \A n \in 1 .. N : History[n] = LogAt(clog, n)
    <2>1. History = [n \in 1 .. N |-> LogAt(clog, n)]
      BY <1>12 DEF History
    <2>2. ASSUME NEW n \in 1 .. N PROVE LogAt(clog, n) \in LogEntry
      <3>1. LogAt(clog, n) \in LogsOf(clog)
        BY <1>12, LogAtFacts DEF SerialInv, LogsInv
      <3>2. clog \in [Workers -> Seq(LogEntry)]
        BY DEF SerialInv, LockInv, TypeOK, WorkersTypeOK
      <3>3. PICK u \in Workers : \E m \in DOMAIN clog[u] : LogAt(clog, n) = clog[u][m]
        BY <3>1, <3>2 DEF LogsOf
      <3> QED
        BY <3>2, <3>3
    <2> QED
      BY <1>13, <2>1, <2>2
  <1>15. /\ History' = Append(History, log)
         /\ \A n \in 1 .. N : History'[n] = History[n]
         /\ History'[N + 1] = log
    <2>1. History' = [n \in 1 .. N + 1 |-> LogAt(clog', n)]
      BY <1>13 DEF History
    <2>2. /\ \A n \in 1 .. N : History'[n] = History[n]
          /\ History'[N + 1] = log
      BY <1>13, <1>14, <2>1
    <2>3. /\ Append(History, log) \in Seq(LogEntry) /\ DOMAIN Append(History, log) = 1 .. N + 1
          /\ \A n \in 1 .. N : Append(History, log)[n] = History[n]
          /\ Append(History, log)[N + 1] = log
      BY <1>11, <1>13, <1>14
    <2>4. ASSUME NEW n \in 1 .. N + 1 PROVE History'[n] = Append(History, log)[n]
      <3>1. n \in 1 .. N \/ n = N + 1
        BY <1>13
      <3> QED
        BY <2>2, <2>3, <3>1
    <2>5. PICK h : h = History'
      OBVIOUS
    <2>6. h \in Seq(LogEntry) /\ Len(h) = N + 1
      <3>1. \A n \in 1 .. N + 1 : h[n] \in LogEntry
        BY <1>13, <2>3, <2>4, <2>5
      <3> QED
        BY <1>13, <2>1, <2>5, <3>1
    <2>7. Len(Append(History, log)) = N + 1
      BY <1>11, <1>13, <1>14
    <2>8. h = Append(History, log)
      BY <2>3, <2>4, <2>5, <2>6, <2>7, SeqEqual
    <2> QED
      BY <2>2, <2>5, <2>8
  <1>16. ReplayInv'
    <2>1. PICK g, a, b : /\ g = clog' /\ a = Replay(clog, Records, LastOrder)
                         /\ b = Replay(g, Records, LastOrder)
      OBVIOUS
    <2>2. /\ a[N] = c
          /\ \A n \in 1 .. N : /\ History[n].vj = a[n][History[n].j]
                               /\ History[n].vk = a[n][History[n].k]
      BY <1>1, <1>12, <2>1 DEF SerialInv, ReplayInv
    <2>3. N \in 0 .. LastOrder /\ N + 1 \in 1 .. LastOrder /\ (N + 1) - 1 = N /\ N \in 0 .. N
          /\ \A n \in 1 .. N : n \in 0 .. N
      BY <1>13, LastOrderAssumption
    <2>4. \A n \in 0 .. N : b[n] = a[n]
      BY <1>13, <2>1, <2>3, LastOrderAssumption, ReplaysAgree
    <2>5. b[N + 1] = Replayed(g, N + 1, b[N])
      <3>1. b[N + 1] = Replayed(g, N + 1, b[(N + 1) - 1])
        BY <2>1, <2>3, LastOrderAssumption, ReplayFacts
      <3> QED
        BY <2>3, <3>1
    <2>6. b[N + 1] = d
      <3>1. b[N + 1] = Replayed(g, N + 1, c) /\ LogAt(g, N + 1) = log
        BY <1>13, <2>1, <2>2, <2>3, <2>4, <2>5
      <3>2. log.i = i /\ log.j = j /\ log.k = k
        BY <1>2
      <3> QED
        BY <1>1, <1>4, <1>5, <3>1, <3>2 DEF Replayed
    <2>7. ASSUME NEW n \in 1 .. N + 1
          PROVE  /\ History'[n].vj = b[n][History'[n].j]
                 /\ History'[n].vk = b[n][History'[n].k]
      <3>1. CASE n \in 1 .. N
        BY <1>15, <2>2, <2>3, <2>4, <3>1
      <3>2. CASE n = N + 1
        <4>1. log.j = j /\ log.k = k /\ log.vj = rj(t) /\ log.vk = rk(t)
          BY <1>2
        <4> QED
          BY <1>6, <1>15, <2>6, <3>2, <4>1
      <3> QED
        BY <1>13, <3>1, <3>2
    <2> QED
      BY <1>10, <1>13, <2>1, <2>6, <2>7 DEF ReplayInv
  <1>17. ASSUME NEW u \in Workers PROVE UpdatesOK(u)'
    BY <1>3, <1>7, OthersUpdates DEF SerialInv
  <1>18. ASSUME NEW u \in Workers PROVE IdsOK(u)'
    <2>1. /\ IdsOK(u) /\ currentOrder \in Nat /\ commitId[u] \in Nat /\ LastOrder \in Nat
      BY LastOrderAssumption DEF SerialInv, LockInv, TypeOK, WorkersTypeOK
    <2>2. CASE u = t
      BY <1>3, <1>7, <2>1, <2>2 DEF IdsOK
    <2>3. CASE u # t
      BY <1>3, <1>7, <2>1, <2>3 DEF IdsOK
    <2> QED
      BY <2>2, <2>3
  <1>19. Serial!Transaction(i, j, k)
    <2>1. \A v, w : Serial!NewJ(v, w) = NewJ(v, w) /\ Serial!NewK(v, w) = NewK(v, w)
      BY DEF Serial!NewJ, Serial!NewK, NewJ, NewK, Serial!Wrap, Wrap
    <2>2. log = [commitId |-> Len(History) + 1, i |-> i, j |-> j, k |-> k, vi |-> Committed[i],
                 vj |-> Serial!NewJ(Committed[i], Committed[j]),
                 vk |-> Serial!NewK(Committed[i], Committed[k])]
      BY <1>1, <1>2, <1>4, <1>13, <1>14, <2>1
    <2>3. Committed' = [Committed EXCEPT ![j] = Serial!NewJ(Committed[i], Committed[j]),
                                         ![k] = Serial!NewK(Committed[i], Committed[k])]
      BY <1>1, <1>10, <2>1
    <2>4. Len(History) < LastOrder
      BY <1>13, <1>14, LastOrderAssumption
    <2> QED
      BY <1>15, <2>2, <2>3, <2>4 DEF Serial!Transaction
  <1>20. Serial!SerialNext
    BY <1>4, <1>19 DEF Serial!SerialNext
  <1> QED
    BY <1>13, <1>16, <1>17, <1>18, <1>20 DEF SerialInv

-----------------------------------------------------------------------------
(* The invariant and the refinement. *)

LEMMA InitSerialInv == Init => SerialInv /\ Serial!SerialInit
  <1> SUFFICES ASSUME Init PROVE SerialInv /\ Serial!SerialInit
    OBVIOUS
  <1>1. LockInv
    BY InitLockInv
  <1>2. /\ clog = [t \in Workers |-> <<>>] /\ pc = [t \in Workers |-> "begin"]
        /\ undo = [t \in Workers |-> 1] /\ commitId = [t \in Workers |-> 0]
        /\ currentOrder = 0 /\ db = NewDatabase(Records)
    BY DEF Init
  <1>3. LogsOf(clog) = {} /\ Lines(clog) = {}
    BY <1>2 DEF LogsOf, Lines
  <1>4. CommitCount = 0 /\ 1 .. CommitCount = {}
    BY <1>2, LastOrderAssumption DEF CommitCount
  <1>5. LogsInv
    BY <1>3, <1>4 DEF LogsInv
  <1>6. Committed = NewDatabase(Records)
    <2>1. \A t \in Workers, n \in Stage : ~Dirty(t, n)
      BY <1>2 DEF Dirty, Active
    <2>2. Committed \in [Records -> RecordValue] /\ \A r \in Records : Committed[r] = db[r]
      BY <1>1, <2>1, CommittedIs DEF Reverted
    <2>3. db \in [Records -> RecordValue]
      BY <1>1 DEF LockInv, TypeOK, WorkersTypeOK
    <2> QED
      BY <1>2, <2>2, <2>3
  <1>7. ReplayInv
    <2>1. Replay(clog, Records, LastOrder)[0] = NewDatabase(Records)
      BY LastOrderAssumption, ReplayFacts
    <2> QED
      BY <1>4, <1>6, <2>1 DEF ReplayInv
  <1>8. ASSUME NEW t \in Workers PROVE UpdatesOK(t) /\ IdsOK(t)
    BY <1>2 DEF UpdatesOK, IdsOK, Active
  <1>9. History = <<>>
    BY <1>4 DEF History
  <1>10. Serial!SerialInit
    BY <1>6, <1>9 DEF Serial!SerialInit, Serial!NewDatabase, NewDatabase
  <1> QED
    BY <1>1, <1>5, <1>7, <1>8, <1>10 DEF SerialInv

LEMMA NextSerialInv ==
    SerialInv /\ [Next]_vars => SerialInv' /\ [Serial!SerialNext]_(Serial!serialVars)
  <1> SUFFICES ASSUME SerialInv, [Next]_vars
               PROVE  SerialInv' /\ [Serial!SerialNext]_(Serial!serialVars)
    OBVIOUS
  <1>1. LockInv'
    BY NextLockInv DEF SerialInv
  <1>2. CASE UNCHANGED vars
    <2>1. UNCHANGED <<db, records, pc, stage, undo, clog, commitId, currentOrder>>
      BY <1>2 DEF vars, globalVars, workerVars
    <2>2. CommitCount' = CommitCount /\ LogsInv'
      BY <2>1 DEF CommitCount, LogsInv, SerialInv
    <2>3. Committed' = Committed /\ History' = History
      BY <2>1, <2>2 DEF Committed, DirtyImages, Active, History
    <2>4. ReplayInv'
      BY <2>1, <2>2, <2>3 DEF ReplayInv, SerialInv
    <2>5. ASSUME NEW t \in Workers PROVE UpdatesOK(t)' /\ IdsOK(t)'
      BY <2>1 DEF UpdatesOK, IdsOK, SerialInv, Active, rj, rk, ri
    <2> QED
      BY <1>1, <2>2, <2>3, <2>4, <2>5 DEF SerialInv, Serial!serialVars
  <1>3. ASSUME NEW t \in Workers, Step(t)
        PROVE  SerialInv' /\ [Serial!SerialNext]_(Serial!serialVars)
    <2>1. CASE Commit(t)
      BY <1>1, <2>1, CommitIsSerial
    <2>2. CASE ~Commit(t)
      <3>1. SerialInv' /\ Committed' = Committed /\ History' = History
        BY <1>1, <1>3, <2>2, BeginIsInvisible, WaitingIsInvisible, ReadIsInvisible,
           UpdateIsInvisible, OverrunIsInvisible, UndoIsInvisible, RollbackIsInvisible
        DEF Step
      <3> QED
        BY <3>1 DEF Serial!serialVars
    <2> QED
      BY <2>1, <2>2
  <1> QED
    BY <1>2, <1>3 DEF Next, Terminating

\* The invariant behind the refinement holds in every state.
THEOREM SerialInvAlways == Spec => []SerialInv
  <1>1. Init => SerialInv
    BY InitSerialInv
  <1>2. SerialInv /\ [Next]_vars => SerialInv'
    BY NextSerialInv
  <1> QED
    BY <1>1, <1>2, PTL DEF Spec

\* Strict two-phase locking with rollback: for any number of workers, records
\* and values a commit is one transaction of the serial database, and no other
\* step of workTransaction is seen.
THEOREM TransactionsSerial == Spec => RefinesSerialDatabase
  <1>1. Init => SerialInv /\ Serial!SerialInit
    BY InitSerialInv
  <1>2. SerialInv /\ [Next]_vars => SerialInv' /\ [Serial!SerialNext]_(Serial!serialVars)
    BY NextSerialInv
  <1> QED
    BY <1>1, <1>2, PTL DEF Spec, RefinesSerialDatabase, Serial!SerialSpec

\* The log files have one line for each id.
LEMMA LinesCounted ==
    ASSUME LogsInv, CommitCount \in Nat
    PROVE  LogCount(clog) = CommitCount
  <1> DEFINE N == CommitCount
             Id(l) == clog[l[1]][l[2]].commitId
             f == [n \in 1 .. N |-> CHOOSE l \in Lines(clog) : Id(l) = n]
  <1>1. ASSUME NEW n \in 1 .. N PROVE f[n] \in Lines(clog) /\ Id(f[n]) = n
    <2>1. PICK log \in LogsOf(clog) : log.commitId = n
      BY DEF LogsInv
    <2>2. \E l \in Lines(clog) : log = clog[l[1]][l[2]]
      BY LineOfLog
    <2> QED
      BY <2>1, <2>2
  <1>2. ASSUME NEW l \in Lines(clog) PROVE Id(l) \in 1 .. N
    <2>1. PICK u \in DOMAIN clog : \E n \in DOMAIN clog[u] : l = <<u, n>>
      BY DEF Lines
    <2>2. PICK n \in DOMAIN clog[u] : l = <<u, n>>
      BY <2>1
    <2>3. clog[l[1]][l[2]] \in LogsOf(clog)
      BY <2>2 DEF LogsOf
    <2> QED
      BY <2>3 DEF LogsInv
  <1>3. \A l, m \in Lines(clog) : Id(l) = Id(m) => l = m
    BY DEF LogsInv
  <1>4. f \in [1 .. N -> Lines(clog)]
    BY <1>1
  <1> HIDE DEF Id, f
  <1>5. \A m, n \in 1 .. N : f[m] = f[n] => m = n
    BY <1>1
  <1>6. \A l \in Lines(clog) : \E n \in 1 .. N : f[n] = l
    BY <1>1, <1>2, <1>3
  <1>7. f \in Bijection(1 .. N, Lines(clog))
    BY <1>4, <1>5, <1>6 DEF Bijection, Injection, Surjection, IsInjective
  <1>8. ExistsBijection(1 .. N, Lines(clog))
    BY <1>7 DEF ExistsBijection
  <1> QED
    BY <1>8, FS_CountingElements DEF LogCount

LEMMA SerialInvValidates == SerialInv => LogsValidate
  <1> SUFFICES ASSUME SerialInv, AllDone PROVE ValidationSucceeds(clog, Records, LastOrder)
    BY DEF LogsValidate
  <1>1. CommitCount = LastOrder /\ LastOrder \in Nat
    <2>1. PICK t \in Workers : pc[t] = "done"
      BY WorkersAssumption DEF AllDone
    <2>2. currentOrder > LastOrder /\ currentOrder \in Nat
      BY <2>1 DEF SerialInv, IdsOK, LockInv, TypeOK, WorkersTypeOK
    <2> QED
      BY <2>2, LastOrderAssumption DEF CommitCount
  <1>2. LogCount(clog) = LastOrder
    BY <1>1, LinesCounted DEF SerialInv
  <1>3. \A n \in 1 .. LastOrder : \E log \in LogsOf(clog) : log.commitId = n
    BY <1>1 DEF SerialInv, LogsInv
  <1>4. PICK after : after = Replay(clog, Records, LastOrder)
    OBVIOUS
  <1>5. ASSUME NEW n \in 1 .. LastOrder
        PROVE  LogAt(clog, n).vj = after[n][LogAt(clog, n).j]
               /\ LogAt(clog, n).vk = after[n][LogAt(clog, n).k]
    <2>1. History[n] = LogAt(clog, n)
      BY <1>1 DEF History
    <2> QED
      BY <1>1, <1>4, <2>1 DEF SerialInv, ReplayInv
  <1> QED
    BY <1>2, <1>3, <1>4, <1>5 DEF ValidationSucceeds

\* However the workers interleave, the validator accepts their log files: the
\* ids are 1 .. E, one line each, and the replay yields the logged values.
THEOREM LogsAccepted == Spec => []LogsValidate
  BY SerialInvAlways, SerialInvValidates, PTL

-----------------------------------------------------------------------------
(* The deadlock detection.  What it searches: *)

SearchTable(queues, tokens) ==
    /\ queues \in [Records -> Seq(LockElement)]
    /\ tokens \in [Workers -> Seq(Records)]
    /\ \A u \in Workers : Len(tokens[u]) <= 3
    /\ \A u \in Workers : \A k \in 1 .. Len(tokens[u]) :
         u \in Tids(queues[tokens[u][k]])

\* Behind whom the k-th token of u is, and whether it waits there.
First(queues, tokens, u, k) == Position(queues[tokens[u][k]], u) = 1
InFront(queues, tokens, u, k) ==
    queues[tokens[u][k]][Position(queues[tokens[u][k]], u) - 1].tid
Waits(queues, tokens, u, k) ==
    queues[tokens[u][k]][Position(queues[tokens[u][k]], u)].isBlocked

Deeper(queues, tokens, s) ==
    [worker |-> InFront(queues, tokens, s.worker, s.token), token |-> 1,
     blocked |-> s.blocked \/ Waits(queues, tokens, s.worker, s.token),
     visit |-> s.visit \union {InFront(queues, tokens, s.worker, s.token)}]

Onward(s, visit) == [s EXCEPT !.token = @ + 1, !.visit = visit]

\* What the search finds at one place, if F says what it finds from the next on.
Branch(F, queues, tokens, requester, s) ==
    IF \/ First(queues, tokens, s.worker, s.token)
       \/ InFront(queues, tokens, s.worker, s.token) \in s.visit
    THEN [found |-> FALSE, visit |-> s.visit]
    ELSE IF InFront(queues, tokens, s.worker, s.token) = requester
    THEN [found |-> s.blocked \/ Waits(queues, tokens, s.worker, s.token),
          visit |-> s.visit]
    ELSE F[Deeper(queues, tokens, s)]

Round(F, queues, tokens, requester, s) ==
    IF s.token > Len(tokens[s.worker]) THEN [found |-> FALSE, visit |-> s.visit]
    ELSE IF Branch(F, queues, tokens, requester, s).found
    THEN Branch(F, queues, tokens, requester, s)
    ELSE F[Onward(s, Branch(F, queues, tokens, requester, s).visit)]

Searches(F, queues, tokens, requester) ==
    F = [s \in SearchPlace |-> Round(F, queues, tokens, requester, s)]

LEMMA DetectCycleIs ==
    ASSUME NEW queues, NEW tokens, NEW requester, NEW start
    PROVE  DetectCycle(queues, tokens, requester, start) =
             (/\ start # requester
              /\ (CHOOSE F : Searches(F, queues, tokens, requester))
                   [[worker |-> start, token |-> 1, blocked |-> FALSE,
                     visit |-> {start}]].found)
  BY Zenon DEF DetectCycle, Searches, Round, Branch, Deeper, Onward, First, InFront, Waits

LEMMA FrontFacts ==
    ASSUME NEW queues, NEW tokens, SearchTable(queues, tokens),
           NEW u \in Workers, NEW k \in 1 .. Len(tokens[u])
    PROVE  /\ Waits(queues, tokens, u, k) \in BOOLEAN
           /\ ~First(queues, tokens, u, k) => InFront(queues, tokens, u, k) \in Workers
  <1> DEFINE q == queues[tokens[u][k]]
             p == Position(q, u)
  <1>1. tokens[u][k] \in Records
    BY DEF SearchTable
  <1>2. q \in Seq(LockElement)
    BY <1>1 DEF SearchTable
  <1>3. u \in Tids(q)
    BY DEF SearchTable
  <1>4. Waits(queues, tokens, u, k) = q[p].isBlocked
        /\ InFront(queues, tokens, u, k) = q[p - 1].tid
        /\ (First(queues, tokens, u, k) <=> p = 1)
    BY DEF Waits, InFront, First
  <1> HIDE DEF q
  <1>5. p \in DOMAIN q
    BY <1>2, <1>3, PositionOf
  <1> HIDE DEF p
  <1>6. p \in 1 .. Len(q) /\ q[p] \in LockElement
    BY <1>2, <1>5
  <1>7. p # 1 => q[p - 1] \in LockElement
    BY <1>2, <1>6
  <1> QED
    BY <1>4, <1>6, <1>7 DEF LockElement

\* How much is left to search.
Left(tokens, s) ==
    4 * Cardinality(Workers \ s.visit) +
      IF s.token > Len(tokens[s.worker]) THEN 0 ELSE Len(tokens[s.worker]) + 1 - s.token

LEMMA LeftType ==
    ASSUME NEW queues, NEW tokens, SearchTable(queues, tokens), NEW s \in SearchPlace
    PROVE  /\ Left(tokens, s) \in Nat
           /\ Left(tokens, s) < 4 * Cardinality(Workers) + 4
           /\ Cardinality(Workers) \in Nat
           /\ Cardinality(Workers \ s.visit) \in Nat
           /\ Len(tokens[s.worker]) \in Nat /\ Len(tokens[s.worker]) <= 3
           /\ s.worker \in Workers /\ s.token \in Nat /\ s.token >= 1
           /\ s.visit \in SUBSET Workers /\ s.blocked \in BOOLEAN
  <1>1. s.worker \in Workers /\ s.token \in Nat /\ s.token >= 1
        /\ s.visit \in SUBSET Workers /\ s.blocked \in BOOLEAN
    BY DEF SearchPlace
  <1>2. tokens[s.worker] \in Seq(Records) /\ Len(tokens[s.worker]) <= 3
    BY <1>1 DEF SearchTable
  <1>4. Len(tokens[s.worker]) \in Nat /\ Len(tokens[s.worker]) <= 3
    BY <1>2, LenProperties
  <1>3. /\ Cardinality(Workers) \in Nat
        /\ Cardinality(Workers \ s.visit) \in Nat
        /\ Cardinality(Workers \ s.visit) <= Cardinality(Workers)
    BY WorkersFinite, FS_Subset, FS_CardinalityType
  <1> DEFINE all == Cardinality(Workers)
             c == Cardinality(Workers \ s.visit)
             n == Len(tokens[s.worker])
             k == s.token
  <1>5. Left(tokens, s) = 4 * c + IF k > n THEN 0 ELSE n + 1 - k
    BY DEF Left
  <1>6. all \in Nat /\ c \in Nat /\ c <= all /\ n \in Nat /\ n <= 3 /\ k \in Nat /\ k >= 1
    BY <1>1, <1>3, <1>4
  <1> HIDE DEF all, c, n, k
  <1>7. Left(tokens, s) \in Nat /\ Left(tokens, s) < 4 * all + 4
    BY <1>5, <1>6
  <1> QED
    BY <1>1, <1>3, <1>4, <1>7 DEF all

LEMMA DeeperFacts ==
    ASSUME NEW queues, NEW tokens, SearchTable(queues, tokens), NEW s \in SearchPlace,
           s.token <= Len(tokens[s.worker]),
           ~First(queues, tokens, s.worker, s.token),
           InFront(queues, tokens, s.worker, s.token) \notin s.visit
    PROVE  /\ Deeper(queues, tokens, s) \in SearchPlace
           /\ Left(tokens, Deeper(queues, tokens, s)) < Left(tokens, s)
  <1> DEFINE front == InFront(queues, tokens, s.worker, s.token)
             d == Deeper(queues, tokens, s)
  <1>1. s.worker \in Workers /\ s.token \in 1 .. Len(tokens[s.worker])
        /\ s.visit \in SUBSET Workers /\ s.blocked \in BOOLEAN
    <2>1. /\ s.worker \in Workers /\ s.token \in Nat /\ s.token >= 1
          /\ Len(tokens[s.worker]) \in Nat
          /\ s.visit \in SUBSET Workers /\ s.blocked \in BOOLEAN
      BY LeftType
    <2> QED
      BY <2>1
  <1>2. front \in Workers /\ Waits(queues, tokens, s.worker, s.token) \in BOOLEAN
    BY <1>1, FrontFacts
  <1>3. d \in SearchPlace /\ d.token = 1 /\ d.visit = s.visit \union {front}
        /\ d.worker = front
    BY <1>1, <1>2 DEF Deeper, SearchPlace
  <1> HIDE DEF d
  <1>4. Workers \ d.visit = (Workers \ s.visit) \ {front}
    BY <1>3
  <1>5. IsFiniteSet(Workers \ s.visit)
    BY WorkersFinite, FS_Subset
  <1> HIDE DEF front
  <1>6. Cardinality(Workers \ d.visit) = Cardinality(Workers \ s.visit) - 1
    <2> DEFINE unseen == Workers \ s.visit
    <2>1. front \in unseen /\ IsFiniteSet(unseen)
      BY <1>2, <1>5 DEF front
    <2> HIDE DEF unseen
    <2>2. Cardinality(unseen \ {front}) = Cardinality(unseen) - 1
      BY <2>1, FS_RemoveElement
    <2> QED
      BY <1>4, <2>2 DEF unseen
  <1>7. Cardinality(Workers \ d.visit) \in Nat /\ Cardinality(Workers \ s.visit) \in Nat
        /\ Len(tokens[d.worker]) \in Nat /\ Len(tokens[d.worker]) <= 3
        /\ Len(tokens[s.worker]) \in Nat /\ Len(tokens[s.worker]) <= 3
        /\ d.token \in Nat /\ s.token \in Nat
    BY <1>3, LeftType
  <1> DEFINE c == Cardinality(Workers \ s.visit)
             m == Len(tokens[d.worker])
             n == Len(tokens[s.worker])
             k == s.token
             left == Left(tokens, d)
  <1>8. /\ left = 4 * (c - 1) + IF 1 > m THEN 0 ELSE m + 1 - 1
        /\ Left(tokens, s) = 4 * c + IF k > n THEN 0 ELSE n + 1 - k
    BY <1>3, <1>6 DEF Left
  <1>9. c \in Nat /\ m \in Nat /\ m <= 3 /\ n \in Nat /\ n <= 3 /\ k \in Nat /\ k <= n
    BY <1>7
  <1> HIDE DEF c, m, n, k, left
  <1>10. left < Left(tokens, s)
    BY <1>8, <1>9
  <1> QED
    BY <1>3, <1>10 DEF d, left

LEMMA OnwardFacts ==
    ASSUME NEW queues, NEW tokens, SearchTable(queues, tokens), NEW s \in SearchPlace,
           s.token <= Len(tokens[s.worker]),
           NEW visit \in SUBSET Workers, s.visit \subseteq visit
    PROVE  LET next == Onward(s, visit)
           IN  /\ next \in SearchPlace
               /\ next.worker = s.worker /\ next.token = s.token + 1
               /\ next.blocked = s.blocked /\ next.visit = visit
               /\ Left(tokens, next) < Left(tokens, s)
  <1> DEFINE next == Onward(s, visit)
  <1>0. s.token \in Nat \ {0} /\ s.token + 1 \in Nat \ {0}
    BY DEF SearchPlace
  <1>1. /\ next \in SearchPlace
        /\ next.worker = s.worker /\ next.token = s.token + 1
        /\ next.blocked = s.blocked /\ next.visit = visit
    BY <1>0 DEF SearchPlace, Onward
  <1> HIDE DEF next
  <1>2. IsFiniteSet(Workers \ s.visit) /\ Workers \ visit \subseteq Workers \ s.visit
    BY WorkersFinite, FS_Subset
  <1>3. Cardinality(Workers \ visit) <= Cardinality(Workers \ s.visit)
    BY <1>2, FS_Subset
  <1>4. Cardinality(Workers \ visit) \in Nat /\ Cardinality(Workers \ s.visit) \in Nat
        /\ Len(tokens[s.worker]) \in Nat /\ Len(tokens[s.worker]) <= 3 /\ s.token \in Nat
    BY <1>1, LeftType
  <1> DEFINE c == Cardinality(Workers \ s.visit)
             b == Cardinality(Workers \ visit)
             n == Len(tokens[s.worker])
             k == s.token
  <1>5. /\ Left(tokens, next) = 4 * b + IF k + 1 > n THEN 0 ELSE n + 1 - (k + 1)
        /\ Left(tokens, s) = 4 * c + IF k > n THEN 0 ELSE n + 1 - k
    BY <1>1 DEF Left
  <1>6. b \in Nat /\ c \in Nat /\ b <= c /\ n \in Nat /\ n <= 3 /\ k \in Nat /\ k <= n
    BY <1>3, <1>4
  <1> HIDE DEF b, c, n, k
  <1>7. Left(tokens, next) < Left(tokens, s)
    BY <1>5, <1>6
  <1> QED
    BY <1>1, <1>7 DEF next

-----------------------------------------------------------------------------
(* The recursion of the search has a solution, and every solution finds     *)
(* what it should.                                                          *)

SoundAt(F, s) ==
    /\ F[s] \in [found : BOOLEAN, visit : SUBSET Workers]
    /\ s.visit \subseteq F[s].visit

SoundBelow(F, tokens, n) ==
    \A s \in SearchPlace : Left(tokens, s) < n => SoundAt(F, s)

LEMMA BranchSound ==
    ASSUME NEW queues, NEW tokens, SearchTable(queues, tokens), NEW requester,
           NEW F, NEW s \in SearchPlace, s.token <= Len(tokens[s.worker]),
           SoundBelow(F, tokens, Left(tokens, s))
    PROVE  LET branch == Branch(F, queues, tokens, requester, s)
           IN  /\ branch \in [found : BOOLEAN, visit : SUBSET Workers]
               /\ s.visit \subseteq branch.visit
  <1> DEFINE branch == Branch(F, queues, tokens, requester, s)
             front == InFront(queues, tokens, s.worker, s.token)
  <1>1. /\ s.worker \in Workers /\ s.token \in 1 .. Len(tokens[s.worker])
        /\ s.visit \in SUBSET Workers /\ s.blocked \in BOOLEAN
    <2>1. /\ s.worker \in Workers /\ s.token \in Nat /\ s.token >= 1
          /\ Len(tokens[s.worker]) \in Nat
          /\ s.visit \in SUBSET Workers /\ s.blocked \in BOOLEAN
      BY LeftType
    <2> QED
      BY <2>1
  <1>2. Waits(queues, tokens, s.worker, s.token) \in BOOLEAN
    BY <1>1, FrontFacts
  <1>3. CASE First(queues, tokens, s.worker, s.token) \/ front \in s.visit
    BY <1>1, <1>3 DEF Branch
  <1>4. CASE ~First(queues, tokens, s.worker, s.token) /\ front \notin s.visit
             /\ front = requester
    BY <1>1, <1>2, <1>4 DEF Branch
  <1>5. CASE ~First(queues, tokens, s.worker, s.token) /\ front \notin s.visit
             /\ front # requester
    <2> DEFINE d == Deeper(queues, tokens, s)
    <2>1. branch = F[d]
      BY <1>5 DEF Branch
    <2>2. d \in SearchPlace /\ Left(tokens, d) < Left(tokens, s)
      BY <1>5, DeeperFacts
    <2>3. s.visit \subseteq d.visit
      BY DEF Deeper
    <2>4. SoundAt(F, d)
      BY <2>2 DEF SoundBelow
    <2> QED
      BY <2>1, <2>3, <2>4 DEF SoundAt
  <1> QED
    BY <1>3, <1>4, <1>5

LEMMA RoundSound ==
    ASSUME NEW queues, NEW tokens, SearchTable(queues, tokens), NEW requester,
           NEW F, NEW s \in SearchPlace,
           SoundBelow(F, tokens, Left(tokens, s))
    PROVE  LET answer == Round(F, queues, tokens, requester, s)
           IN  /\ answer \in [found : BOOLEAN, visit : SUBSET Workers]
               /\ s.visit \subseteq answer.visit
  <1> DEFINE branch == Branch(F, queues, tokens, requester, s)
             next == Onward(s, branch.visit)
  <1>1. s.visit \in SUBSET Workers /\ s.token \in Nat /\ Len(tokens[s.worker]) \in Nat
    BY LeftType
  <1>2. CASE s.token > Len(tokens[s.worker])
    BY <1>1, <1>2 DEF Round
  <1>3. CASE s.token <= Len(tokens[s.worker])
    <2>1. /\ branch \in [found : BOOLEAN, visit : SUBSET Workers]
          /\ s.visit \subseteq branch.visit
      BY <1>3, BranchSound
    <2>2. Round(F, queues, tokens, requester, s) = IF branch.found THEN branch ELSE F[next]
      BY <1>1, <1>3 DEF Round
    <2> HIDE DEF branch
    <2>3. /\ next \in SearchPlace /\ next.visit = branch.visit
          /\ Left(tokens, next) < Left(tokens, s)
      <3>1. branch.visit \in SUBSET Workers
        BY <2>1
      <3> QED
        BY <1>3, <2>1, <3>1, OnwardFacts
    <2> HIDE DEF next
    <2>4. SoundAt(F, next)
      BY <2>3 DEF SoundBelow
    <2> QED
      BY <2>1, <2>2, <2>3, <2>4 DEF SoundAt
  <1> QED
    BY <1>1, <1>2, <1>3

LEMMA RoundAgrees ==
    ASSUME NEW queues, NEW tokens, SearchTable(queues, tokens), NEW requester,
           NEW F, NEW G, NEW s \in SearchPlace,
           SoundBelow(F, tokens, Left(tokens, s)),
           \A r \in SearchPlace : Left(tokens, r) < Left(tokens, s) => F[r] = G[r]
    PROVE  Round(F, queues, tokens, requester, s) = Round(G, queues, tokens, requester, s)
  <1> DEFINE branch == Branch(F, queues, tokens, requester, s)
             next == Onward(s, branch.visit)
  <1>1. s.token \in Nat /\ Len(tokens[s.worker]) \in Nat
    BY LeftType
  <1>2. CASE s.token > Len(tokens[s.worker])
    BY <1>1, <1>2 DEF Round
  <1>3. CASE s.token <= Len(tokens[s.worker])
    <2>1. Branch(G, queues, tokens, requester, s) = branch
      <3>1. CASE /\ ~First(queues, tokens, s.worker, s.token)
                 /\ InFront(queues, tokens, s.worker, s.token) \notin s.visit
        <4>1. F[Deeper(queues, tokens, s)] = G[Deeper(queues, tokens, s)]
          BY <1>3, <3>1, DeeperFacts
        <4> QED
          BY <3>1, <4>1 DEF Branch
      <3>2. CASE \/ First(queues, tokens, s.worker, s.token)
                 \/ InFront(queues, tokens, s.worker, s.token) \in s.visit
        BY <3>2 DEF Branch
      <3> QED
        BY <3>1, <3>2
    <2>2. /\ branch \in [found : BOOLEAN, visit : SUBSET Workers]
          /\ s.visit \subseteq branch.visit
      BY <1>3, BranchSound
    <2>3. /\ Round(F, queues, tokens, requester, s) = IF branch.found THEN branch ELSE F[next]
          /\ Round(G, queues, tokens, requester, s) = IF branch.found THEN branch ELSE G[next]
      BY <1>1, <1>3, <2>1 DEF Round
    <2> HIDE DEF branch
    <2>4. next \in SearchPlace /\ Left(tokens, next) < Left(tokens, s)
      <3>1. branch.visit \in SUBSET Workers
        BY <2>2
      <3> QED
        BY <1>3, <2>2, <3>1, OnwardFacts
    <2> HIDE DEF next
    <2> QED
      BY <2>3, <2>4
  <1> QED
    BY <1>1, <1>2, <1>3

LEMMA SearchExists ==
    ASSUME NEW queues, NEW tokens, SearchTable(queues, tokens), NEW requester
    PROVE  \E F : Searches(F, queues, tokens, requester)
  <1> DEFINE Solves(F, n) ==
               /\ \A s \in SearchPlace : SoundAt(F, s)
               /\ \A s \in SearchPlace :
                    Left(tokens, s) < n => F[s] = Round(F, queues, tokens, requester, s)
             S == {n \in Nat : \E F : Solves(F, n)}
  <1>1. 0 \in S
    <2> DEFINE F == [s \in SearchPlace |-> [found |-> FALSE, visit |-> s.visit]]
    <2>1. \A s \in SearchPlace : SoundAt(F, s)
      BY DEF SoundAt, SearchPlace
    <2>2. \A s \in SearchPlace : ~(Left(tokens, s) < 0)
      <3>1. \A s \in SearchPlace : Left(tokens, s) \in Nat
        BY LeftType
      <3> QED
        BY <3>1
    <2> HIDE DEF F
    <2> QED
      BY <2>1, <2>2
  <1>2. ASSUME NEW n \in S PROVE n + 1 \in S
    <2>1. PICK F : Solves(F, n)
      OBVIOUS
    <2> DEFINE G == [s \in SearchPlace |-> Round(F, queues, tokens, requester, s)]
    <2>2. \A s \in SearchPlace : G[s] = Round(F, queues, tokens, requester, s)
      OBVIOUS
    <2> HIDE DEF G
    <2>3. \A s \in SearchPlace : SoundAt(G, s)
      BY <2>1, <2>2, RoundSound DEF SoundBelow, SoundAt
    <2>4. ASSUME NEW s \in SearchPlace, Left(tokens, s) < n + 1
          PROVE  G[s] = Round(G, queues, tokens, requester, s)
      <3>1. ASSUME NEW r \in SearchPlace, Left(tokens, r) < Left(tokens, s)
            PROVE  F[r] = G[r]
        <4>1. Left(tokens, r) \in Nat /\ Left(tokens, s) \in Nat /\ n \in Nat
          BY LeftType
        <4>2. Left(tokens, r) < n
          BY <2>4, <3>1, <4>1
        <4> QED
          BY <2>1, <2>2, <4>2
      <3>2. SoundBelow(F, tokens, Left(tokens, s))
        BY <2>1 DEF SoundBelow
      <3> QED
        BY <2>2, <3>1, <3>2, RoundAgrees
    <2>5. Solves(G, n + 1)
      BY <2>3, <2>4
    <2> HIDE DEF Solves
    <2> QED
      BY <2>5
  <1>3. 4 * Cardinality(Workers) + 4 \in S
    <2> HIDE DEF S
    <2>1. S \in SUBSET Nat
      BY DEF S
    <2>2. 4 * Cardinality(Workers) + 4 \in Nat
      BY WorkersFinite, FS_CardinalityType
    <2> QED
      BY <1>1, <1>2, <2>1, <2>2, Successors
  <1>4. PICK F : Solves(F, 4 * Cardinality(Workers) + 4)
    BY <1>3
  <1> DEFINE G == [s \in SearchPlace |-> F[s]]
  <1>5. \A s \in SearchPlace : G[s] = F[s]
    OBVIOUS
  <1> HIDE DEF G
  <1>6. ASSUME NEW s \in SearchPlace
        PROVE  F[s] = Round(G, queues, tokens, requester, s)
    <2>1. F[s] = Round(F, queues, tokens, requester, s)
      BY <1>4, LeftType
    <2>2. SoundBelow(F, tokens, Left(tokens, s))
      BY <1>4 DEF SoundBelow
    <2> QED
      BY <1>5, <2>1, <2>2, RoundAgrees
  <1>7. G = [s \in SearchPlace |-> Round(G, queues, tokens, requester, s)]
    BY <1>6, Zenon DEF G
  <1> QED
    BY <1>7 DEF Searches

\* The k-th token of w has been followed: it is the first of its queue, or the
\* one in front is of V, or it is the requester and no blocked element has led
\* to it, which makes w one of Z.
Followed(queues, tokens, requester, Z, V, w, k) ==
    \/ First(queues, tokens, w, k)
    \/ InFront(queues, tokens, w, k) \in V
    \/ /\ InFront(queues, tokens, w, k) = requester
       /\ ~Waits(queues, tokens, w, k) /\ w \in Z

\* Z contains whom its members can be led to without a blocked element.
PassedClosed(queues, tokens, Z) ==
    \A w \in Workers \cap Z : \A k \in 1 .. Len(tokens[w]) :
        ~First(queues, tokens, w, k) /\ ~Waits(queues, tokens, w, k) =>
            InFront(queues, tokens, w, k) \in Z

\* A search that finds nothing has followed every token on its way.
CompleteFor(queues, tokens, requester, Z, s, answer) ==
    (s.blocked \/ s.worker \in Z) /\ ~answer.found =>
        /\ requester \notin s.visit => requester \notin answer.visit
        /\ \A k \in 1 .. Len(tokens[s.worker]) : k >= s.token =>
             Followed(queues, tokens, requester, Z, answer.visit, s.worker, k)
        /\ \A w \in answer.visit \ s.visit : \A k \in 1 .. Len(tokens[w]) :
             Followed(queues, tokens, requester, Z, answer.visit, w, k)

LEMMA FollowedStays ==
    ASSUME NEW queues, NEW tokens, NEW requester, NEW Z, NEW V, NEW W, V \subseteq W,
           NEW w, NEW k, Followed(queues, tokens, requester, Z, V, w, k)
    PROVE  Followed(queues, tokens, requester, Z, W, w, k)
  BY DEF Followed

LEMMA BranchComplete ==
    ASSUME NEW queues, NEW tokens, SearchTable(queues, tokens), NEW requester,
           NEW Z, PassedClosed(queues, tokens, Z),
           NEW F, NEW s \in SearchPlace, s.token <= Len(tokens[s.worker]),
           SoundBelow(F, tokens, Left(tokens, s)),
           \A r \in SearchPlace : Left(tokens, r) < Left(tokens, s) =>
             CompleteFor(queues, tokens, requester, Z, r, F[r]),
           s.blocked \/ s.worker \in Z,
           ~Branch(F, queues, tokens, requester, s).found
    PROVE  LET visit == Branch(F, queues, tokens, requester, s).visit
           IN  /\ requester \notin s.visit => requester \notin visit
               /\ Followed(queues, tokens, requester, Z, visit, s.worker, s.token)
               /\ \A w \in visit \ s.visit : \A k \in 1 .. Len(tokens[w]) :
                    Followed(queues, tokens, requester, Z, visit, w, k)
  <1> DEFINE branch == Branch(F, queues, tokens, requester, s)
             front == InFront(queues, tokens, s.worker, s.token)
  <1>1. /\ s.worker \in Workers /\ s.token \in 1 .. Len(tokens[s.worker])
        /\ s.visit \in SUBSET Workers /\ s.blocked \in BOOLEAN
    <2>1. /\ s.worker \in Workers /\ s.token \in Nat /\ s.token >= 1
          /\ Len(tokens[s.worker]) \in Nat
          /\ s.visit \in SUBSET Workers /\ s.blocked \in BOOLEAN
      BY LeftType
    <2> QED
      BY <2>1
  <1>2. Waits(queues, tokens, s.worker, s.token) \in BOOLEAN
    BY <1>1, FrontFacts
  <1>3. CASE First(queues, tokens, s.worker, s.token) \/ front \in s.visit
    <2>1. branch.visit = s.visit
      BY <1>3 DEF Branch
    <2> HIDE DEF branch
    <2> QED
      BY <1>3, <2>1 DEF Followed, branch
  <1>4. CASE ~First(queues, tokens, s.worker, s.token) /\ front \notin s.visit
             /\ front = requester
    <2>1. branch = [found |-> s.blocked \/ Waits(queues, tokens, s.worker, s.token),
                    visit |-> s.visit]
      BY <1>4 DEF Branch
    <2>2. branch.visit = s.visit
      BY <2>1
    <2>3. ~(s.blocked \/ Waits(queues, tokens, s.worker, s.token))
      <3> DEFINE b == s.blocked \/ Waits(queues, tokens, s.worker, s.token)
      <3>1. b \in BOOLEAN /\ branch = [found |-> b, visit |-> s.visit]
        BY <1>1, <1>2, <2>1
      <3> HIDE DEF b
      <3>2. ~b
        BY <3>1
      <3> QED
        BY <3>2 DEF b
    <2> HIDE DEF branch
    <2> QED
      BY <1>4, <2>2, <2>3 DEF Followed, branch
  <1>5. CASE ~First(queues, tokens, s.worker, s.token) /\ front \notin s.visit
             /\ front # requester
    <2> DEFINE d == Deeper(queues, tokens, s)
    <2>1. branch = F[d]
      BY <1>5 DEF Branch
    <2>2. d \in SearchPlace /\ Left(tokens, d) < Left(tokens, s)
      BY <1>5, DeeperFacts
    <2>3. /\ d.worker = front /\ d.token = 1 /\ d.visit = s.visit \union {front}
          /\ d.blocked <=> s.blocked \/ Waits(queues, tokens, s.worker, s.token)
      BY DEF Deeper
    <2> HIDE DEF d
    <2>4. SoundAt(F, d) /\ CompleteFor(queues, tokens, requester, Z, d, F[d])
      BY <2>2 DEF SoundBelow
    <2>5. d.blocked \/ d.worker \in Z
      BY <1>1, <1>5, <2>3 DEF PassedClosed
    <2> DEFINE visit == F[d].visit
    <2>6. /\ requester \notin d.visit => requester \notin visit
          /\ \A k \in 1 .. Len(tokens[d.worker]) : k >= d.token =>
               Followed(queues, tokens, requester, Z, visit, d.worker, k)
          /\ \A w \in visit \ d.visit : \A k \in 1 .. Len(tokens[w]) :
               Followed(queues, tokens, requester, Z, visit, w, k)
      BY <2>1, <2>4, <2>5 DEF CompleteFor
    <2>7. d.visit \subseteq visit
      BY <2>4 DEF SoundAt
    <2>8. branch.visit = visit
      BY <2>1
    <2> HIDE DEF visit, branch
    <2>9. requester \notin s.visit => requester \notin visit
      BY <1>5, <2>3, <2>6
    <2>10. Followed(queues, tokens, requester, Z, visit, s.worker, s.token)
      BY <2>3, <2>7 DEF Followed
    <2>11. ASSUME NEW w \in visit \ s.visit, NEW k \in 1 .. Len(tokens[w])
           PROVE  Followed(queues, tokens, requester, Z, visit, w, k)
      <3>1. CASE w = front
        BY <2>3, <2>6, <3>1
      <3>2. CASE w # front
        BY <2>3, <2>6, <3>2
      <3> QED
        BY <3>1, <3>2
    <2> QED
      BY <2>8, <2>9, <2>10, <2>11 DEF branch
  <1> QED
    BY <1>3, <1>4, <1>5

LEMMA RoundComplete ==
    ASSUME NEW queues, NEW tokens, SearchTable(queues, tokens), NEW requester,
           NEW Z, PassedClosed(queues, tokens, Z),
           NEW F, NEW s \in SearchPlace,
           SoundBelow(F, tokens, Left(tokens, s)),
           \A r \in SearchPlace : Left(tokens, r) < Left(tokens, s) =>
             CompleteFor(queues, tokens, requester, Z, r, F[r])
    PROVE  CompleteFor(queues, tokens, requester, Z, s, Round(F, queues, tokens, requester, s))
  <1> DEFINE answer == Round(F, queues, tokens, requester, s)
             branch == Branch(F, queues, tokens, requester, s)
             next == Onward(s, branch.visit)
  <1> SUFFICES ASSUME s.blocked \/ s.worker \in Z, ~answer.found
               PROVE  /\ requester \notin s.visit => requester \notin answer.visit
                      /\ \A k \in 1 .. Len(tokens[s.worker]) : k >= s.token =>
                           Followed(queues, tokens, requester, Z, answer.visit, s.worker, k)
                      /\ \A w \in answer.visit \ s.visit : \A k \in 1 .. Len(tokens[w]) :
                           Followed(queues, tokens, requester, Z, answer.visit, w, k)
    BY Zenon DEF CompleteFor
  <1>1. s.token \in Nat /\ Len(tokens[s.worker]) \in Nat /\ s.visit \in SUBSET Workers
    BY LeftType
  <1>2. CASE s.token > Len(tokens[s.worker])
    <2>1. answer.visit = s.visit
      BY <1>2 DEF Round
    <2> HIDE DEF answer
    <2> QED
      BY <1>1, <1>2, <2>1
  <1>3. CASE s.token <= Len(tokens[s.worker])
    <2>1. /\ branch \in [found : BOOLEAN, visit : SUBSET Workers]
          /\ s.visit \subseteq branch.visit
      BY <1>3, BranchSound
    <2>2. answer = IF branch.found THEN branch ELSE F[next]
      BY <1>1, <1>3 DEF Round
    <2>3. ~branch.found /\ answer = F[next]
      BY <2>2
    <2>4. /\ requester \notin s.visit => requester \notin branch.visit
          /\ Followed(queues, tokens, requester, Z, branch.visit, s.worker, s.token)
          /\ \A w \in branch.visit \ s.visit : \A k \in 1 .. Len(tokens[w]) :
               Followed(queues, tokens, requester, Z, branch.visit, w, k)
      BY <1>3, <2>3, BranchComplete
    <2> HIDE DEF branch
    <2>5. /\ next \in SearchPlace /\ next.visit = branch.visit
          /\ next.worker = s.worker /\ next.token = s.token + 1 /\ next.blocked = s.blocked
          /\ Left(tokens, next) < Left(tokens, s)
      <3>1. branch.visit \in SUBSET Workers
        BY <2>1
      <3> QED
        BY <1>3, <2>1, <3>1, OnwardFacts
    <2> HIDE DEF next
    <2>6. SoundAt(F, next) /\ CompleteFor(queues, tokens, requester, Z, next, F[next])
      BY <2>5 DEF SoundBelow
    <2> HIDE DEF answer
    <2>7. branch.visit \subseteq answer.visit
      BY <2>3, <2>5, <2>6 DEF SoundAt
    <2>8. /\ requester \notin branch.visit => requester \notin answer.visit
          /\ \A k \in 1 .. Len(tokens[s.worker]) : k >= s.token + 1 =>
               Followed(queues, tokens, requester, Z, answer.visit, s.worker, k)
          /\ \A w \in answer.visit \ branch.visit : \A k \in 1 .. Len(tokens[w]) :
               Followed(queues, tokens, requester, Z, answer.visit, w, k)
      BY <2>3, <2>5, <2>6 DEF CompleteFor
    <2>9. ASSUME NEW k \in 1 .. Len(tokens[s.worker]), k >= s.token
          PROVE  Followed(queues, tokens, requester, Z, answer.visit, s.worker, k)
      <3>1. CASE k = s.token
        BY <2>4, <2>7, <3>1, FollowedStays
      <3>2. CASE k # s.token
        BY <1>1, <2>8, <2>9, <3>2
      <3> QED
        BY <3>1, <3>2
    <2>10. ASSUME NEW w \in answer.visit \ s.visit, NEW k \in 1 .. Len(tokens[w])
           PROVE  Followed(queues, tokens, requester, Z, answer.visit, w, k)
      <3>1. CASE w \in branch.visit
        BY <2>4, <2>7, <3>1, FollowedStays
      <3>2. CASE w \notin branch.visit
        BY <2>8, <3>2
      <3> QED
        BY <3>1, <3>2
    <2> QED
      BY <2>4, <2>8, <2>9, <2>10
  <1> QED
    BY <1>1, <1>2, <1>3

\* A search that finds no cycle yields a set of workers with all that they
\* queue behind, but for the requester where nothing waits.
LEMMA NoCycleFound ==
    ASSUME NEW queues, NEW tokens, SearchTable(queues, tokens),
           NEW requester \in Workers, NEW start \in Workers, start # requester,
           NEW Z, start \in Z, PassedClosed(queues, tokens, Z),
           ~DetectCycle(queues, tokens, requester, start)
    PROVE  \E V \in SUBSET Workers :
             /\ start \in V /\ requester \notin V
             /\ \A w \in V : \A k \in 1 .. Len(tokens[w]) :
                  Followed(queues, tokens, requester, Z, V, w, k)
  <1> DEFINE F == CHOOSE F : Searches(F, queues, tokens, requester)
             Good(s) == SoundAt(F, s) /\ CompleteFor(queues, tokens, requester, Z, s, F[s])
             S == {n \in Nat : \A s \in SearchPlace : Left(tokens, s) < n => Good(s)}
  <1>1. Searches(F, queues, tokens, requester)
    BY SearchExists
  <1>2. ~F[[worker |-> start, token |-> 1, blocked |-> FALSE, visit |-> {start}]].found
    BY DetectCycleIs
  <1> HIDE DEF F
  <1>3. \A s \in SearchPlace : F[s] = Round(F, queues, tokens, requester, s)
    BY <1>1 DEF Searches
  <1>4. 0 \in S
    <2>1. \A s \in SearchPlace : Left(tokens, s) \in Nat
      BY LeftType
    <2> QED
      BY <2>1
  <1>5. ASSUME NEW n \in S PROVE n + 1 \in S
    <2> SUFFICES ASSUME NEW s \in SearchPlace, Left(tokens, s) < n + 1
                 PROVE  Good(s)
      OBVIOUS
    <2>1. ASSUME NEW r \in SearchPlace, Left(tokens, r) < Left(tokens, s)
          PROVE  Good(r)
      <3>1. Left(tokens, r) \in Nat /\ Left(tokens, s) \in Nat /\ n \in Nat
        BY LeftType
      <3>2. Left(tokens, r) < n
        BY <2>1, <3>1
      <3> QED
        BY <3>2
    <2>2. SoundBelow(F, tokens, Left(tokens, s))
      BY <2>1 DEF SoundBelow
    <2>3. SoundAt(F, s)
      BY <1>3, <2>2, RoundSound DEF SoundAt
    <2>4. CompleteFor(queues, tokens, requester, Z, s, Round(F, queues, tokens, requester, s))
      BY <2>1, <2>2, RoundComplete
    <2> QED
      BY <1>3, <2>3, <2>4
  <1>6. 4 * Cardinality(Workers) + 4 \in S
    <2> HIDE DEF S
    <2>1. S \in SUBSET Nat
      BY DEF S
    <2>2. 4 * Cardinality(Workers) + 4 \in Nat
      BY WorkersFinite, FS_CardinalityType
    <2> QED
      BY <1>4, <1>5, <2>1, <2>2, Successors
  <1> DEFINE s == [worker |-> start, token |-> 1, blocked |-> FALSE, visit |-> {start}]
  <1>7. s \in SearchPlace /\ s.worker = start /\ s.token = 1 /\ s.visit = {start}
    BY DEF SearchPlace
  <1> HIDE DEF s
  <1>8. Good(s)
    BY <1>6, <1>7, LeftType
  <1> DEFINE V == F[s].visit
  <1>9. V \in SUBSET Workers /\ start \in V
    BY <1>7, <1>8 DEF SoundAt
  <1>10. ~F[s].found
    BY <1>2 DEF s
  <1>11. /\ requester \notin s.visit => requester \notin V
         /\ \A k \in 1 .. Len(tokens[s.worker]) : k >= s.token =>
              Followed(queues, tokens, requester, Z, V, s.worker, k)
         /\ \A w \in V \ s.visit : \A k \in 1 .. Len(tokens[w]) :
              Followed(queues, tokens, requester, Z, V, w, k)
    BY <1>7, <1>8, <1>10 DEF CompleteFor
  <1> HIDE DEF V
  <1>12. ASSUME NEW w \in V, NEW k \in 1 .. Len(tokens[w])
         PROVE  Followed(queues, tokens, requester, Z, V, w, k)
    <2>1. CASE w = start
      BY <1>7, <1>11, <2>1
    <2>2. CASE w # start
      BY <1>7, <1>11, <2>2
    <2> QED
      BY <2>1, <2>2
  <1> QED
    BY <1>7, <1>9, <1>11, <1>12

-----------------------------------------------------------------------------
(* Who waits for whom.                                                      *)

\* WaitsFor, as the queue q has it.
Behind(q, t, u) ==
    \E p \in DOMAIN q :
        /\ q[p].tid = t /\ ~CanEnter(q, p)
        /\ \E m \in 1 .. p - 1 : q[m].tid = u /\ (m = p - 1 \/ ~q[p].isReader)

Reads(q, t) == \E p \in DOMAIN q : q[p].tid = t /\ q[p].isReader

LEMMA PositionIs ==
    ASSUME NEW q \in Seq(LockElement), DistinctTids(q), NEW p \in DOMAIN q
    PROVE  Position(q, q[p].tid) = p
  BY DEF Position, DistinctTids

WaitsForIs ==
    \A t, u \in Workers : WaitsFor(t, u) <=>
        /\ pc[t] \in {"yield", "poll"}
        /\ Target(t) \in Records
        /\ Behind(threadQueue[Target(t)], t, u)

LEMMA WaitsForFacts == LockInv => WaitsForIs
  <1> SUFFICES ASSUME LockInv, NEW t \in Workers, NEW u \in Workers,
                      pc[t] \in {"yield", "poll"}
               PROVE  /\ Target(t) \in Records
                      /\ WaitsFor(t, u) <=> Behind(threadQueue[Target(t)], t, u)
    BY DEF WaitsForIs, WaitsFor
  <1>1. /\ Active(t) /\ pick[t] \in Picks /\ Len(adj[t]) = stage[t]
        /\ \A n \in DOMAIN adj[t] : adj[t][n] = pick[t][n]
    BY DEF LockInv, ProgressInv, Progress, Active
  <1>2. stage[t] \in {1, 2, 3} /\ DOMAIN adj[t] = 1 .. stage[t]
    BY <1>1, WorkerType DEF LockInv
  <1>3. Target(t) \in Records /\ Target(t) \in ToSet(adj[t])
    <2>1. Target(t) = adj[t][stage[t]] /\ stage[t] \in DOMAIN adj[t]
      BY <1>1, <1>2 DEF Target
    <2> QED
      BY <1>1, <1>2, <2>1, PickFacts DEF Target, Stage, ToSet
  <1> DEFINE q == threadQueue[Target(t)]
             p == Position(q, t)
  <1>4. q \in Seq(LockElement) /\ DistinctTids(q) /\ t \in Tids(q)
    BY <1>3 DEF LockInv, TypeOK, LockTableTypeOK, TokensMatchQueues
  <1>5. WaitsFor(t, u) <=>
          /\ ~CanEnter(q, p)
          /\ \E m \in 1 .. p - 1 : q[m].tid = u /\ (m = p - 1 \/ ~q[p].isReader)
    BY DEF WaitsFor, CanPass
  <1> HIDE DEF q
  <1>6. p \in DOMAIN q /\ q[p].tid = t
    BY <1>4, PositionOf
  <1>7. \A n \in DOMAIN q : q[n].tid = t => n = p
    BY <1>4, <1>6 DEF DistinctTids
  <1> HIDE DEF p
  <1>8. WaitsFor(t, u) <=> Behind(q, t, u)
    BY <1>5, <1>6, <1>7, Zenon DEF Behind
  <1> QED
    BY <1>3, <1>8 DEF q

\* A worker whose element has not passed asks for it, waits for it, or was
\* refused it.
BlockedAreTargets ==
    \A t \in Workers : \A r \in Records : \A p \in DOMAIN threadQueue[r] :
        threadQueue[r][p].tid = t /\ threadQueue[r][p].isBlocked =>
            pc[t] \in {"yield", "poll", "rollback"} /\ r = Target(t)

LEMMA BlockedFacts == LockInv => BlockedAreTargets
  <1> SUFFICES ASSUME LockInv, NEW t \in Workers, NEW r \in Records,
                      NEW p \in DOMAIN threadQueue[r],
                      threadQueue[r][p].tid = t, threadQueue[r][p].isBlocked
               PROVE  pc[t] \in {"yield", "poll", "rollback"} /\ r = Target(t)
    BY DEF BlockedAreTargets
  <1>1. t \in Tids(threadQueue[r]) /\ DistinctTids(threadQueue[r])
    BY DEF Tids, LockInv, TokensMatchQueues
  <1>2. r \in ToSet(adj[t])
    BY <1>1 DEF LockInv, TokensMatchQueues
  <1>3. PICK n \in DOMAIN adj[t] : adj[t][n] = r
    BY <1>2 DEF ToSet
  <1>4. ~Passed(threadQueue[r], t)
    BY <1>1 DEF Passed, DistinctTids
  <1>5. ~(n <= Len(records[t])) /\ pc[t] # "read"
    BY <1>3, <1>4 DEF LockInv, ElementsInv, Elements
  <1>6. /\ DOMAIN adj[t] = 1 .. Len(adj[t]) /\ Len(adj[t]) \in Nat
        /\ Len(records[t]) \in Nat /\ stage[t] \in {1, 2, 3} /\ pc[t] \in Places
    BY WorkerType DEF LockInv
  <1>7. Progress(t)
    BY DEF LockInv, ProgressInv
  <1>8. Active(t)
    <2>1. Len(adj[t]) # 0
      BY <1>3, <1>6
    <2> QED
      BY <1>7, <2>1 DEF Progress
  <1>9. n > Len(records[t]) /\ n <= Len(adj[t]) /\ n \in Nat
    BY <1>3, <1>5, <1>6
  <1>10. pc[t] \in {"yield", "poll", "rollback"}
    BY <1>5, <1>6, <1>7, <1>8, <1>9 DEF Progress, Active, Places
  <1>11. n = stage[t]
    BY <1>6, <1>7, <1>9, <1>10 DEF Progress
  <1>12. r = Target(t)
    BY <1>3, <1>7, <1>11 DEF Progress, Target
  <1> QED
    BY <1>10, <1>12

\* A worker reads one record only.
ReadsOneRecord ==
    \A t \in Workers : \A r, s \in Records :
        Reads(threadQueue[r], t) /\ Reads(threadQueue[s], t) => r = s

LEMMA ReadsFacts == LockInv => ReadsOneRecord
  <1> SUFFICES ASSUME LockInv, NEW t \in Workers, NEW r \in Records,
                      Reads(threadQueue[r], t)
               PROVE  r = adj[t][1]
    BY DEF ReadsOneRecord
  <1>1. PICK p \in DOMAIN threadQueue[r] :
          threadQueue[r][p].tid = t /\ threadQueue[r][p].isReader
    BY DEF Reads
  <1>2. t \in Tids(threadQueue[r]) /\ DistinctTids(threadQueue[r])
    BY <1>1 DEF Tids, LockInv, TokensMatchQueues
  <1>3. PICK n \in DOMAIN adj[t] : adj[t][n] = r
    BY <1>2 DEF ToSet, LockInv, TokensMatchQueues
  <1>4. ~Writes(threadQueue[r], t)
    BY <1>1, <1>2 DEF Writes, DistinctTids
  <1> QED
    BY <1>3, <1>4 DEF LockInv, ElementsInv, Elements

SearchTableOK == SearchTable(threadQueue, adj)

LEMMA SearchTableFacts == LockInv => SearchTableOK
  <1> SUFFICES ASSUME LockInv PROVE SearchTable(threadQueue, adj)
    BY DEF SearchTableOK
  <1>1. threadQueue \in [Records -> Seq(LockElement)] /\ adj \in [Workers -> Seq(Records)]
    BY DEF LockInv, TypeOK, LockTableTypeOK
  <1>2. ASSUME NEW t \in Workers PROVE Len(adj[t]) <= 3
    <2>1. CASE Active(t)
      BY <2>1, Sizes
    <2>2. CASE ~Active(t)
      <3>1. adj[t] = <<>>
        BY <2>2 DEF LockInv, ProgressInv, Progress
      <3> QED
        BY <3>1
    <2> QED
      BY <2>1, <2>2
  <1>3. ASSUME NEW t \in Workers, NEW k \in 1 .. Len(adj[t])
        PROVE  t \in Tids(threadQueue[adj[t][k]])
    <2>1. k \in DOMAIN adj[t] /\ adj[t][k] \in Records
      BY <1>1
    <2>2. adj[t][k] \in ToSet(adj[t])
      BY <2>1 DEF ToSet
    <2> QED
      BY <2>1, <2>2 DEF LockInv, TokensMatchQueues
  <1> QED
    BY <1>1, <1>2, <1>3 DEF SearchTable

\* The same after a step.
LEMMA FactsAfter ==
    ASSUME LockInv'
    PROVE  WaitsForIs' /\ BlockedAreTargets' /\ ReadsOneRecord' /\ SearchTableOK'
  <1>1. LockInv' => WaitsForIs'
    BY WaitsForFacts, PTL
  <1>2. LockInv' => BlockedAreTargets'
    BY BlockedFacts, PTL
  <1>3. LockInv' => ReadsOneRecord'
    BY ReadsFacts, PTL
  <1>4. LockInv' => SearchTableOK'
    BY SearchTableFacts, PTL
  <1> QED
    BY <1>1, <1>2, <1>3, <1>4

-----------------------------------------------------------------------------
(* What the operations of the lock table do to who waits for whom.          *)

LEMMA AddedAt ==
    ASSUME NEW q \in Seq(LockElement), NEW t \in Workers, NEW b \in BOOLEAN
    PROVE  LET new == AddLock(q, t, b)
           IN  /\ Len(q) \in Nat /\ DOMAIN q = 1 .. Len(q)
               /\ Len(new) = Len(q) + 1 /\ DOMAIN new = 1 .. Len(q) + 1
               /\ \A p \in 1 .. Len(q) : new[p] = q[p]
               /\ new[Len(q) + 1].tid = t /\ new[Len(q) + 1].isBlocked
               /\ new[Len(q) + 1].isReader = b
  <1> DEFINE new == AddLock(q, t, b)
  <1>1. /\ new \in Seq(LockElement) /\ Len(new) = Len(q) + 1
        /\ \A p \in DOMAIN q : new[p] = q[p]
        /\ new[Len(q) + 1] = [tid |-> t, isReader |-> b, isBlocked |-> TRUE]
    BY AddLockType
  <1> HIDE DEF new
  <1> QED
    BY <1>1 DEF new

\* The element appended by t makes nobody else wait for more.
LEMMA BehindAdded ==
    ASSUME NEW q \in Seq(LockElement), NEW t \in Workers, NEW b \in BOOLEAN,
           NEW a, a # t, NEW u, Behind(AddLock(q, t, b), a, u)
    PROVE  Behind(q, a, u)
  <1> DEFINE new == AddLock(q, t, b)
  <1>1. /\ DOMAIN new = 1 .. Len(q) + 1
        /\ DOMAIN q = 1 .. Len(q)
        /\ Len(q) \in Nat
        /\ \A p \in 1 .. Len(q) : new[p] = q[p]
        /\ new[Len(q) + 1].tid = t
    BY AddedAt
  <1> HIDE DEF new
  <1>2. PICK p \in DOMAIN new :
          /\ new[p].tid = a /\ ~CanEnter(new, p)
          /\ \E m \in 1 .. p - 1 : new[m].tid = u /\ (m = p - 1 \/ ~new[p].isReader)
    BY DEF Behind, new
  <1>3. p \in 1 .. Len(q)
    BY <1>1, <1>2
  <1>4. ~CanEnter(q, p)
    BY <1>1, <1>2, <1>3 DEF CanEnter
  <1>5. PICK m \in 1 .. p - 1 : new[m].tid = u /\ (m = p - 1 \/ ~new[p].isReader)
    BY <1>2
  <1>6. m \in 1 .. Len(q)
    BY <1>1, <1>3
  <1>7. q[p].tid = a /\ q[m].tid = u /\ (m = p - 1 \/ ~q[p].isReader)
    BY <1>1, <1>2, <1>3, <1>5, <1>6
  <1> QED
    BY <1>1, <1>3, <1>4, <1>7 DEF Behind

\* An element that passes makes nobody else wait for more.
LEMMA BehindEntered ==
    ASSUME NEW q \in Seq(LockElement), NEW n \in DOMAIN q,
           NEW a, a # q[n].tid, NEW u, Behind(Enter(q, n), a, u)
    PROVE  Behind(q, a, u)
  <1> DEFINE new == Enter(q, n)
  <1>1. /\ DOMAIN new = 1 .. Len(q)
        /\ DOMAIN q = 1 .. Len(q)
        /\ Len(q) \in Nat
        /\ \A p \in 1 .. Len(q) :
             /\ new[p].tid = q[p].tid
             /\ new[p].isReader = q[p].isReader
             /\ p # n => new[p] = q[p]
    <2>1. n \in 1 .. Len(q) /\ DOMAIN q = 1 .. Len(q) /\ Len(q) \in Nat
      OBVIOUS
    <2>2. q[n] \in LockElement
      BY <2>1
    <2> DEFINE e == [q[n] EXCEPT !.isBlocked = FALSE]
    <2>3. e.tid = q[n].tid /\ e.isReader = q[n].isReader
      BY <2>2 DEF LockElement
    <2>4. new = [q EXCEPT ![n] = e]
      BY DEF Enter
    <2> HIDE DEF e, new
    <2>5. DOMAIN new = 1 .. Len(q)
      BY <2>1, <2>4
    <2>6. \A p \in 1 .. Len(q) : new[p] = IF p = n THEN e ELSE q[p]
      BY <2>1, <2>4
    <2> QED
      BY <2>1, <2>3, <2>5, <2>6
  <1>0. ~new[n].isBlocked
    <2>1. n \in 1 .. Len(q) /\ q[n] \in LockElement
      OBVIOUS
    <2>2. [q[n] EXCEPT !.isBlocked = FALSE].isBlocked = FALSE
      BY <2>1 DEF LockElement
    <2> QED
      BY <2>1, <2>2 DEF Enter
  <1> HIDE DEF new
  <1>2. PICK p \in DOMAIN new :
          /\ new[p].tid = a /\ ~CanEnter(new, p)
          /\ \E m \in 1 .. p - 1 : new[m].tid = u /\ (m = p - 1 \/ ~new[p].isReader)
    BY DEF Behind, new
  <1>3. p \in 1 .. Len(q) /\ p # n
    BY <1>1, <1>2
  <1>4. ~CanEnter(q, p)
    BY <1>0, <1>1, <1>2, <1>3 DEF CanEnter
  <1>5. PICK m \in 1 .. p - 1 : new[m].tid = u /\ (m = p - 1 \/ ~new[p].isReader)
    BY <1>2
  <1>6. m \in 1 .. Len(q)
    BY <1>1, <1>3
  <1>7. q[p].tid = a /\ q[m].tid = u /\ (m = p - 1 \/ ~q[p].isReader)
    BY <1>1, <1>2, <1>3, <1>5, <1>6
  <1> QED
    BY <1>1, <1>3, <1>4, <1>7 DEF Behind

\* Nor does an element that leaves, if it had passed or was the last: a reader
\* behind it now stands behind one that had passed before it, and passes.
LEMMA BehindUnlocked ==
    ASSUME NEW q \in Seq(LockElement), NEW t \in Tids(q), Exclusive(q),
           \A p \in DOMAIN q : q[p].tid = t => ~q[p].isBlocked \/ p = Len(q),
           NEW a, NEW u, Behind(Unlock(q, t), a, u)
    PROVE  Behind(q, a, u)
  <1> DEFINE n == Position(q, t)
             new == Unlock(q, t)
             len == Len(q)
             old(p) == IF p < n THEN p ELSE p + 1
  <1>1. /\ n \in 1 .. len /\ q[n].tid = t /\ len \in Nat /\ DOMAIN q = 1 .. len
        /\ ~q[n].isBlocked \/ n = len
    BY PositionOf
  <1>2. /\ DOMAIN new = 1 .. len - 1
        /\ \A p \in 1 .. len - 1 : new[p] = q[old(p)]
    <2>1. new \in Seq(LockElement) /\ Len(new) = len - 1
          /\ \A p \in 1 .. len - 1 : new[p] = IF p < n THEN q[p] ELSE q[p + 1]
      BY <1>1, RemoveAtElements DEF Unlock
    <2> HIDE DEF new, n, len
    <2> QED
      BY <2>1
  <1> HIDE DEF n, new, len
  <1>3. PICK p \in 1 .. len - 1 :
          /\ new[p].tid = a /\ ~CanEnter(new, p)
          /\ \E m \in 1 .. p - 1 : new[m].tid = u /\ (m = p - 1 \/ ~new[p].isReader)
    BY <1>2 DEF Behind, new
  <1>4. PICK m \in 1 .. p - 1 : new[m].tid = u /\ (m = p - 1 \/ ~new[p].isReader)
    BY <1>3
  <1>5. /\ n \in Nat /\ p \in Nat /\ m \in Nat /\ len \in Nat
        /\ 1 <= n /\ n <= len /\ 1 < p /\ p < len /\ 1 <= m /\ m < p
    BY <1>1, <1>3, <1>4
  <1>6. /\ m \in 1 .. len - 1 /\ p - 1 \in 1 .. len - 1 /\ p \in 1 .. len - 1
    BY <1>5
  <1>7. new[p] = q[old(p)] /\ new[p - 1] = q[old(p - 1)] /\ new[m] = q[old(m)]
    BY <1>2, <1>6
  <1>8. old(m) \in 1 .. old(p) - 1 /\ old(p) \in 1 .. len /\ old(p) # 1
    BY <1>5
  <1>9. /\ q[old(p)].isBlocked
        /\ ~(q[old(p)].isReader /\ q[old(p - 1)].isReader /\ ~q[old(p - 1)].isBlocked)
    BY <1>3, <1>5, <1>7 DEF CanEnter
  <1>10. q[old(p)].tid = a /\ q[old(m)].tid = u /\ (m = p - 1 \/ ~q[old(p)].isReader)
    BY <1>3, <1>4, <1>7
  <1>11. CASE p # n
    <2>1. old(p) - 1 = old(p - 1)
      BY <1>5, <1>11
    <2>2. m = p - 1 => old(m) = old(p) - 1
      BY <2>1
    <2> HIDE DEF old
    <2>3. ~CanEnter(q, old(p))
      BY <1>8, <1>9, <2>1 DEF CanEnter
    <2> QED
      BY <1>1, <1>8, <1>10, <2>2, <2>3 DEF Behind
  <1>12. CASE p = n
    <2>1. old(p) = n + 1 /\ old(p - 1) = n - 1
      BY <1>5, <1>12
    <2> HIDE DEF old
    <2>2. /\ n - 1 \in 1 .. len /\ n + 1 \in 1 .. len /\ n # len /\ n - 1 < n /\ n + 1 # 1
          /\ (n + 1) - 1 = n
      BY <1>5, <1>12
    <2>3. ~q[n].isBlocked
      BY <1>1, <2>2
    <2>4. ~q[n - 1].isBlocked /\ q[n - 1].isReader
      BY <1>1, <2>2, <2>3 DEF Exclusive
    <2>5. ~q[n + 1].isReader /\ q[n + 1].isBlocked
      BY <1>9, <2>1, <2>4
    <2>6. ~CanEnter(q, n + 1)
      BY <2>2, <2>5 DEF CanEnter
    <2>7. q[n + 1].tid = a /\ q[old(m)].tid = u /\ old(m) \in 1 .. (n + 1) - 1
      BY <1>8, <1>10, <2>1
    <2> QED
      BY <1>1, <2>2, <2>5, <2>6, <2>7 DEF Behind
  <1> QED
    BY <1>11, <1>12

-----------------------------------------------------------------------------
(* The steps other than a starting wait add to nobody else's waits.         *)

\* Every place, and what it was about, but t's.
OthersStay(t) ==
    \A u \in Workers : u # t =>
        pc'[u] = pc[u] /\ stage'[u] = stage[u] /\ pick'[u] = pick[u]

FewerBehind(t) ==
    \A r \in Records : \A a, u \in Workers :
        a # t /\ Behind(threadQueue'[r], a, u) => Behind(threadQueue[r], a, u)

LEMMA OthersWaitLess ==
    ASSUME LockInv, LockInv', NEW t \in Workers, OthersStay(t), FewerBehind(t)
    PROVE  \A a, u \in Workers : a # t /\ WaitsFor(a, u)' => WaitsFor(a, u)
  <1> SUFFICES ASSUME NEW a \in Workers, NEW u \in Workers, a # t, WaitsFor(a, u)'
               PROVE  WaitsFor(a, u)
    OBVIOUS
  <1>1. /\ pc'[a] \in {"yield", "poll"} /\ Target(a)' \in Records
        /\ Behind(threadQueue'[Target(a)'], a, u)
    BY FactsAfter DEF WaitsForIs
  <1>2. Target(a)' = Target(a) /\ pc'[a] = pc[a]
    BY DEF OthersStay, Target
  <1>3. Behind(threadQueue[Target(a)], a, u)
    BY <1>1, <1>2 DEF FewerBehind
  <1> QED
    BY <1>1, <1>2, <1>3, WaitsForFacts DEF WaitsForIs

LEMMA NoNewWaits ==
    ASSUME NoUndetectedDeadlock,
           \A a, u \in Workers : WaitsFor(a, u)' => WaitsFor(a, u)
    PROVE  NoUndetectedDeadlock'
  <1> SUFFICES ASSUME NEW S \in (SUBSET Workers) \ {{}}
               PROVE  \E a \in S : \A u \in S : ~WaitsFor(a, u)'
    BY DEF NoUndetectedDeadlock
  <1>1. PICK a \in S : \A u \in S : ~WaitsFor(a, u)
    BY DEF NoUndetectedDeadlock
  <1>2. a \in Workers /\ S \subseteq Workers
    OBVIOUS
  <1> QED
    BY <1>1, <1>2

\* A step of the worker that owns the mutex; nobody else is in a rollback.
LEMMA OwnerRefused ==
    ASSUME LockInv, LockInv', NEW t \in Workers,
           pc[t] \in {"request", "poll", "commit", "rollback"}, OthersStay(t),
           pc'[t] = "rollback" =>
             \A r \in Records : \A p \in DOMAIN threadQueue'[r] :
               threadQueue'[r][p].tid = t /\ threadQueue'[r][p].isBlocked =>
                 p = Len(threadQueue'[r])
    PROVE  RefusedLast'
  <1>1. mutex = t
    BY DEF LockInv, MutexInv
  <1>2. \A u \in Workers : u # t => pc'[u] # "rollback"
    BY <1>1 DEF OthersStay, LockInv, MutexInv
  <1> QED
    BY <1>2 DEF RefusedLast

LEMMA OwnerKeeps ==
    ASSUME LockInv, LockInv', NoUndetectedDeadlock, NEW t \in Workers,
           pc[t] \in {"request", "poll", "commit", "rollback"}, OthersStay(t),
           pc'[t] \notin {"yield", "poll"}, FewerBehind(t)
    PROVE  NoUndetectedDeadlock'
  <1>1. \A a, u \in Workers : a # t /\ WaitsFor(a, u)' => WaitsFor(a, u)
    BY OthersWaitLess
  <1>2. \A u \in Workers : ~WaitsFor(t, u)'
    BY DEF WaitsFor
  <1> QED
    BY <1>1, <1>2, NoNewWaits

\* A step that leaves the lock table alone.
LEMMA QuietKeeps ==
    ASSUME DeadlockInv, LockInv', NEW t \in Workers, UNCHANGED threadQueue, OthersStay(t),
           pc'[t] \in {"yield", "poll"} =>
             pc[t] \in {"yield", "poll"} /\ Target(t)' = Target(t),
           pc'[t] = "rollback" => pc[t] \in {"commit", "rollback"}
    PROVE  DeadlockInv'
  <1> USE DEF DeadlockInv
  <1>1. NoUndetectedDeadlock'
    <2>1. ASSUME NEW a \in Workers, NEW u \in Workers, WaitsFor(a, u)'
          PROVE  WaitsFor(a, u)
      <3>1. /\ pc'[a] \in {"yield", "poll"} /\ Target(a)' \in Records
            /\ Behind(threadQueue'[Target(a)'], a, u)
        BY <2>1, FactsAfter DEF WaitsForIs
      <3>2. Target(a)' = Target(a) /\ pc[a] \in {"yield", "poll"}
        BY <3>1 DEF OthersStay, Target
      <3> QED
        BY <3>1, <3>2, WaitsForFacts DEF WaitsForIs
    <2> QED
      BY <2>1, NoNewWaits
  <1>2. RefusedLast'
    <2> SUFFICES ASSUME NEW u \in Workers, pc'[u] = "rollback", NEW r \in Records,
                        NEW p \in DOMAIN threadQueue[r],
                        threadQueue[r][p].tid = u, threadQueue[r][p].isBlocked
                 PROVE  p = Len(threadQueue[r])
      BY DEF RefusedLast
    <2>1. pc[u] \in {"yield", "poll", "rollback"}
      BY BlockedFacts DEF BlockedAreTargets
    <2>2. pc[u] = "rollback"
      BY <2>1 DEF OthersStay
    <2> QED
      BY <2>2 DEF RefusedLast
  <1> QED
    BY <1>1, <1>2

LEMMA QuietStepKeeps ==
    ASSUME DeadlockInv, LockInv', NEW t \in Workers,
           \/ Begin(t) \/ EnterRequest(t) \/ Relock(t) \/ PollFails(t)
           \/ ReadRecord(t) \/ UpdateRecord(t) \/ EnterCommit(t)
           \/ OverrunCommit(t) \/ UndoUpdate(t) \/ CountDeadlock(t)
    PROVE  DeadlockInv'
  <1> USE DEF Goto
  <1>1. /\ pc \in [Workers -> Places] /\ stage \in [Workers -> Stage]
        /\ pick \in [Workers -> Picks \union {<<>>}]
    BY DEF DeadlockInv, LockInv, TypeOK, WorkersTypeOK
  <1>2. CASE Begin(t)
    <2>1. OthersStay(t) /\ pc'[t] = "enter" /\ UNCHANGED threadQueue
      BY <1>1, <1>2 DEF Begin, OthersStay, lockTableVars
    <2> QED
      BY <2>1, QuietKeeps
  <1>3. CASE EnterRequest(t)
    <2>1. OthersStay(t) /\ pc'[t] = "request" /\ UNCHANGED threadQueue
      BY <1>1, <1>3 DEF EnterRequest, OthersStay, lockTableVars
    <2> QED
      BY <2>1, QuietKeeps
  <1>4. CASE Relock(t) \/ PollFails(t)
    <2>1. OthersStay(t) /\ pc'[t] \in {"yield", "poll"} /\ UNCHANGED threadQueue
          /\ Target(t)' = Target(t) /\ pc[t] \in {"yield", "poll"}
      BY <1>1, <1>4 DEF Relock, PollFails, OthersStay, lockTableVars, Target
    <2> QED
      BY <2>1, QuietKeeps
  <1>5. CASE ReadRecord(t)
    <2>1. OthersStay(t) /\ pc'[t] \in {"enter", "update"} /\ UNCHANGED threadQueue
      BY <1>1, <1>5 DEF ReadRecord, OthersStay, lockTableVars
    <2> QED
      BY <2>1, QuietKeeps
  <1>6. CASE UpdateRecord(t)
    <2>1. OthersStay(t) /\ pc'[t] \in {"enter", "finish"} /\ UNCHANGED threadQueue
      BY <1>1, <1>6 DEF UpdateRecord, OthersStay, lockTableVars
    <2> QED
      BY <2>1, QuietKeeps
  <1>7. CASE EnterCommit(t)
    <2>1. OthersStay(t) /\ pc'[t] = "commit" /\ UNCHANGED threadQueue
      BY <1>1, <1>7 DEF EnterCommit, OthersStay, lockTableVars
    <2> QED
      BY <2>1, QuietKeeps
  <1>8. CASE OverrunCommit(t)
    <2>1. OthersStay(t) /\ pc'[t] = "rollback" /\ pc[t] = "commit" /\ UNCHANGED threadQueue
      BY <1>1, <1>8 DEF OverrunCommit, OthersStay, lockTableVars
    <2> QED
      BY <2>1, QuietKeeps
  <1>9. CASE UndoUpdate(t)
    <2>1. OthersStay(t) /\ pc'[t] = "rollback" /\ pc[t] = "rollback" /\ UNCHANGED threadQueue
      BY <1>1, <1>9 DEF UndoUpdate, OthersStay, lockTableVars
    <2> QED
      BY <2>1, QuietKeeps
  <1>10. CASE CountDeadlock(t)
    <2>1. OthersStay(t) /\ pc'[t] = "begin" /\ UNCHANGED threadQueue
      BY <1>1, <1>10 DEF CountDeadlock, OthersStay, lockTableVars
    <2> QED
      BY <2>1, QuietKeeps
  <1> QED
    BY <1>2, <1>3, <1>4, <1>5, <1>6, <1>7, <1>8, <1>9, <1>10

LEMMA GrantedKeepsWaits ==
    ASSUME DeadlockInv, LockInv', NEW t \in Workers, LockGranted(t)
    PROVE  DeadlockInv'
  <1> USE DEF DeadlockInv
  <1> DEFINE r == Target(t)
             q == threadQueue[r]
             asked == AddLock(q, t, WantsReadLock(t))
  <1>1. OthersStay(t) /\ pc'[t] = "read" /\ pc[t] = "request"
    BY DEF LockGranted, Goto, OthersStay, LockInv, TypeOK, WorkersTypeOK
  <1>2. r \in Records /\ WantsReadLock(t) \in BOOLEAN /\ q \in Seq(LockElement)
        /\ threadQueue \in [Records -> Seq(LockElement)]
    BY <1>1, TargetIsNew DEF LockInv, TypeOK, LockTableTypeOK
  <1>3. Requested(t, r, WantsReadLock(t)) = [threadQueue EXCEPT ![r] = asked]
        /\ Requested(t, r, WantsReadLock(t))[r] = asked
    BY <1>2 DEF Requested
  <1>4. threadQueue' = [threadQueue EXCEPT ![r] = Enter(asked, Len(asked))]
    BY <1>2, <1>3 DEF LockGranted, Grant
  <1>5. /\ threadQueue'[r] = Enter(asked, Len(asked))
        /\ \A s \in Records : s # r => threadQueue'[s] = threadQueue[s]
    BY <1>2, <1>4
  <1> HIDE DEF q, r
  <1>6. /\ asked \in Seq(LockElement) /\ Len(asked) \in DOMAIN asked
        /\ asked[Len(asked)].tid = t
    <2>1. /\ asked \in Seq(LockElement) /\ Len(asked) = Len(q) + 1 /\ Len(q) \in Nat
          /\ asked[Len(q) + 1] = [tid |-> t, isReader |-> WantsReadLock(t), isBlocked |-> TRUE]
      BY <1>2, AddLockType
    <2> HIDE DEF asked
    <2> QED
      BY <2>1
  <1>7. FewerBehind(t)
    <2> SUFFICES ASSUME NEW s \in Records, NEW a \in Workers, NEW u \in Workers, a # t,
                        Behind(threadQueue'[s], a, u)
                 PROVE  Behind(threadQueue[s], a, u)
      BY DEF FewerBehind
    <2>1. CASE s = r
      <3>1. Behind(asked, a, u)
        BY <1>5, <1>6, <2>1, BehindEntered
      <3>2. Behind(q, a, u)
        BY <1>2, <3>1, BehindAdded
      <3> QED
        BY <2>1, <3>2 DEF q
    <2>2. CASE s # r
      BY <1>5, <2>2
    <2> QED
      BY <2>1, <2>2
  <1> QED
    BY <1>1, <1>7, OwnerRefused, OwnerKeeps

LEMMA RefusedKeepsWaits ==
    ASSUME DeadlockInv, LockInv', NEW t \in Workers, LockRefused(t)
    PROVE  DeadlockInv'
  <1> USE DEF DeadlockInv
  <1> DEFINE r == Target(t)
             q == threadQueue[r]
             asked == AddLock(q, t, WantsReadLock(t))
  <1>1. OthersStay(t) /\ pc'[t] = "rollback" /\ pc[t] = "request"
    BY DEF LockRefused, Goto, OthersStay, LockInv, TypeOK, WorkersTypeOK
  <1>2. r \in Records /\ WantsReadLock(t) \in BOOLEAN /\ q \in Seq(LockElement)
        /\ threadQueue \in [Records -> Seq(LockElement)]
    BY <1>1, TargetIsNew DEF LockInv, TypeOK, LockTableTypeOK
  <1>3. threadQueue' = [threadQueue EXCEPT ![r] = asked]
    BY <1>2 DEF LockRefused, Refuse, Requested
  <1>4. /\ threadQueue'[r] = asked
        /\ \A s \in Records : s # r => threadQueue'[s] = threadQueue[s]
    BY <1>2, <1>3
  <1>5. t \notin Tids(q) /\ \A s \in Records : \A p \in DOMAIN threadQueue[s] :
          threadQueue[s][p].tid = t => ~threadQueue[s][p].isBlocked
    <2>1. t \notin Tids(q)
      BY <1>1, <1>2, TargetIsNew DEF LockInv, TokensMatchQueues
    <2> QED
      BY <1>1, <2>1, BlockedFacts DEF BlockedAreTargets
  <1> HIDE DEF q, r
  <1>6. /\ Len(asked) = Len(q) + 1 /\ Len(q) \in Nat /\ DOMAIN asked = 1 .. Len(q) + 1
        /\ DOMAIN q = 1 .. Len(q)
        /\ \A p \in 1 .. Len(q) : asked[p] = q[p]
    BY <1>2, AddedAt
  <1>7. FewerBehind(t)
    BY <1>2, <1>4, BehindAdded DEF FewerBehind, q
  <1> HIDE DEF asked
  <1>8. ASSUME NEW s \in Records, NEW p \in DOMAIN threadQueue'[s],
               threadQueue'[s][p].tid = t, threadQueue'[s][p].isBlocked
        PROVE  p = Len(threadQueue'[s])
    <2>1. CASE s = r
      <3>1. p \in 1 .. Len(q) + 1
        BY <1>4, <1>6, <1>8, <2>1
      <3>2. p \notin 1 .. Len(q)
        BY <1>4, <1>5, <1>6, <1>8, <2>1 DEF Tids
      <3> QED
        BY <1>4, <1>6, <2>1, <3>1, <3>2
    <2>2. CASE s # r
      BY <1>4, <1>5, <1>8, <2>2
    <2> QED
      BY <2>1, <2>2
  <1> QED
    BY <1>1, <1>7, <1>8, OwnerRefused, OwnerKeeps

LEMMA PassesKeepsWaits ==
    ASSUME DeadlockInv, LockInv', NEW t \in Workers, PollPasses(t)
    PROVE  DeadlockInv'
  <1> USE DEF DeadlockInv
  <1> DEFINE r == Target(t)
             q == threadQueue[r]
  <1>1. OthersStay(t) /\ pc'[t] = "read" /\ pc[t] = "poll"
    BY DEF PollPasses, Goto, OthersStay, LockInv, TypeOK, WorkersTypeOK
  <1>2. /\ Active(t) /\ pick[t] \in Picks /\ Len(adj[t]) = stage[t]
        /\ \A n \in DOMAIN adj[t] : adj[t][n] = pick[t][n]
    BY <1>1 DEF LockInv, ProgressInv, Progress, Active
  <1>3. stage[t] \in {1, 2, 3} /\ DOMAIN adj[t] = 1 .. stage[t]
    BY <1>2, WorkerType DEF LockInv
  <1>4. r \in Records /\ r \in ToSet(adj[t])
    <2>1. r = adj[t][stage[t]] /\ stage[t] \in DOMAIN adj[t]
      BY <1>2, <1>3 DEF Target
    <2> QED
      BY <1>2, <1>3, <2>1, PickFacts DEF Target, Stage, ToSet
  <1>5. q \in Seq(LockElement) /\ t \in Tids(q)
        /\ threadQueue \in [Records -> Seq(LockElement)]
    BY <1>4 DEF LockInv, TypeOK, LockTableTypeOK, TokensMatchQueues
  <1>6. threadQueue' = [threadQueue EXCEPT ![r] = Enter(q, Position(q, t))]
    BY DEF PollPasses, Pass
  <1>7. /\ threadQueue'[r] = Enter(q, Position(q, t))
        /\ \A s \in Records : s # r => threadQueue'[s] = threadQueue[s]
    BY <1>4, <1>5, <1>6
  <1>8. Position(q, t) \in DOMAIN q /\ q[Position(q, t)].tid = t
    BY <1>5, PositionOf
  <1>9. FewerBehind(t)
    <2> SUFFICES ASSUME NEW s \in Records, NEW a \in Workers, NEW u \in Workers, a # t,
                        Behind(threadQueue'[s], a, u)
                 PROVE  Behind(threadQueue[s], a, u)
      BY DEF FewerBehind
    <2> HIDE DEF q
    <2>1. CASE s = r
      <3>1. Behind(q, a, u)
        BY <1>5, <1>7, <1>8, <2>1, BehindEntered
      <3> QED
        BY <2>1, <3>1 DEF q
    <2>2. CASE s # r
      BY <1>7, <2>2
    <2> QED
      BY <2>1, <2>2
  <1> QED
    BY <1>1, <1>9, OwnerRefused, OwnerKeeps

LEMMA ReturnKeepsWaits ==
    ASSUME DeadlockInv, LockInv', NEW t \in Workers, Commit(t) \/ EndRollback(t)
    PROVE  DeadlockInv'
  <1> USE DEF DeadlockInv
  <1>1. OthersStay(t) /\ pc'[t] \in {"begin", "deadlock", "done"}
        /\ pc[t] \in {"commit", "rollback"}
    BY DEF Commit, EndRollback, Return, Goto, OthersStay, LockInv, TypeOK, WorkersTypeOK
  <1>2. UnlockAll(t)
    BY DEF Commit, EndRollback
  <1>3. FewerBehind(t)
    <2> SUFFICES ASSUME NEW r \in Records, NEW a \in Workers, NEW u \in Workers,
                        Behind(threadQueue'[r], a, u)
                 PROVE  Behind(threadQueue[r], a, u)
      BY DEF FewerBehind
    <2> DEFINE q == threadQueue[r]
    <2>1. q \in Seq(LockElement) /\ Exclusive(q) /\ (r \in ToSet(adj[t]) <=> t \in Tids(q))
      BY DEF LockInv, TypeOK, LockTableTypeOK, HoldersExclude, TokensMatchQueues
    <2>2. CASE r \in ToSet(adj[t])
      <3>1. threadQueue'[r] = Unlock(q, t)
        BY <1>2, <2>2 DEF UnlockAll
      <3>2. \A p \in DOMAIN q : q[p].tid = t => ~q[p].isBlocked \/ p = Len(q)
        <4> SUFFICES ASSUME NEW p \in DOMAIN q, q[p].tid = t, q[p].isBlocked
                     PROVE  p = Len(q)
          OBVIOUS
        <4>1. pc[t] \in {"yield", "poll", "rollback"}
          BY BlockedFacts DEF BlockedAreTargets
        <4>2. pc[t] = "rollback"
          BY <1>1, <4>1
        <4> QED
          BY <4>2 DEF RefusedLast
      <3> HIDE DEF q
      <3>3. Behind(q, a, u)
        BY <2>1, <2>2, <3>1, <3>2, BehindUnlocked
      <3> QED
        BY <3>3 DEF q
    <2>3. CASE r \notin ToSet(adj[t])
      BY <1>2, <2>3 DEF UnlockAll
    <2> QED
      BY <2>2, <2>3
  <1> QED
    BY <1>1, <1>3, OwnerRefused, OwnerKeeps

-----------------------------------------------------------------------------
(* A wait that starts: hasCycle has visited whoever matters.                *)

\* Between an element not of V and one of V further back there are two
\* neighbours of which that is true.
LEMMA Neighbours ==
    ASSUME NEW q, NEW p \in Nat, NEW m \in 1 .. p - 1, NEW V,
           q[m].tid \notin V, q[p].tid \in V
    PROVE  \E n \in m .. p - 1 : q[n].tid \notin V /\ q[n + 1].tid \in V
  <1> SUFFICES ASSUME \A n \in m .. p - 1 : q[n].tid \notin V => q[n + 1].tid \notin V
               PROVE  FALSE
    OBVIOUS
  <1> DEFINE S == {k \in Nat : m + k <= p => q[m + k].tid \notin V}
  <1>1. 0 \in S
    OBVIOUS
  <1>2. ASSUME NEW k \in S PROVE k + 1 \in S
    <2> SUFFICES ASSUME m + (k + 1) <= p PROVE q[m + (k + 1)].tid \notin V
      OBVIOUS
    <2>1. m + k \in m .. p - 1 /\ m + k <= p /\ (m + k) + 1 = m + (k + 1)
      OBVIOUS
    <2>2. q[m + k].tid \notin V
      BY <2>1
    <2> QED
      BY <2>1, <2>2
  <1>3. p - m \in S
    <2> HIDE DEF S
    <2>1. S \in SUBSET Nat /\ p - m \in Nat
      BY DEF S
    <2> QED
      BY <1>1, <1>2, <2>1, Successors
  <1>4. m + (p - m) = p
    OBVIOUS
  <1> QED
    BY <1>3, <1>4

\* Who has passed as a reader beside P.
ReadsBeside(queues, P, u) ==
    \E r \in Records : \E m, n \in DOMAIN queues[r] :
        /\ queues[r][m].tid = P /\ ~queues[r][m].isBlocked /\ queues[r][m].isReader
        /\ queues[r][n].tid = u /\ ~queues[r][n].isBlocked /\ queues[r][n].isReader

\* The workers V that the search has visited, in terms of the queues.
VisitedBehind(queues, t, P, V) ==
    \A r \in Records : \A n \in DOMAIN queues[r] :
        n > 1 /\ queues[r][n].tid \in V =>
            \/ queues[r][n - 1].tid \in V
            \/ /\ queues[r][n - 1].tid = t /\ ~queues[r][n].isBlocked
               /\ queues[r][n].tid = P \/ ReadsBeside(queues, P, queues[r][n].tid)

LEMMA TokenAt ==
    ASSUME NEW q \in Seq(LockElement), DistinctTids(q), NEW queues, NEW tokens,
           NEW w, NEW k, queues[tokens[w][k]] = q, NEW n \in DOMAIN q, q[n].tid = w
    PROVE  /\ First(queues, tokens, w, k) <=> n = 1
           /\ n > 1 => InFront(queues, tokens, w, k) = q[n - 1].tid
           /\ Waits(queues, tokens, w, k) = q[n].isBlocked
  <1>1. Position(q, w) = n
    BY PositionIs
  <1> QED
    BY <1>1 DEF First, InFront, Waits

\* What hasCycle has made sure of when a worker starts to wait.
LEMMA Visited ==
    ASSUME LockInv, LockInv', NEW t \in Workers, LockWaits(t)
    PROVE  \E r \in Records : \E L \in Nat : \E P \in Workers :
             /\ r = Target(t) /\ L > 1 /\ DOMAIN threadQueue'[r] = 1 .. L
             /\ threadQueue'[r][L].tid = t /\ threadQueue'[r][L].isBlocked
             /\ threadQueue'[r][L - 1].tid = P /\ P # t
             /\ DOMAIN threadQueue[r] = 1 .. L - 1
             /\ \A n \in 1 .. L - 1 : threadQueue'[r][n] = threadQueue[r][n]
             /\ \E V \in SUBSET Workers :
                  P \in V /\ t \notin V /\ VisitedBehind(threadQueue', t, P, V)
  <1> DEFINE r == Target(t)
             L == Len(threadQueue'[r])
             P == threadQueue'[r][L - 1].tid
             queues == threadQueue'
             tokens == adj'
             q == threadQueue[r]
             b == WantsReadLock(t)
  <1>1. r \in Records /\ b \in BOOLEAN /\ q \in Seq(LockElement) /\ t \notin Tids(q)
        /\ threadQueue \in [Records -> Seq(LockElement)]
    BY TargetIsNew DEF LockWaits, LockInv, TypeOK, LockTableTypeOK, TokensMatchQueues
  <1>2. /\ queues = Requested(t, r, b) /\ tokens = TokensWith(t, r)
        /\ ~CanEnter(queues[r], L) /\ ~HasCycle(queues, tokens, t, r)
    BY DEF LockWaits, StartWaiting
  <1>3. queues[r] = AddLock(q, t, b) /\ \A s \in Records : s # r => queues[s] = threadQueue[s]
    BY <1>1, <1>2 DEF Requested
  <1>4. /\ queues \in [Records -> Seq(LockElement)] /\ tokens \in [Workers -> Seq(Records)]
        /\ \A s \in Records : Exclusive(queues[s]) /\ DistinctTids(queues[s])
        /\ \A s \in Records : \A u \in Workers :
             s \in ToSet(tokens[u]) <=> u \in Tids(queues[s])
    BY DEF LockInv, TypeOK, LockTableTypeOK, HoldersExclude, TokensMatchQueues
  <1>5. SearchTable(queues, tokens)
    BY FactsAfter DEF SearchTableOK
  <1>6. ReadsOneRecord'
    BY FactsAfter
  <1>7. ReadsOneRecord' => \A u \in Workers : \A s1, s2 \in Records :
          Reads(queues[s1], u) /\ Reads(queues[s2], u) => s1 = s2
    BY DEF ReadsOneRecord
  <1> HIDE DEF queues, tokens, q, r, L, P
  <1>8. /\ Len(q) \in Nat /\ L = Len(q) + 1 /\ DOMAIN queues[r] = 1 .. L
        /\ DOMAIN q = 1 .. Len(q)
        /\ \A n \in 1 .. Len(q) : queues[r][n] = q[n]
        /\ queues[r][L].tid = t /\ queues[r][L].isBlocked
        /\ queues[r][L].isReader = b
    <2>1. L = Len(AddLock(q, t, b))
      BY <1>3 DEF queues, L
    <2> QED
      BY <1>1, <1>3, <2>1, AddedAt
  <1>9. L \in Nat /\ L > 1
    <2>1. L # 1
      BY <1>2, <1>8 DEF CanEnter
    <2> QED
      BY <1>8, <2>1
  <1>10. P = q[L - 1].tid /\ L - 1 \in 1 .. Len(q)
    BY <1>8, <1>9 DEF queues, P
  <1>11. P \in Workers /\ P # t
    <2>1. q[L - 1] \in LockElement /\ L - 1 \in DOMAIN q
      BY <1>1, <1>10
    <2> QED
      BY <1>1, <1>10, <2>1 DEF Tids, LockElement
  <1>12. ~DetectCycle(queues, tokens, t, P)
    BY <1>2 DEF HasCycle, queues, L, P
  <1> DEFINE Z == {u \in Workers : u = P \/ ReadsBeside(queues, P, u)}
  <1>13. PassedClosed(queues, tokens, Z)
    <2> SUFFICES ASSUME NEW w \in Workers, w \in Z, NEW k \in 1 .. Len(tokens[w]),
                        ~First(queues, tokens, w, k), ~Waits(queues, tokens, w, k)
                 PROVE  InFront(queues, tokens, w, k) \in Z
      BY DEF PassedClosed
    <2> DEFINE s == tokens[w][k]
    <2>1. s \in Records /\ w \in Tids(queues[s]) /\ queues[s] \in Seq(LockElement)
          /\ DistinctTids(queues[s]) /\ Exclusive(queues[s])
      BY <1>4, <1>5 DEF SearchTable
    <2>2. PICK n \in DOMAIN queues[s] : queues[s][n].tid = w
      BY <2>1 DEF Tids
    <2>3. /\ n # 1 /\ ~queues[s][n].isBlocked
          /\ n > 1 => InFront(queues, tokens, w, k) = queues[s][n - 1].tid
      BY <2>1, <2>2, TokenAt
    <2> HIDE DEF s, Z
    <2>4. n \in 1 .. Len(queues[s]) /\ Len(queues[s]) \in Nat
          /\ DOMAIN queues[s] = 1 .. Len(queues[s])
      BY <2>1, <2>2
    <2>5. n > 1 /\ n - 1 \in DOMAIN queues[s] /\ n - 1 < n
      BY <2>3, <2>4
    <2>6. /\ ~queues[s][n - 1].isBlocked /\ queues[s][n - 1].isReader /\ queues[s][n].isReader
          /\ queues[s][n - 1].tid \in Workers
      <3>1. queues[s][n - 1] \in LockElement
        BY <2>1, <2>5
      <3> QED
        BY <2>1, <2>3, <2>5, <3>1 DEF Exclusive, LockElement
    <2>7. \E m \in DOMAIN queues[s] : queues[s][m].tid = P /\ ~queues[s][m].isBlocked
            /\ queues[s][m].isReader
      <3>1. CASE w = P
        BY <2>2, <2>3, <2>6, <3>1
      <3>2. CASE w # P
        <4>1. PICK s2 \in Records : \E m, i \in DOMAIN queues[s2] :
                /\ queues[s2][m].tid = P /\ ~queues[s2][m].isBlocked /\ queues[s2][m].isReader
                /\ queues[s2][i].tid = w /\ ~queues[s2][i].isBlocked /\ queues[s2][i].isReader
          BY <3>2 DEF ReadsBeside, Z
        <4>2. Reads(queues[s2], w) /\ Reads(queues[s], w)
          BY <2>2, <2>6, <4>1 DEF Reads
        <4>3. s2 = s
          BY <1>6, <1>7, <2>1, <4>2
        <4> QED
          BY <4>1, <4>3
      <3> QED
        BY <3>1, <3>2
    <2>8. ReadsBeside(queues, P, queues[s][n - 1].tid)
      BY <2>1, <2>5, <2>6, <2>7 DEF ReadsBeside
    <2> QED
      BY <2>3, <2>5, <2>6, <2>8 DEF Z
  <1>14. P \in Z
    BY <1>11
  <1> HIDE DEF Z
  <1>15. PICK V \in SUBSET Workers :
           /\ P \in V /\ t \notin V
           /\ \A w \in V : \A k \in 1 .. Len(tokens[w]) :
                Followed(queues, tokens, t, Z, V, w, k)
    BY <1>5, <1>11, <1>12, <1>13, <1>14, NoCycleFound
  <1>16. VisitedBehind(queues, t, P, V)
    <2> SUFFICES ASSUME NEW s \in Records, NEW n \in DOMAIN queues[s], n > 1,
                        queues[s][n].tid \in V
                 PROVE  \/ queues[s][n - 1].tid \in V
                        \/ /\ queues[s][n - 1].tid = t /\ ~queues[s][n].isBlocked
                           /\ \/ queues[s][n].tid = P
                              \/ ReadsBeside(queues, P, queues[s][n].tid)
      BY DEF VisitedBehind
    <2> DEFINE w == queues[s][n].tid
    <2>1. w \in Workers /\ w \in V /\ w \in Tids(queues[s])
      BY DEF Tids
    <2>2. s \in ToSet(tokens[w])
      BY <1>4, <2>1
    <2>3. PICK k \in DOMAIN tokens[w] : tokens[w][k] = s
      BY <2>2 DEF ToSet
    <2>4. k \in 1 .. Len(tokens[w])
      BY <1>4, <2>1, <2>3
    <2>5. Followed(queues, tokens, t, Z, V, w, k)
      BY <1>15, <2>1, <2>4
    <2>6. /\ ~First(queues, tokens, w, k)
          /\ InFront(queues, tokens, w, k) = queues[s][n - 1].tid
          /\ Waits(queues, tokens, w, k) = queues[s][n].isBlocked
      <3>1. queues[s] \in Seq(LockElement) /\ DistinctTids(queues[s])
            /\ queues[tokens[w][k]] = queues[s] /\ n # 1
        BY <1>4, <2>3
      <3> HIDE DEF w
      <3> QED
        BY <3>1, TokenAt DEF w
    <2> QED
      BY <2>5, <2>6 DEF Followed, Z
  <1>17. \E W \in SUBSET Workers : P \in W /\ t \notin W /\ VisitedBehind(queues, t, P, W)
    BY <1>15, <1>16
  <1>18. /\ DOMAIN q = 1 .. L - 1 /\ \A n \in 1 .. L - 1 : queues[r][n] = q[n]
    BY <1>8
  <1>19. queues[r][L - 1].tid = P
    BY DEF queues, P
  <1> QED
    BY <1>1, <1>8, <1>9, <1>11, <1>17, <1>18, <1>19 DEF queues, q, r

\* Everyone in front of the worker that starts to wait has been visited.
LEMMA VisitedInFront ==
    ASSUME NEW queues, NEW t, NEW V, NEW r \in Records, NEW L \in Nat, L > 1,
           DOMAIN queues[r] = 1 .. L, DistinctTids(queues[r]),
           queues[r][L].tid = t, queues[r][L - 1].tid \in V,
           VisitedBehind(queues, t, queues[r][L - 1].tid, V)
    PROVE  \A m \in 1 .. L - 1 : queues[r][m].tid \in V
  <1> DEFINE q == queues[r]
             p == L - 1
  <1> SUFFICES ASSUME NEW m \in 1 .. p, q[m].tid \notin V PROVE FALSE
    OBVIOUS
  <1> HIDE DEF q
  <1>1. p \in Nat /\ m \in 1 .. p - 1
    BY DEF q
  <1> HIDE DEF p
  <1>2. PICK n \in m .. p - 1 : q[n].tid \notin V /\ q[n + 1].tid \in V
    BY <1>1, Neighbours DEF p, q
  <1>3. /\ n + 1 \in DOMAIN q /\ n \in DOMAIN q /\ L \in DOMAIN q /\ n # L
        /\ n + 1 > 1 /\ (n + 1) - 1 = n
    BY <1>1, <1>2 DEF p, q
  <1>4. q[n].tid = t
    BY <1>2, <1>3 DEF VisitedBehind, q
  <1> QED
    BY <1>3, <1>4 DEF DistinctTids, q

\* Who has been visited and waits for somebody who has not waits for P, which
\* has passed as a reader in another queue.
LEMMA VisitedWaits ==
    ASSUME NEW queues \in [Records -> Seq(LockElement)],
           \A s \in Records : Exclusive(queues[s]),
           NEW P \in Workers,
           \A s1, s2 \in Records :
             \A u \in Workers : Reads(queues[s1], u) /\ Reads(queues[s2], u) => s1 = s2,
           NEW t, NEW V, VisitedBehind(queues, t, P, V),
           NEW s \in Records, NEW a \in V, NEW u, u \notin V, Behind(queues[s], a, u)
    PROVE  /\ Behind(queues[s], a, P)
           /\ Reads(queues[s], P)
           /\ \E n \in DOMAIN queues[s] : queues[s][n].tid = t /\ ~queues[s][n].isBlocked
  <1> DEFINE q == queues[s]
  <1>1. PICK p \in DOMAIN q :
          /\ q[p].tid = a /\ ~CanEnter(q, p)
          /\ \E m \in 1 .. p - 1 : q[m].tid = u /\ (m = p - 1 \/ ~q[p].isReader)
    BY DEF Behind
  <1>2. PICK m \in 1 .. p - 1 : q[m].tid = u /\ (m = p - 1 \/ ~q[p].isReader)
    BY <1>1
  <1>3. q \in Seq(LockElement) /\ Exclusive(q)
    OBVIOUS
  <1> HIDE DEF q
  <1>4. DOMAIN q = 1 .. Len(q) /\ Len(q) \in Nat /\ p \in 1 .. Len(q) /\ q[p].isBlocked
    BY <1>1, <1>3 DEF CanEnter
  <1>5. p \in Nat /\ m \in Nat /\ m \in 1 .. p - 1 /\ q[m].tid \notin V /\ q[p].tid \in V
    <2>1. p \in Nat
      BY <1>4
    <2> QED
      BY <1>1, <1>2, <2>1
  <1>6. PICK n \in m .. p - 1 : q[n].tid \notin V /\ q[n + 1].tid \in V
    BY <1>5, Neighbours
  <1>7. /\ n + 1 \in DOMAIN q /\ n \in DOMAIN q /\ n < n + 1 /\ n + 1 > 1 /\ (n + 1) - 1 = n
        /\ n \in Nat
    BY <1>2, <1>4, <1>6
  <1>8. q[n].tid = t /\ ~q[n + 1].isBlocked
        /\ (q[n + 1].tid = P \/ ReadsBeside(queues, P, q[n + 1].tid))
    BY <1>6, <1>7 DEF VisitedBehind, q
  <1>9. ~q[n].isBlocked /\ q[n + 1].isReader
    BY <1>3, <1>7, <1>8 DEF Exclusive
  <1>10. n + 1 < p /\ ~q[p].isReader
    <2>1. n + 1 # p
      BY <1>4, <1>8
    <2>2. n \in Nat /\ m <= n /\ n <= p - 1
      BY <1>5, <1>6
    <2>3. ASSUME NEW x \in Nat, NEW y \in Nat, NEW z \in Nat, x <= y, y <= z - 1, y + 1 # z
          PROVE  y < z - 1 /\ x # z - 1 /\ y + 1 < z
      BY <2>3
    <2> QED
      BY <1>2, <1>5, <2>1, <2>2, <2>3
  <1>11. PICK x \in DOMAIN q : q[x].tid = P /\ ~q[x].isBlocked /\ q[x].isReader
    <2>1. CASE q[n + 1].tid = P
      BY <1>7, <1>8, <1>9, <2>1
    <2>2. CASE q[n + 1].tid # P
      <3>1. PICK r \in Records : \E i, j \in DOMAIN queues[r] :
              /\ queues[r][i].tid = P /\ ~queues[r][i].isBlocked /\ queues[r][i].isReader
              /\ queues[r][j].tid = q[n + 1].tid /\ ~queues[r][j].isBlocked
              /\ queues[r][j].isReader
        BY <1>8, <2>2 DEF ReadsBeside
      <3>2. q[n + 1].tid \in Workers
        <4>1. q[n + 1] \in LockElement
          BY <1>3, <1>7
        <4> QED
          BY <4>1 DEF LockElement
      <3>3. Reads(queues[r], q[n + 1].tid) /\ Reads(queues[s], q[n + 1].tid)
        BY <1>7, <1>9, <3>1 DEF Reads, q
      <3>4. r = s
        BY <3>2, <3>3
      <3> QED
        BY <3>1, <3>4 DEF q
    <2> QED
      BY <2>1, <2>2
  <1>12. x \in 1 .. p - 1
    <2>1. ~(p < x)
      BY <1>3, <1>4, <1>11 DEF Exclusive
    <2>2. p # x
      BY <1>4, <1>11
    <2> QED
      BY <1>4, <1>11, <2>1, <2>2
  <1>13. Behind(q, a, P)
    BY <1>1, <1>10, <1>11, <1>12 DEF Behind
  <1> QED
    BY <1>7, <1>8, <1>9, <1>11, <1>13 DEF Reads, q

LEMMA WaitsKeepsWaits ==
    ASSUME DeadlockInv, LockInv', NEW t \in Workers, LockWaits(t)
    PROVE  DeadlockInv'
  <1> USE DEF DeadlockInv
  <1>1. PICK r \in Records, L \in Nat, P \in Workers :
          /\ r = Target(t) /\ L > 1 /\ DOMAIN threadQueue'[r] = 1 .. L
          /\ threadQueue'[r][L].tid = t /\ threadQueue'[r][L].isBlocked
          /\ threadQueue'[r][L - 1].tid = P /\ P # t
          /\ DOMAIN threadQueue[r] = 1 .. L - 1
          /\ \A n \in 1 .. L - 1 : threadQueue'[r][n] = threadQueue[r][n]
          /\ \E V \in SUBSET Workers :
               P \in V /\ t \notin V /\ VisitedBehind(threadQueue', t, P, V)
    BY Visited
  <1> DEFINE q == threadQueue[r]
  <1>2. OthersStay(t) /\ pc'[t] = "yield" /\ pc[t] = "request" /\ Target(t)' = r
    BY <1>1 DEF LockWaits, Goto, OthersStay, LockInv, TypeOK, WorkersTypeOK, Target
  <1>3. r \in Records /\ WantsReadLock(t) \in BOOLEAN /\ q \in Seq(LockElement)
        /\ threadQueue \in [Records -> Seq(LockElement)]
    BY <1>1, <1>2, TargetIsNew DEF LockInv, TypeOK, LockTableTypeOK
  <1>4. /\ threadQueue'[r] = AddLock(q, t, WantsReadLock(t))
        /\ \A s \in Records : s # r => threadQueue'[s] = threadQueue[s]
    BY <1>1, <1>3 DEF LockWaits, StartWaiting, Requested
  <1>5. FewerBehind(t)
    BY <1>3, <1>4, BehindAdded DEF FewerBehind
  <1>6. RefusedLast'
    BY <1>2, OwnerRefused
  <1>7. \A a, u \in Workers : a # t /\ WaitsFor(a, u)' => WaitsFor(a, u)
    BY <1>2, <1>5, OthersWaitLess
  <1>8. PICK V \in SUBSET Workers :
          P \in V /\ t \notin V /\ VisitedBehind(threadQueue', t, P, V)
    BY <1>1
  <1>9. /\ threadQueue' \in [Records -> Seq(LockElement)]
        /\ \A s \in Records : Exclusive(threadQueue'[s]) /\ DistinctTids(threadQueue'[s])
    BY DEF LockInv, TypeOK, LockTableTypeOK, HoldersExclude, TokensMatchQueues
  <1>10. /\ \A a, u \in Workers : WaitsFor(a, u)' =>
              Target(a)' \in Records /\ Behind(threadQueue'[Target(a)'], a, u)
         /\ \A s1, s2 \in Records : \A u \in Workers :
              Reads(threadQueue'[s1], u) /\ Reads(threadQueue'[s2], u) => s1 = s2
    BY FactsAfter DEF WaitsForIs, ReadsOneRecord
  <1>11. \A a, u \in Workers : pc[a] \in {"yield", "poll"} /\ Target(a) \in Records
           /\ Behind(threadQueue[Target(a)], a, u) => WaitsFor(a, u)
    BY WaitsForFacts DEF WaitsForIs
  <1>12. \A a \in Workers : pc[a] # "rollback"
    BY <1>2 DEF LockInv, MutexInv
  <1>13. \A a \in Workers : \A p \in DOMAIN threadQueue[r] :
           threadQueue[r][p].tid = a /\ threadQueue[r][p].isBlocked =>
             pc[a] \in {"yield", "poll"} /\ r = Target(a)
    BY <1>3, <1>12, BlockedFacts DEF BlockedAreTargets
  <1>14. \A X \in SUBSET Workers : X # {} => \E a \in X : \A u \in X : ~WaitsFor(a, u)
    BY DEF NoUndetectedDeadlock
  <1>15. ASSUME NEW S \in SUBSET Workers, S # {}, \A a \in S : \E u \in S : WaitsFor(a, u)'
         PROVE  FALSE
    <2>1. t \in S
      BY <1>7, <1>14, <1>15
    <2>2. PICK s1 \in S : WaitsFor(t, s1)'
      BY <1>15, <2>1
    <2>3. \A n \in 1 .. L - 1 : threadQueue'[r][n].tid \in V
      <3> QED
        BY <1>3, <1>1, <1>8, <1>9, VisitedInFront
    <2>4. PICK m \in 1 .. L - 1 :
            threadQueue'[r][m].tid = s1 /\ (m = L - 1 \/ ~threadQueue'[r][L].isReader)
      <3>1. Behind(threadQueue'[r], t, s1)
        BY <1>2, <1>10, <2>2
      <3>2. \A p \in DOMAIN threadQueue'[r] : threadQueue'[r][p].tid = t => p = L
        <4>1. DistinctTids(threadQueue'[r]) /\ L \in DOMAIN threadQueue'[r]
          BY <1>3, <1>1, <1>9
        <4> QED
          BY <1>1, <4>1 DEF DistinctTids
      <3> QED
        BY <3>1, <3>2 DEF Behind
    <2> DEFINE G == V \cap S
    <2>5. s1 \in G
      BY <2>3, <2>4
    <2>6. ASSUME NEW a \in G, \A u \in G : ~WaitsFor(a, u)
          PROVE  WaitsFor(a, P) /\ \E s \in Records : s # r /\ Reads(threadQueue'[s], P)
      <3>1. a \in Workers /\ a \in V /\ a # t
        BY <1>8
      <3>2. PICK u \in S : WaitsFor(a, u)'
        BY <1>15
      <3>3. u \in Workers /\ u \notin V
        BY <1>7, <2>6, <3>1, <3>2
      <3> DEFINE s == Target(a)'
      <3>4. s \in Records /\ Behind(threadQueue'[s], a, u)
        BY <1>10, <3>1, <3>2, <3>3
      <3>5. s = Target(a) /\ pc'[a] = pc[a]
        BY <1>2, <3>1 DEF OthersStay, Target
      <3>6. pc'[a] \in {"yield", "poll"}
        BY <3>2 DEF WaitsFor
      <3> HIDE DEF s
      <3>7. /\ Behind(threadQueue'[s], a, P) /\ Reads(threadQueue'[s], P)
            /\ \E n \in DOMAIN threadQueue'[s] :
                 threadQueue'[s][n].tid = t /\ ~threadQueue'[s][n].isBlocked
        <4> DEFINE queues == threadQueue'
        <4>1. /\ queues \in [Records -> Seq(LockElement)]
              /\ \A s2 \in Records : Exclusive(queues[s2])
              /\ \A s2, s3 \in Records : \A u1 \in Workers :
                   Reads(queues[s2], u1) /\ Reads(queues[s3], u1) => s2 = s3
              /\ VisitedBehind(queues, t, P, V)
              /\ Behind(queues[s], a, u)
          BY <1>8, <1>9, <1>10, <3>4
        <4> HIDE DEF queues
        <4>2. /\ Behind(queues[s], a, P) /\ Reads(queues[s], P)
              /\ \E n \in DOMAIN queues[s] :
                   queues[s][n].tid = t /\ ~queues[s][n].isBlocked
          BY <3>1, <3>3, <3>4, <4>1, VisitedWaits
        <4> QED
          BY <4>2 DEF queues
      <3>8. s # r
        BY <1>3, <1>1, <1>9, <3>7 DEF DistinctTids
      <3>9. WaitsFor(a, P)
        BY <1>5, <1>1, <1>11, <3>1, <3>4, <3>5, <3>6, <3>7 DEF FewerBehind
      <3> QED
        BY <3>4, <3>7, <3>8, <3>9
    <2>7. G \in SUBSET Workers /\ G # {}
      BY <2>5
    <2>8. PICK a \in G : \A u \in G : ~WaitsFor(a, u)
      BY <1>14, <2>7
    <2>9. PICK s \in Records : s # r /\ Reads(threadQueue'[s], P)
      BY <2>6, <2>8
    <2>10. P \notin S
      BY <1>8, <2>6, <2>8
    <2>11. m # L - 1 /\ m < L - 1 /\ s1 # P
      BY <1>1, <2>4, <2>10
    <2>12. WaitsFor(P, s1)
      <3> DEFINE e == threadQueue'[r][L - 1]
      <3>1. L - 1 \in DOMAIN threadQueue'[r] /\ m \in DOMAIN threadQueue'[r]
            /\ L - 1 \in DOMAIN threadQueue[r]
        BY <1>1, <2>4
      <3>2. ~e.isReader
        BY <1>3, <1>1, <1>10, <2>9, <3>1 DEF Reads
      <3>3. e.isBlocked
        <4>1. threadQueue'[r] \in Seq(LockElement)
          BY <1>3, <1>9
        <4> QED
          BY <1>3, <1>9, <2>11, <3>1, <3>2 DEF Exclusive
      <3>4. e = threadQueue[r][L - 1] /\ threadQueue'[r][m] = threadQueue[r][m]
        BY <1>1, <2>4
      <3>5. pc[P] \in {"yield", "poll"} /\ r = Target(P)
        BY <1>1, <1>13, <3>1, <3>3, <3>4
      <3>6. ~CanEnter(threadQueue[r], L - 1)
        BY <1>1, <2>11, <3>2, <3>3, <3>4 DEF CanEnter
      <3>7. m \in 1 .. (L - 1) - 1
        BY <1>1, <2>4, <2>11
      <3>8. Behind(threadQueue[r], P, s1)
        BY <1>1, <2>4, <3>1, <3>2, <3>4, <3>6, <3>7 DEF Behind
      <3> QED
        BY <1>3, <1>1, <1>11, <3>5, <3>8
    <2> HIDE DEF G
    <2>13. \A a1 \in G \union {P} : \E u \in G \union {P} : WaitsFor(a1, u)
      BY <2>5, <2>6, <2>12
    <2>14. G \union {P} \in SUBSET Workers /\ G \union {P} # {}
      BY <2>7
    <2> DEFINE X == G \union {P}
    <2> HIDE DEF X
    <2>15. X \in SUBSET Workers /\ X # {} /\ \A a1 \in X : \E u \in X : WaitsFor(a1, u)
      BY <2>13, <2>14 DEF X
    <2> QED
      BY <1>14, <2>15
  <1>16. NoUndetectedDeadlock'
    BY <1>15 DEF NoUndetectedDeadlock
  <1> QED
    BY <1>6, <1>16

LEMMA InitDeadlockInv == Init => DeadlockInv
  <1> SUFFICES ASSUME Init PROVE DeadlockInv
    OBVIOUS
  <1>1. LockInv
    BY InitLockInv
  <1>2. \A t \in Workers : pc[t] = "begin"
    BY DEF Init
  <1>3. RefusedLast /\ NoUndetectedDeadlock
    BY <1>2 DEF RefusedLast, NoUndetectedDeadlock, WaitsFor
  <1> QED
    BY <1>1, <1>3 DEF DeadlockInv

LEMMA NextDeadlockInv == DeadlockInv /\ [Next]_vars => DeadlockInv'
  <1> SUFFICES ASSUME DeadlockInv, [Next]_vars PROVE DeadlockInv'
    OBVIOUS
  <1>1. LockInv'
    BY NextLockInv DEF DeadlockInv
  <1>2. CASE UNCHANGED vars
    BY <1>1, <1>2 DEF vars, lockTableVars, globalVars, workerVars, DeadlockInv, RefusedLast,
         NoUndetectedDeadlock, WaitsFor, CanPass, Target
  <1>3. ASSUME NEW t \in Workers, Step(t) PROVE DeadlockInv'
    BY <1>1, <1>3, QuietStepKeeps, GrantedKeepsWaits, RefusedKeepsWaits, WaitsKeepsWaits,
       PassesKeepsWaits, ReturnKeepsWaits DEF Step
  <1> QED
    BY <1>2, <1>3 DEF Next, Terminating

\* The mutex, the queues and the waits of any number of workers are in order in
\* every state, and nobody queues behind a request that hasCycle refused.
THEOREM DeadlockInvAlways == Spec => []DeadlockInv
  BY InitDeadlockInv, NextDeadlockInv, PTL DEF Spec

\* LockTable::hasCycle, run once when a worker starts to wait, misses no
\* deadlock: never does each of a group of workers wait for another of them.
THEOREM DeadlocksDetected == Spec => []NoUndetectedDeadlock
  <1>1. DeadlockInv => NoUndetectedDeadlock
    BY DEF DeadlockInv
  <1> QED
    BY <1>1, DeadlockInvAlways, PTL
=============================================================================
