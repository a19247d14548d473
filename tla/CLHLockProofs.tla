----------------------------- MODULE CLHLockProofs -----------------------------
(****************************************************************************)
(* Theorems about the CLH lock, for every number of threads and of rounds.  *)
(****************************************************************************)
EXTENDS CLHLock, FiniteSetTheorems, TLAPS

\* The empty queue is the one of length 0.
LEMMA EmptyQueue ==
  ASSUME NEW S, NEW q \in Seq(S)
  PROVE  q = <<>> <=> Len(q) = 0
  OBVIOUS

\* What Append does to the queue.
LEMMA AppendQueue ==
  ASSUME NEW S, NEW q \in Seq(S), NEW x \in S
  PROVE  /\ Append(q, x) \in Seq(S)
         /\ Append(q, x) # <<>>
         /\ Len(Append(q, x)) = Len(q) + 1
         /\ \A n \in 1 .. Len(q) : Append(q, x)[n] = q[n]
         /\ Append(q, x)[Len(q) + 1] = x
         /\ Head(Append(q, x)) = IF q = <<>> THEN x ELSE Head(q)
         /\ q = <<>> <=> Len(q) = 0
  OBVIOUS

\* What Tail does to the queue.
LEMMA TailQueue ==
  ASSUME NEW S, NEW q \in Seq(S), q # <<>>
  PROVE  /\ Tail(q) \in Seq(S)
         /\ Len(q) \in Nat \ {0}
         /\ Len(Tail(q)) = Len(q) - 1
         /\ \A n \in 1 .. Len(q) - 1 : Tail(q)[n] = q[n + 1]
         /\ Tail(q) = <<>> <=> Len(q) = 1
         /\ Head(q) = q[1]
         /\ Tail(q) # <<>> => Head(Tail(q)) = q[2]
<1>1. Len(q) \in Nat \ {0} /\ Head(q) = q[1] /\ Tail(q) \in Seq(S)
  OBVIOUS
<1>2. Len(Tail(q)) = Len(q) - 1
  OBVIOUS
<1>3. \A n \in 1 .. Len(q) - 1 : Tail(q)[n] = q[n + 1]
  OBVIOUS
<1>4. Tail(q) = <<>> <=> Len(Tail(q)) = 0
  BY <1>1, EmptyQueue
<1>5. Tail(q) # <<>> => Head(Tail(q)) = Tail(q)[1]
  BY <1>1
<1> QED
  BY <1>1, <1>2, <1>3, <1>4, <1>5

\* The first of a queue is its element at 1.
LEMMA HeadOfQueue ==
  ASSUME NEW S, NEW q \in Seq(S), q # <<>>
  PROVE  Len(q) \in Nat \ {0} /\ Head(q) = q[1] /\ q[1] \in S
  OBVIOUS

-----------------------------------------------------------------------------
(* The invariant holds at first, and every step keeps it. *)

LEMMA InitLockInv == Init => LockInv
<1> SUFFICES ASSUME Init PROVE LockInv
  OBVIOUS
<1> USE NumThreadAssumption, NumWorkAssumption
<1>1. TypeOK
  BY DEF Init, TypeOK, Threads, Cells, NoCell
<1>2. CellsRecycled
  BY DEF Init, CellsRecycled, FreeCell, Threads, Cells
<1>3. QueueInv
  BY DEF Init, QueueInv
<1>4. FlagInv
  BY DEF Init, FlagInv, FreeCell, Coming, Threads, Cells
<1>5. FirstInv /\ RoundInv
  BY DEF Init, FirstInv, RoundInv, Inside, Coming
<1> QED
  BY <1>1, <1>2, <1>3, <1>4, <1>5 DEF LockInv

\* Announcing sets the cell of t only, which is not the free one.
LEMMA AnnounceKeeps ==
  ASSUME LockInv, NEW t \in Threads, Announce(t)
  PROVE  LockInv'
<1> USE DEF LockInv
<1>1. TypeOK'
  BY DEF Announce, Goto, TypeOK
<1>2. UNCHANGED <<tail, node, pred, queue>> /\ FreeCell' = FreeCell
  BY DEF Announce, FreeCell
<1>3. CellsRecycled'
  BY <1>2 DEF CellsRecycled
<1>4. /\ pc[t] = "start" /\ pc'[t] = "swap"
      /\ \A u \in Threads \ {t} : pc'[u] = pc[u]
  BY DEF Announce, Goto, TypeOK
<1>5. QueueInv'
  BY <1>2, <1>4 DEF QueueInv
<1>6. Inside' = Inside /\ Coming' = Coming \union {t}
  BY <1>4 DEF Inside, Coming
<1>7. FirstInv' /\ RoundInv'
  BY <1>2, <1>6 DEF FirstInv, RoundInv, Announce
<1>8. FreeCell \in Cells /\ cell[FreeCell] = 0
  BY DEF FlagInv
<1>9. FlagInv'
  <2>1. cell' = [cell EXCEPT ![node[t]] = 1] /\ node[t] \in Cells
    BY DEF Announce, TypeOK
  <2>2. node[t] # FreeCell
    BY DEF CellsRecycled
  <2>3. cell'[FreeCell] = cell[FreeCell]
    BY <2>1, <2>2 DEF TypeOK
  <2>4. ASSUME NEW u \in Threads
        PROVE  cell'[node[u]] = 1 <=> u \in Coming'
    <3>1. CASE u = t
      BY <3>1, <2>1, <1>6 DEF TypeOK
    <3>2. CASE u # t
      <4>1. node[u] # node[t] /\ node[u] \in Cells
        BY <3>2 DEF CellsRecycled, TypeOK
      <4>2. cell'[node[u]] = cell[node[u]]
        BY <4>1, <2>1 DEF TypeOK
      <4> QED
        BY <4>2, <3>2, <1>6 DEF FlagInv
    <3> QED
      BY <3>1, <3>2
  <2> QED
    BY <1>2, <1>8, <2>3, <2>4 DEF FlagInv
<1> QED
  BY <1>1, <1>3, <1>5, <1>7, <1>9

\* The exchange puts t at the end of the queue and leaves the free cell alone.
LEMMA SwapKeeps ==
  ASSUME LockInv, NEW t \in Threads, Swap(t)
  PROVE  LockInv'
<1> USE DEF LockInv
<1>1. /\ pc[t] = "swap" /\ pc'[t] = "spin"
      /\ \A u \in Threads \ {t} : pc'[u] = pc[u]
      /\ pred'[t] = tail /\ \A u \in Threads \ {t} : pred'[u] = pred[u]
      /\ tail' = node[t] /\ queue' = Append(queue, t)
      /\ UNCHANGED <<cell, cnt_global, node, works, seen>>
      /\ pc' = [pc EXCEPT ![t] = "spin"] /\ pred' = [pred EXCEPT ![t] = tail]
  BY DEF Swap, Goto, TypeOK
<1>2. queue \in Seq(Threads)
  BY DEF TypeOK
<1>3. /\ queue' \in Seq(Threads) /\ queue' # <<>>
      /\ Len(queue) \in Nat
      /\ Len(queue') = Len(queue) + 1
      /\ \A n \in 1 .. Len(queue) : queue'[n] = queue[n]
      /\ queue'[Len(queue) + 1] = t
      /\ Head(queue') = IF queue = <<>> THEN t ELSE Head(queue)
      /\ queue = <<>> <=> Len(queue) = 0
  BY <1>1, <1>2, AppendQueue
<1>4. TypeOK'
  BY <1>1, <1>3 DEF TypeOK
<1>5. \A n \in 1 .. Len(queue) : queue[n] # t /\ queue[n] \in Threads
  BY <1>1, <1>2 DEF QueueInv
<1>6. FreeCell' = FreeCell
  <2>1. CASE queue = <<>>
    BY <2>1, <1>1, <1>3 DEF FreeCell
  <2>2. CASE queue # <<>>
    <3>1. Head(queue) \in Threads \ {t}
      BY <2>2, <1>2, <1>5, HeadOfQueue
    <3> QED
      BY <2>2, <3>1, <1>1, <1>3 DEF FreeCell
  <2> QED
    BY <2>1, <2>2
<1>7. CellsRecycled'
  <2>1. ASSUME NEW n \in 1 .. Len(queue') - 1
        PROVE  pred'[queue'[n + 1]] = node'[queue'[n]]
    <3>1. n \in 1 .. Len(queue) /\ queue # <<>>
      BY <1>3
    <3>2. CASE n = Len(queue)
      BY <3>1, <3>2, <1>1, <1>3 DEF CellsRecycled
    <3>3. CASE n # Len(queue)
      <4>1. n \in 1 .. Len(queue) - 1 /\ n + 1 \in 1 .. Len(queue)
        BY <3>1, <3>3, <1>3
      <4>2. queue[n + 1] \in Threads \ {t}
        BY <4>1, <1>5
      <4>3. pred'[queue[n + 1]] = pred[queue[n + 1]]
        BY <4>2, <1>1
      <4>4. pred[queue[n + 1]] = node[queue[n]]
        BY <4>1 DEF CellsRecycled
      <4> QED
        BY <4>1, <4>3, <4>4, <3>1, <1>1, <1>3
    <3> QED
      BY <3>2, <3>3
  <2>2. tail' = node'[queue'[Len(queue')]]
    BY <1>1, <1>3
  <2> QED
    BY <2>1, <2>2, <1>1, <1>6 DEF CellsRecycled
<1>8. QueueInv'
  <2>1. ASSUME NEW m \in 1 .. Len(queue'), NEW n \in 1 .. Len(queue'),
               queue'[m] = queue'[n]
        PROVE  m = n
    BY <2>1, <1>3, <1>5 DEF QueueInv
  <2>2. ASSUME NEW u \in Threads
        PROVE  pc'[u] \in {"spin", "load", "store", "unlock"} <=>
                 \E n \in 1 .. Len(queue') : queue'[n] = u
    <3>1. CASE u = t
      BY <3>1, <1>1, <1>3
    <3>2. CASE u # t
      <4>1. (\E n \in 1 .. Len(queue') : queue'[n] = u) <=>
              (\E n \in 1 .. Len(queue) : queue[n] = u)
        BY <3>2, <1>3
      <4> QED
        BY <4>1, <3>2, <1>1 DEF QueueInv
    <3> QED
      BY <3>1, <3>2
  <2> QED
    BY <2>1, <2>2 DEF QueueInv
<1>9. Coming' = Coming /\ Inside' = Inside
  BY <1>1 DEF Coming, Inside
<1>10. FlagInv'
  BY <1>1, <1>6, <1>9 DEF FlagInv
<1>11. FirstInv' /\ RoundInv'
  BY <1>1, <1>3, <1>9 DEF FirstInv, RoundInv
<1> QED
  BY <1>4, <1>7, <1>8, <1>10, <1>11

\* Only the first of the queue sees a 0 in the cell it spins on: everyone else
\* spins on the cell of a thread that is coming.
LEMMA EnterFirst ==
  ASSUME LockInv, NEW t \in Threads, Enter(t)
  PROVE  queue # <<>> /\ t = Head(queue)
<1> USE DEF LockInv
<1>1. PICK n \in 1 .. Len(queue) : queue[n] = t
  BY DEF Enter, QueueInv
<1>2. queue \in Seq(Threads) /\ Len(queue) \in Nat /\ queue # <<>>
  BY <1>1 DEF TypeOK
<1>3. ASSUME n # 1
      PROVE  FALSE
  <2>1. n - 1 \in 1 .. Len(queue) - 1 /\ n - 1 \in 1 .. Len(queue)
    BY <1>3, <1>1, <1>2
  <2>2. pred[t] = node[queue[n - 1]]
    BY <2>1, <1>1 DEF CellsRecycled
  <2>3. queue[n - 1] \in Threads
    BY <2>1, <1>2
  <2>4. queue[n - 1] \in Coming
    BY <2>1, <2>3 DEF QueueInv, Coming
  <2>5. cell[pred[t]] = 1
    BY <2>2, <2>3, <2>4 DEF FlagInv
  <2> QED
    BY <2>5 DEF Enter
<1> QED
  BY <1>1, <1>2, <1>3, HeadOfQueue

\* A step that leaves the cells, the pointers and the queue alone, and moves t
\* from the queue to the inside or on inside, if t is the first.
LEMMA MoveInsideKeeps ==
  ASSUME LockInv, NEW t \in Threads,
         UNCHANGED <<cell, tail, node, pred, works, queue>>,
         pc[t] \in {"spin", "load", "store"},
         \E place \in {"load", "store", "unlock"} : pc' = [pc EXCEPT ![t] = place],
         queue # <<>>, t = Head(queue),
         TypeOK'
  PROVE  LockInv'
<1> USE DEF LockInv
<1>1. PICK place \in {"load", "store", "unlock"} : pc' = [pc EXCEPT ![t] = place]
  OBVIOUS
<1>2. pc'[t] = place /\ \A u \in Threads \ {t} : pc'[u] = pc[u]
  BY <1>1 DEF TypeOK
<1>3. FreeCell' = FreeCell
  BY DEF FreeCell
<1>4. CellsRecycled'
  BY <1>3 DEF CellsRecycled
<1>5. QueueInv'
  BY <1>2 DEF QueueInv
<1>6. Coming' = Coming /\ Inside' = Inside \union {t}
  BY <1>2 DEF Coming, Inside
<1>7. FlagInv'
  BY <1>3, <1>6 DEF FlagInv
<1>8. FirstInv' /\ RoundInv'
  BY <1>6 DEF FirstInv, RoundInv
<1> QED
  BY <1>4, <1>5, <1>7, <1>8

\* Unlocking leaves the cell of t as the free one, and t takes the one that
\* was free: the second of the queue, if any, was spinning on t's cell.
LEMMA UnlockKeeps ==
  ASSUME LockInv, NEW t \in Threads, Unlock(t)
  PROVE  LockInv'
<1> USE DEF LockInv
<1>1. /\ pc[t] = "unlock" /\ pc' = [pc EXCEPT ![t] = "start"]
      /\ cell' = [cell EXCEPT ![node[t]] = 0]
      /\ node' = [node EXCEPT ![t] = pred[t]]
      /\ works' = [works EXCEPT ![t] = @ + 1]
      /\ queue' = Tail(queue)
      /\ UNCHANGED <<tail, cnt_global, pred, seen>>
  BY DEF Unlock, Goto
<1>2. queue # <<>> /\ t = Head(queue)
  BY <1>1 DEF FirstInv, Inside
<1>3. /\ queue \in Seq(Threads)
      /\ queue' \in Seq(Threads)
      /\ Len(queue) \in Nat \ {0}
      /\ Len(queue') = Len(queue) - 1
      /\ \A n \in 1 .. Len(queue) - 1 : queue'[n] = queue[n + 1]
      /\ queue' = <<>> <=> Len(queue) = 1
      /\ t = queue[1]
      /\ queue' # <<>> => Head(queue') = queue[2]
  BY <1>1, <1>2, TailQueue DEF TypeOK
<1>4. FreeCell = pred[t]
  BY <1>2 DEF FreeCell
<1>5. FreeCell' = node[t]
  <2>1. CASE queue' = <<>>
    BY <2>1, <1>1, <1>2, <1>3 DEF FreeCell, CellsRecycled
  <2>2. CASE queue' # <<>>
    <3>1. 1 \in 1 .. Len(queue) - 1
      BY <2>2, <1>3
    <3>2. pred[queue[1 + 1]] = node[queue[1]]
      BY <3>1 DEF CellsRecycled
    <3> QED
      BY <3>2, <2>2, <1>1, <1>3 DEF FreeCell
  <2> QED
    BY <2>1, <2>2
<1>6. node[t] \in Cells /\ pred[t] \in Cells /\ node[t] # pred[t]
  BY <1>4 DEF CellsRecycled, TypeOK, FlagInv
<1>7. TypeOK'
  <2>1. works[t] < NumWork /\ works[t] \in 0 .. NumWork
    BY <1>1 DEF TypeOK, RoundInv, Coming
  <2>2. works[t] + 1 \in 0 .. NumWork
    BY <2>1, NumWorkAssumption
  <2> QED
    BY <1>1, <1>3, <1>6, <2>2 DEF TypeOK
<1>8. /\ pc'[t] = "start" /\ \A u \in Threads \ {t} : pc'[u] = pc[u]
      /\ node'[t] = pred[t] /\ \A u \in Threads \ {t} : node'[u] = node[u]
      /\ cell'[node[t]] = 0 /\ \A c \in Cells \ {node[t]} : cell'[c] = cell[c]
  BY <1>1, <1>6 DEF TypeOK
<1>9. \A n \in 1 .. Len(queue') : queue'[n] \in Threads \ {t}
  <2> SUFFICES ASSUME NEW n \in 1 .. Len(queue')
               PROVE  queue'[n] \in Threads \ {t}
    OBVIOUS
  <2>1. /\ n + 1 \in 1 .. Len(queue) /\ n + 1 # 1 /\ 1 \in 1 .. Len(queue)
        /\ queue'[n] = queue[n + 1]
    BY <1>3
  <2>2. queue[n + 1] # queue[1]
    BY <2>1 DEF QueueInv
  <2> QED
    BY <2>1, <2>2, <1>3
<1>10. CellsRecycled'
  <2>1. ASSUME NEW u \in Threads, NEW v \in Threads, node'[u] = node'[v]
        PROVE  u = v
    BY <2>1, <1>4, <1>8 DEF CellsRecycled
  <2>2. ASSUME NEW u \in Threads
        PROVE  node'[u] # FreeCell'
    BY <1>5, <1>6, <1>8 DEF CellsRecycled
  <2>3. ASSUME NEW n \in 1 .. Len(queue') - 1
        PROVE  pred'[queue'[n + 1]] = node'[queue'[n]]
    <3>1. /\ n + 1 \in 1 .. Len(queue) - 1 /\ n \in 1 .. Len(queue')
          /\ queue'[n] = queue[n + 1] /\ queue'[n + 1] = queue[n + 1 + 1]
      BY <1>3
    <3>2. pred[queue[n + 1 + 1]] = node[queue[n + 1]]
      BY <3>1 DEF CellsRecycled
    <3>3. node'[queue'[n]] = node[queue'[n]]
      BY <3>1, <1>8, <1>9
    <3> QED
      BY <3>1, <3>2, <3>3, <1>1
  <2>4. ASSUME queue' # <<>>
        PROVE  tail' = node'[queue'[Len(queue')]]
    <3>1. /\ Len(queue') \in 1 .. Len(queue')
          /\ queue'[Len(queue')] = queue[Len(queue)]
      BY <2>4, <1>3
    <3>2. node'[queue'[Len(queue')]] = node[queue[Len(queue)]]
      BY <3>1, <1>8, <1>9
    <3> QED
      BY <3>2, <1>1, <1>2 DEF CellsRecycled
  <2> QED
    BY <2>1, <2>2, <2>3, <2>4 DEF CellsRecycled
<1>11. QueueInv'
  <2>1. ASSUME NEW m \in 1 .. Len(queue'), NEW n \in 1 .. Len(queue'),
               queue'[m] = queue'[n]
        PROVE  m = n
    <3>1. /\ m + 1 \in 1 .. Len(queue) /\ n + 1 \in 1 .. Len(queue)
          /\ queue[m + 1] = queue[n + 1]
      BY <2>1, <1>3
    <3>2. m + 1 = n + 1
      BY <3>1 DEF QueueInv
    <3> QED
      BY <3>2
  <2>2. ASSUME NEW u \in Threads
        PROVE  pc'[u] \in {"spin", "load", "store", "unlock"} <=>
                 \E n \in 1 .. Len(queue') : queue'[n] = u
    <3>1. CASE u = t
      BY <3>1, <1>8, <1>9
    <3>2. CASE u # t
      <4>1. ASSUME NEW n \in 1 .. Len(queue), queue[n] = u
            PROVE  n - 1 \in 1 .. Len(queue') /\ queue'[n - 1] = u
        <5>1. n # 1
          BY <4>1, <3>2, <1>3
        <5>2. n - 1 \in 1 .. Len(queue) - 1 /\ n - 1 + 1 = n
          BY <5>1, <1>3
        <5> QED
          BY <5>2, <4>1, <1>3
      <4>2. ASSUME NEW n \in 1 .. Len(queue'), queue'[n] = u
            PROVE  n + 1 \in 1 .. Len(queue) /\ queue[n + 1] = u
        BY <4>2, <1>3
      <4>3. (\E n \in 1 .. Len(queue') : queue'[n] = u) <=>
              (\E n \in 1 .. Len(queue) : queue[n] = u)
        BY <4>1, <4>2
      <4> QED
        BY <4>3, <3>2, <1>8 DEF QueueInv
    <3> QED
      BY <3>1, <3>2
  <2> QED
    BY <2>1, <2>2 DEF QueueInv
<1>12. Coming' = Coming \ {t} /\ Inside' = Inside \ {t}
  BY <1>8 DEF Coming, Inside
<1>13. FlagInv'
  <2>1. ASSUME NEW u \in Threads
        PROVE  cell'[node'[u]] = 1 <=> u \in Coming'
    <3>1. CASE u = t
      <4>1. cell[pred[t]] = 0
        BY <1>4 DEF FlagInv
      <4>2. cell'[node'[t]] = 0
        BY <4>1, <1>6, <1>8
      <4> QED
        BY <3>1, <4>2, <1>12
    <3>2. CASE u # t
      <4>1. node[u] # node[t] /\ node[u] \in Cells
        BY <3>2 DEF CellsRecycled, TypeOK
      <4>2. cell'[node'[u]] = cell[node[u]]
        BY <4>1, <3>2, <1>8
      <4> QED
        BY <4>2, <3>2, <1>12 DEF FlagInv
    <3> QED
      BY <3>1, <3>2
  <2> QED
    BY <2>1, <1>5, <1>6, <1>8 DEF FlagInv
<1>14. Inside' = {}
  BY <1>2, <1>12 DEF FirstInv
<1>15. FirstInv' /\ RoundInv'
  <2>1. \A u \in Threads \ {t} : works'[u] = works[u]
    BY <1>1 DEF TypeOK
  <2> QED
    BY <1>12, <1>14, <2>1 DEF FirstInv, RoundInv, Coming
<1> QED
  BY <1>7, <1>10, <1>11, <1>13, <1>15

LEMMA NextLockInv == LockInv /\ [Next]_vars => LockInv'
<1> SUFFICES ASSUME LockInv, [Next]_vars
             PROVE  LockInv'
  OBVIOUS
<1>1. ASSUME NEW t \in Threads, Announce(t)
      PROVE  LockInv'
  BY <1>1, AnnounceKeeps
<1>2. ASSUME NEW t \in Threads, Swap(t)
      PROVE  LockInv'
  BY <1>2, SwapKeeps
<1>3. ASSUME NEW t \in Threads, Enter(t)
      PROVE  LockInv'
  <2>1. queue # <<>> /\ t = Head(queue)
    BY <1>3, EnterFirst
  <2>2. TypeOK'
    BY <1>3 DEF LockInv, TypeOK, Enter, Goto
  <2>3. \E place \in {"load", "store", "unlock"} : pc' = [pc EXCEPT ![t] = place]
    BY <1>3 DEF Enter, Goto
  <2> QED
    BY <1>3, <2>1, <2>2, <2>3, MoveInsideKeeps DEF Enter
<1>4. ASSUME NEW t \in Threads, Load(t)
      PROVE  LockInv'
  <2>1. queue # <<>> /\ t = Head(queue)
    BY <1>4 DEF LockInv, FirstInv, Inside, Load
  <2>2. TypeOK'
    BY <1>4 DEF LockInv, TypeOK, Load, Goto
  <2>3. \E place \in {"load", "store", "unlock"} : pc' = [pc EXCEPT ![t] = place]
    BY <1>4 DEF Load, Goto
  <2> QED
    BY <1>4, <2>1, <2>2, <2>3, MoveInsideKeeps DEF Load
<1>5. ASSUME NEW t \in Threads, Store(t)
      PROVE  LockInv'
  <2>1. queue # <<>> /\ t = Head(queue)
    BY <1>5 DEF LockInv, FirstInv, Inside, Store
  <2>2. TypeOK'
    BY <1>5 DEF LockInv, TypeOK, Store, Goto
  <2>3. \E place \in {"load", "store", "unlock"} : pc' = [pc EXCEPT ![t] = place]
    BY <1>5 DEF Store, Goto
  <2> QED
    BY <1>5, <2>1, <2>2, <2>3, MoveInsideKeeps DEF Store
<1>6. ASSUME NEW t \in Threads, Unlock(t)
      PROVE  LockInv'
  BY <1>6, UnlockKeeps
<1>7. ASSUME UNCHANGED vars
      PROVE  LockInv'
  <2>1. TypeOK'
    BY <1>7 DEF vars, LockInv, TypeOK
  <2>2. CellsRecycled' /\ FlagInv'
    BY <1>7 DEF vars, LockInv, CellsRecycled, FlagInv, FreeCell, Coming
  <2>3. QueueInv' /\ FirstInv' /\ RoundInv'
    BY <1>7 DEF vars, LockInv, QueueInv, FirstInv, RoundInv, Inside, Coming
  <2> QED
    BY <2>1, <2>2, <2>3 DEF LockInv
<1> QED
  BY <1>1, <1>2, <1>3, <1>4, <1>5, <1>6, <1>7 DEF Next, Step, Terminating

-----------------------------------------------------------------------------
(* Every increment counts. *)

LEMMA StoredFinite == IsFiniteSet(Stored)
<1>1. IsFiniteSet(Threads) /\ IsFiniteSet(1 .. NumWork)
  BY FS_Interval, NumThreadAssumption, NumWorkAssumption DEF Threads
<1>2. IsFiniteSet(Threads \X (1 .. NumWork))
  BY <1>1, FS_Product
<1> QED
  BY <1>2, FS_Subset DEF Stored

\* How far the increments of a thread have come.
Come(t) == works[t] + (IF pc[t] = "unlock" THEN 1 ELSE 0)

LEMMA SameStored ==
  ASSUME \A t \in Threads : Come(t)' = Come(t)
  PROVE  Stored' = Stored
BY DEF Stored, Come

LEMMA StoreCounts ==
  ASSUME LockInv, CountInv, NEW t \in Threads, Store(t)
  PROVE  CountInv'
<1>1. /\ pc[t] = "store" /\ pc' = [pc EXCEPT ![t] = "unlock"] /\ cnt_global' = seen[t] + 1
      /\ UNCHANGED <<works, seen>> /\ seen[t] = cnt_global /\ cnt_global \in Nat
      /\ works[t] \in Nat /\ works[t] < NumWork /\ \A u \in Threads : works[u] \in Nat
  BY NumWorkAssumption DEF Store, Goto, CountInv, LockInv, TypeOK, RoundInv, Coming
<1>2. pc'[t] = "unlock" /\ \A u \in Threads : u # t => pc'[u] = pc[u]
  BY <1>1 DEF LockInv, TypeOK
<1>3. PICK i : i = <<t, works[t] + 1>>
  OBVIOUS
<1>4. i \in Threads \X (1 .. NumWork) /\ i \notin Stored
  BY <1>1, <1>3, NumWorkAssumption DEF Stored
<1>5. Stored' = Stored \union {i}
  <2>1. ASSUME NEW j \in Threads \X (1 .. NumWork)
        PROVE  j \in Stored' <=> j \in Stored \/ j = i
    <3>1. CASE j[1] = t
      <4>1. j = <<t, j[2]>> /\ j[2] \in 1 .. NumWork
        BY <3>1
      <4>2. j \in Stored <=> j[2] <= works[t]
        BY <1>1, <3>1 DEF Stored
      <4>3. j \in Stored' <=> j[2] <= works[t] + 1
        BY <1>1, <1>2, <3>1 DEF Stored
      <4>4. j = i <=> j[2] = works[t] + 1
        BY <1>3, <4>1
      <4> QED
        BY <1>1, <4>1, <4>2, <4>3, <4>4
    <3>2. CASE j[1] # t
      BY <1>1, <1>2, <1>3, <3>2 DEF Stored
    <3> QED
      BY <3>1, <3>2
  <2> QED
    BY <1>4, <2>1 DEF Stored
<1>6. Cardinality(Stored') = Cardinality(Stored) + 1
  BY <1>4, <1>5, StoredFinite, FS_AddElement
<1>7. cnt_global' = Cardinality(Stored')
  BY <1>1, <1>6 DEF CountInv
<1>8. ASSUME NEW u \in Threads PROVE pc'[u] # "store"
  BY <1>1, <1>2 DEF LockInv, FirstInv, Inside
<1> QED
  BY <1>7, <1>8 DEF CountInv

LEMMA NextCountInv == LockInv /\ CountInv /\ [Next]_vars => CountInv'
<1> SUFFICES ASSUME LockInv, CountInv, [Next]_vars
             PROVE  CountInv'
  OBVIOUS
<1>1. ASSUME NEW t \in Threads, Announce(t) \/ Swap(t) \/ Enter(t)
      PROVE  CountInv'
  <2>1. /\ UNCHANGED <<works, cnt_global, seen>>
        /\ \A u \in Threads : /\ pc'[u] = "unlock" <=> pc[u] = "unlock"
                              /\ pc'[u] = "store" <=> pc[u] = "store"
    BY <1>1 DEF Announce, Swap, Enter, Goto, LockInv, TypeOK
  <2>2. Stored' = Stored
    BY <2>1, SameStored DEF Come
  <2> QED
    BY <2>1, <2>2 DEF CountInv
<1>2. ASSUME NEW t \in Threads, Load(t)
      PROVE  CountInv'
  <2>1. /\ UNCHANGED <<works, cnt_global>> /\ seen'[t] = cnt_global
        /\ \A u \in Threads : /\ pc'[u] = "unlock" <=> pc[u] = "unlock"
                              /\ pc'[u] = "store" => u = t \/ pc[u] = "store"
                              /\ u # t => seen'[u] = seen[u]
    BY <1>2 DEF Load, Goto, LockInv, TypeOK
  <2>2. Stored' = Stored
    BY <2>1, SameStored DEF Come
  <2> QED
    BY <2>1, <2>2 DEF CountInv
<1>3. ASSUME NEW t \in Threads, Store(t)
      PROVE  CountInv'
  BY <1>3, StoreCounts
<1>4. ASSUME NEW t \in Threads, Unlock(t)
      PROVE  CountInv'
  <2>1. /\ UNCHANGED <<cnt_global, seen>> /\ pc[t] = "unlock" /\ pc'[t] = "start"
        /\ works'[t] = works[t] + 1
        /\ \A u \in Threads : u # t => pc'[u] = pc[u] /\ works'[u] = works[u]
        /\ \A u \in Threads : works[u] \in Nat
    BY <1>4, NumWorkAssumption DEF Unlock, Goto, LockInv, TypeOK
  <2>2. Stored' = Stored
    BY <2>1, SameStored DEF Come
  <2> QED
    BY <2>1, <2>2 DEF CountInv
<1>5. CASE UNCHANGED vars
  <2>1. UNCHANGED <<works, pc, cnt_global, seen>>
    BY <1>5 DEF vars
  <2>2. Stored' = Stored
    BY <2>1 DEF Stored
  <2> QED
    BY <2>1, <2>2 DEF CountInv
<1> QED
  BY <1>1, <1>2, <1>3, <1>4, <1>5 DEF Next, Step, Terminating

LEMMA InitCountInv == Init => CountInv
<1> SUFFICES ASSUME Init PROVE CountInv
  OBVIOUS
<1>1. Stored = {}
  BY NumWorkAssumption DEF Init, Stored
<1> QED
  BY <1>1, FS_EmptySet DEF Init, CountInv

LEMMA AllCounted == CountInv => CountExact
<1> SUFFICES ASSUME CountInv, AllDone PROVE cnt_global = NumThread * NumWork
  BY DEF CountExact
<1>1. Stored = Threads \X (1 .. NumWork)
  BY NumWorkAssumption DEF Stored, AllDone
<1>2. /\ IsFiniteSet(Threads) /\ Cardinality(Threads) = NumThread
      /\ IsFiniteSet(1 .. NumWork) /\ Cardinality(1 .. NumWork) = NumWork
  BY FS_Interval, NumThreadAssumption, NumWorkAssumption DEF Threads
<1>3. Cardinality(Threads \X (1 .. NumWork)) = Cardinality(Threads) * Cardinality(1 .. NumWork)
  BY <1>2, FS_Product
<1> QED
  BY <1>1, <1>2, <1>3 DEF CountInv

-----------------------------------------------------------------------------
(* The theorems. *)

\* The inductive invariant holds in every reachable state.
THEOREM CLHInvariant == Spec => []CLHInv
<1>1. Init => CLHInv
  BY InitLockInv, InitCountInv DEF CLHInv
<1>2. CLHInv /\ [Next]_vars => CLHInv'
  BY NextLockInv, NextCountInv DEF CLHInv
<1> QED
  BY <1>1, <1>2, PTL DEF Spec

\* The lock is what makes cnt_global++ of two threads exclude each other: when
\* all have ended, cnt_global is the number of all increments.
THEOREM CLHCounts == Spec => []CountExact
<1>1. CLHInv => CountExact
  BY AllCounted DEF CLHInv
<1> QED
  BY <1>1, CLHInvariant, PTL

\* At most one thread is between lock() and unlock() of prac_clhlock.cpp: only
\* the first of the queue can be.
THEOREM CLHExcludes == Spec => []MutualExclusion
<1>1. CLHInv => MutualExclusion
  BY DEF CLHInv, LockInv, FirstInv, MutualExclusion
<1> QED
  BY <1>1, CLHInvariant, PTL

\* The cells that lock() and unlock() pass from thread to thread are never
\* shared, and the chain of predecessors is the order of the exchanges on tail.
THEOREM CLHRecycles == Spec => []CellsRecycled
<1>1. CLHInv => CellsRecycled
  BY DEF CLHInv, LockInv
<1> QED
  BY <1>1, CLHInvariant, PTL

\* lock() and unlock() implement a first-come-first-served lock: the exchange
\* on tail is the request, the end of the spinning the entry.
THEOREM CLHImplementsFIFO == Spec => ImplementsFIFOLock
<1>1. Init => FIFO!FIFOInit
  BY DEF Init, FIFO!FIFOInit, Inside
<1>2. LockInv /\ [Next]_vars => [FIFO!FIFONext]_FIFO!fifoVars
  <2> SUFFICES ASSUME LockInv, [Next]_vars
               PROVE  FIFO!FIFONext \/ UNCHANGED <<queue, Inside>>
    BY DEF FIFO!fifoVars
  <2>1. ASSUME NEW t \in Threads, Announce(t) \/ Load(t) \/ Store(t)
        PROVE  UNCHANGED <<queue, Inside>>
    <3>1. queue' = queue
      BY <2>1 DEF Announce, Load, Store
    <3>2. /\ \A u \in Threads \ {t} : pc'[u] = pc[u]
          /\ pc[t] \in {"load", "store", "unlock"} <=>
               pc'[t] \in {"load", "store", "unlock"}
      BY <2>1 DEF Announce, Load, Store, Goto, LockInv, TypeOK
    <3>3. Inside' = Inside
      BY <3>2 DEF Inside
    <3> QED
      BY <3>1, <3>3
  <2>2. ASSUME NEW t \in Threads, Swap(t)
        PROVE  FIFO!Ask(t)
    <3>1. /\ \A u \in Threads \ {t} : pc'[u] = pc[u]
          /\ pc[t] = "swap" /\ pc'[t] = "spin"
      BY <2>2 DEF Swap, Goto, LockInv, TypeOK
    <3>2. Inside' = Inside
      BY <3>1 DEF Inside
    <3> QED
      BY <2>2, <3>2 DEF Swap, FIFO!Ask
  <2>3. ASSUME NEW t \in Threads, Enter(t)
        PROVE  FIFO!GetIn(t)
    <3>1. queue # <<>> /\ t = Head(queue)
      BY <2>3, EnterFirst
    <3>2. /\ \A u \in Threads \ {t} : pc'[u] = pc[u]
          /\ pc[t] = "spin" /\ pc'[t] = "load"
      BY <2>3 DEF Enter, Goto, LockInv, TypeOK
    <3>3. Inside = {}
      BY <3>1, <3>2 DEF LockInv, FirstInv, Inside
    <3>4. Inside' = {t}
      BY <3>2, <3>3 DEF Inside
    <3> QED
      BY <2>3, <3>1, <3>3, <3>4 DEF Enter, FIFO!GetIn
  <2>4. ASSUME NEW t \in Threads, Unlock(t)
        PROVE  FIFO!Leave(t)
    <3>1. /\ \A u \in Threads \ {t} : pc'[u] = pc[u]
          /\ pc[t] = "unlock" /\ pc'[t] = "start"
      BY <2>4 DEF Unlock, Goto, LockInv, TypeOK
    <3>2. Inside = {t}
      BY <3>1 DEF LockInv, FirstInv, Inside
    <3>3. Inside' = {}
      BY <3>1, <3>2 DEF Inside
    <3> QED
      BY <2>4, <3>2, <3>3 DEF Unlock, FIFO!Leave
  <2>5. ASSUME UNCHANGED vars
        PROVE  UNCHANGED <<queue, Inside>>
    BY <2>5 DEF vars, Inside
  <2> QED
    BY <2>1, <2>2, <2>3, <2>4, <2>5
    DEF Next, Step, Terminating, FIFO!FIFONext
<1>3. CLHInv => LockInv
  BY DEF CLHInv
<1> QED
  BY <1>1, <1>2, <1>3, CLHInvariant, PTL DEF Spec, ImplementsFIFOLock, FIFO!FIFOSpec
=============================================================================
