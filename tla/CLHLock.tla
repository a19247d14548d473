-------------------------------- MODULE CLHLock --------------------------------
(****************************************************************************)
(* lab10's CLH queue lock.  A thread announces itself in its own cell,      *)
(* swaps the cell into tail, and spins on the cell it got out of tail: that *)
(* of its predecessor.  When it unlocks it leaves its cell to its successor *)
(* and takes over the predecessor's.  Under the lock each thread increments *)
(* cnt_global, NumWork times.                                               *)
(*                                                                          *)
(* pc:  start   before **node = 1, or at the end of the loop                *)
(*      swap    before the atomic exchange with tail                        *)
(*      spin    in the loop on **pred                                       *)
(*      load, store   around cnt_global++, which is not atomic              *)
(*      unlock  before unlock()                                             *)
(****************************************************************************)
EXTENDS Sequences, Integers, FiniteSets

CONSTANTS NumThread, NumWork

ASSUME NumThreadAssumption == NumThread \in Nat
ASSUME NumWorkAssumption == NumWork \in Nat

Threads == 1 .. NumThread
Cells == 0 .. NumThread      \* the array nodes
NoCell == -1                 \* a null pointer

VARIABLES cell, tail, cnt_global,     \* cell[c] is nodes[c]
          pc, node, pred, works, seen

\* History: the threads that have swapped and not unlocked, in order.
VARIABLE queue

vars == <<cell, tail, cnt_global, pc, node, pred, works, seen, queue>>

TypeOK ==
    /\ cell \in [Cells -> {0, 1}]
    /\ tail \in Cells
    /\ cnt_global \in Nat
    /\ pc \in [Threads -> {"start", "swap", "spin", "load", "store", "unlock"}]
    /\ node \in [Threads -> Cells]
    /\ pred \in [Threads -> Cells \union {NoCell}]
    /\ works \in [Threads -> 0 .. NumWork]
    /\ seen \in [Threads -> Nat]
    /\ queue \in Seq(Threads)

Init ==
    /\ cell = [c \in Cells |-> 0]
    /\ tail = 0
    /\ cnt_global = 0
    /\ pc = [t \in Threads |-> "start"]
    /\ node = [t \in Threads |-> t]
    /\ pred = [t \in Threads |-> NoCell]
    /\ works = [t \in Threads |-> 0]
    /\ seen = [t \in Threads |-> 0]
    /\ queue = <<>>

Goto(t, place) == pc' = [pc EXCEPT ![t] = place]

-----------------------------------------------------------------------------
(* lock() *)

\* Fault: the cell does not tell that the thread is coming.
AnnounceNothing(t) ==
    /\ pc[t] = "start"
    /\ works[t] < NumWork
    /\ Goto(t, "swap")
    /\ UNCHANGED <<cell, tail, cnt_global, node, pred, works, seen, queue>>

Announce(t) ==
    /\ pc[t] = "start"
    /\ works[t] < NumWork
    /\ cell' = [cell EXCEPT ![node[t]] = 1]
    /\ Goto(t, "swap")
    /\ UNCHANGED <<tail, cnt_global, node, pred, works, seen, queue>>

Swap(t) ==
    /\ pc[t] = "swap"
    /\ pred' = [pred EXCEPT ![t] = tail]
    /\ tail' = node[t]
    /\ queue' = Append(queue, t)
    /\ Goto(t, "spin")
    /\ UNCHANGED <<cell, cnt_global, node, works, seen>>

\* Fault: the thread does not wait for its predecessor.
EnterAtOnce(t) ==
    /\ pc[t] = "spin"
    /\ Goto(t, "load")
    /\ UNCHANGED <<cell, tail, cnt_global, node, pred, works, seen, queue>>

\* the loop ends; a round in which it does not changes nothing
Enter(t) ==
    /\ pc[t] = "spin"
    /\ cell[pred[t]] # 1
    /\ Goto(t, "load")
    /\ UNCHANGED <<cell, tail, cnt_global, node, pred, works, seen, queue>>

-----------------------------------------------------------------------------
(* cnt_global++ *)

Load(t) ==
    /\ pc[t] = "load"
    /\ seen' = [seen EXCEPT ![t] = cnt_global]
    /\ Goto(t, "store")
    /\ UNCHANGED <<cell, tail, cnt_global, node, pred, works, queue>>

Store(t) ==
    /\ pc[t] = "store"
    /\ cnt_global' = seen[t] + 1
    /\ Goto(t, "unlock")
    /\ UNCHANGED <<cell, tail, node, pred, works, seen, queue>>

-----------------------------------------------------------------------------
(* unlock().  Its second assignment is to a local pointer of the thread. *)

\* Fault: the thread keeps its own cell.
UnlockKeepsNode(t) ==
    /\ pc[t] = "unlock"
    /\ cell' = [cell EXCEPT ![node[t]] = 0]
    /\ works' = [works EXCEPT ![t] = @ + 1]
    /\ queue' = Tail(queue)
    /\ Goto(t, "start")
    /\ UNCHANGED <<tail, cnt_global, node, pred, seen>>

\* Fault: the thread resets its predecessor's cell instead of its own.
UnlockResetsPred(t) ==
    /\ pc[t] = "unlock"
    /\ cell' = [cell EXCEPT ![pred[t]] = 0]
    /\ node' = [node EXCEPT ![t] = pred[t]]
    /\ works' = [works EXCEPT ![t] = @ + 1]
    /\ queue' = Tail(queue)
    /\ Goto(t, "start")
    /\ UNCHANGED <<tail, cnt_global, pred, seen>>

Unlock(t) ==
    /\ pc[t] = "unlock"
    /\ cell' = [cell EXCEPT ![node[t]] = 0]
    /\ node' = [node EXCEPT ![t] = pred[t]]
    /\ works' = [works EXCEPT ![t] = @ + 1]
    /\ queue' = Tail(queue)
    /\ Goto(t, "start")
    /\ UNCHANGED <<tail, cnt_global, pred, seen>>

-----------------------------------------------------------------------------
AllDone == \A t \in Threads : pc[t] = "start" /\ works[t] = NumWork

\* main has joined the threads and prints cnt_global
Terminating == AllDone /\ UNCHANGED vars

Step(t) ==
    Announce(t) \/ Swap(t) \/ Enter(t) \/ Load(t) \/ Store(t) \/ Unlock(t)

Next == (\E t \in Threads : Step(t)) \/ Terminating

Spec == Init /\ [][Next]_vars

\* Every thread has a processor again and again; a spinning thread too.
Fairness == \A t \in Threads : WF_vars(Step(t))

FairSpec == Spec /\ Fairness

-----------------------------------------------------------------------------
(* Properties. *)

Inside == {t \in Threads : pc[t] \in {"load", "store", "unlock"}}

\* The lock excludes: one thread at a time is between lock() and unlock().
MutualExclusion == \A t, u \in Inside : t = u

\* The threads that have announced themselves or queue up.
Coming == {t \in Threads : pc[t] # "start"}

\* The one cell that belongs to no thread: the one the first of the queue
\* spins on, or the one in tail when nobody queues.
FreeCell == IF queue = <<>> THEN tail ELSE pred[Head(queue)]

\* Cells are recycled, never shared: no two threads own the same, and nobody
\* owns the free one; every thread of the queue spins on the cell of the one
\* before it, and tail is the cell of the last.
CellsRecycled ==
    /\ \A t, u \in Threads : node[t] = node[u] => t = u
    /\ \A t \in Threads : node[t] # FreeCell
    /\ \A n \in 1 .. Len(queue) - 1 : pred[queue[n + 1]] = node[queue[n]]
    /\ queue # <<>> => tail = node[queue[Len(queue)]]

FIFO == INSTANCE FIFOLock WITH inside <- Inside

\* The lock is first come, first served, in the order of the exchanges on tail.
ImplementsFIFOLock == FIFO!FIFOSpec

\* main prints the number of all increments: none is lost.
CountExact == AllDone => cnt_global = NumThread * NumWork

\* A thread that spins gets the lock in the end.
LockoutFree == \A t \in Threads : pc[t] = "spin" ~> t \in Inside

-----------------------------------------------------------------------------
(* The inductive invariant. *)

\* The queue holds the threads past their exchange, each of them once.
QueueInv ==
    /\ \A t \in Threads :
         pc[t] \in {"spin", "load", "store", "unlock"} <=>
            \E n \in 1 .. Len(queue) : queue[n] = t
    /\ \A m, n \in 1 .. Len(queue) : queue[m] = queue[n] => m = n

\* A cell is 1 exactly while its owner is coming; so only the first of the
\* queue may get in.
FlagInv ==
    /\ \A t \in Threads : cell[node[t]] = 1 <=> t \in Coming
    /\ FreeCell \in Cells /\ cell[FreeCell] = 0

FirstInv == \A t \in Inside : queue # <<>> /\ t = Head(queue)

\* A thread that is coming has a round to do.
RoundInv == \A t \in Coming : works[t] < NumWork

LockInv ==
    TypeOK /\ CellsRecycled /\ QueueInv /\ FlagInv /\ FirstInv /\ RoundInv

\* The increments that have been stored: the n-th of thread t is <<t, n>>.
Stored ==
    {i \in Threads \X (1 .. NumWork) :
        i[2] <= works[i[1]] + (IF pc[i[1]] = "unlock" THEN 1 ELSE 0)}

\* What a thread has loaded is still there when it stores, so every increment
\* counts.
CountInv ==
    /\ cnt_global = Cardinality(Stored)
    /\ \A t \in Threads : pc[t] = "store" => seen[t] = cnt_global

\* The inductive invariant of the program.
CLHInv == LockInv /\ CountInv
=============================================================================
