-------------------------------- MODULE ListHeap --------------------------------
(****************************************************************************)
(* What the four list programs of lab11 have in common: the heap of nodes,  *)
(* the sentinels head and tail, ThreadFunc, and main's joins.               *)
(*                                                                          *)
(* local[t] holds the locals of thread t: pc, the place in the call it is   *)
(* in ("idle" between calls), and the pointers it has.                      *)
(****************************************************************************)
EXTENDS Integers, SetCalls

CONSTANTS Threads,
          MaxKey,       \* keys are 1 .. MaxKey, INT_MIN is 0, INT_MAX one more
          NumWork,      \* num_work: the calls of each thread
          HeapSize      \* bound: the nodes malloc can find

ASSUME MaxKeyAssumption == MaxKey \in Nat
ASSUME NumWorkAssumption == NumWork \in Nat
ASSUME HeapSizeAssumption == HeapSize \in Nat

Keys == 1 .. MaxKey

Null == 0
head == 1
tail == 2
Heap == 3 .. HeapSize + 2
Nodes == {head, tail} \union Heap

VARIABLES key, next, live,     \* the nodes; live: those that are allocated
          local, works,        \* the threads
          call                 \* history, see SetCalls

heap == <<key, next, live>>

Places == {"idle", "start", "walk", "lockcurr", "validate", "invalid", "apply",
           "unlock", "free", "succ", "snip", "found", "linked", "mark", "seek"}

Idle == [pc |-> "idle", prev |-> Null, curr |-> Null, node |-> Null, it |-> Null,
         ret |-> FALSE]

HeapTypeOK ==
    /\ key \in [Nodes -> 0 .. MaxKey + 1]
    /\ next \in [Nodes -> Nodes \union {Null}]
    /\ live \subseteq Nodes
    /\ local \in [Threads -> [pc : Places,
                              prev : Nodes \union {Null}, curr : Nodes \union {Null},
                              node : Heap \union {Null}, it : Nodes \union {Null},
                              ret : BOOLEAN]]
    /\ works \in [Threads -> 0 .. NumWork]
    /\ call \in [Threads -> [op : Ops \union {"none"}, key : 0 .. MaxKey,
                             seen : SUBSET BOOLEAN, changed : BOOLEAN, answer : BOOLEAN]]

HeapInit ==
    /\ key = [n \in Nodes |-> IF n = tail THEN MaxKey + 1 ELSE 0]
    /\ next = [n \in Nodes |-> IF n = head THEN tail ELSE Null]
    /\ live = {head, tail}
    /\ local = [t \in Threads |-> Idle]
    /\ works = [t \in Threads |-> 0]
    /\ call = [t \in Threads |-> Returned(FALSE)]

At(t, place) == local[t].pc = place
Goto(t, place) == local' = [local EXCEPT ![t].pc = place]

-----------------------------------------------------------------------------
(* The list as main sees it when it compares it with result.txt: the nodes  *)
(* on the way from head to tail.                                            *)

Visited[n \in 0 .. HeapSize + 1] ==
    IF n = 0 THEN head
    ELSE IF Visited[n - 1] \in {tail, Null} THEN Visited[n - 1]
    ELSE next[Visited[n - 1]]

Listed == {Visited[n] : n \in 0 .. HeapSize + 1}

\* The way leads to tail over allocated nodes, and their keys increase: so the
\* loop ends, and no key is listed twice.
Sorted ==
    /\ tail \in Listed
    /\ Listed \subseteq live
    /\ \A n \in Listed \ {tail} : key[n] < key[next[n]]

\* From head, the nodes of S lead on within S to larger keys.
Leads(nxt, k, S) ==
    /\ S \subseteq Nodes /\ head \in S
    /\ \A n \in S \ {tail} : nxt[n] \in S /\ k[n] < k[nxt[n]]

-----------------------------------------------------------------------------
(* ThreadFunc.  list_add begins with malloc, which may give it a node that  *)
(* has been freed; its next is not initialised.                             *)

Malloc(t, k) ==
    \E n \in Heap \ live :
        /\ \A m \in Heap \ live : n <= m
        /\ live' = live \union {n}
        /\ key' = [key EXCEPT ![n] = k]
        /\ local' = [local EXCEPT ![t].pc = "start", ![t].node = n]

Begin(t, members) ==
    /\ At(t, "idle")
    /\ works[t] < NumWork
    /\ works' = [works EXCEPT ![t] = @ + 1]
    /\ \E op \in Ops, k \in Keys :
         /\ call' = [call EXCEPT ![t] = Began(op, k, k \in members)]
         /\ IF op = "add" THEN Malloc(t, k)
            ELSE Goto(t, "start") /\ UNCHANGED <<key, live>>
    /\ UNCHANGED next

Return(t, answer) ==
    /\ local' = [local EXCEPT ![t] = Idle]
    /\ call' = [call EXCEPT ![t] = Returned(answer)]

\* main's joins return
AllDone == \A t \in Threads : At(t, "idle") /\ works[t] = NumWork
=============================================================================
