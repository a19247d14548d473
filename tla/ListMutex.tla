------------------------------- MODULE ListMutex -------------------------------
(****************************************************************************)
(* What the three list programs with mutexes have in common.  There is one  *)
(* mutex in every node, and Giant, the one of the coarse-grained program.   *)
(****************************************************************************)
EXTENDS ListHeap

CONSTANT Free           \* a mutex nobody holds

ASSUME FreeAssumption == Free \notin Threads

Giant == 0

VARIABLE mutex

Acquire(t, n) == mutex[n] = Free /\ mutex' = [mutex EXCEPT ![n] = t]
Release(S) == mutex' = [n \in DOMAIN mutex |-> IF n \in S THEN Free ELSE mutex[n]]

\* curr->key < key, the condition of every loop
Before(t) == key[local[t].curr] < call[t].key
Found(t) == key[local[t].curr] = call[t].key

\* A loop without locks of its own: while (curr->key < key) prev = curr, ...
Walk(t) ==
    /\ At(t, "walk")
    /\ Before(t)
    /\ local' = [local EXCEPT ![t].prev = local[t].curr, ![t].curr = next[local[t].curr]]
    /\ UNCHANGED <<heap, works, call, mutex>>

\* The nodes the two assignments write belong to the thread alone.
Link(t) ==
    /\ ~ Found(t)
    /\ next' = [next EXCEPT ![local[t].prev] = local[t].node, ![local[t].node] = local[t].curr]
    /\ call' = Noticed(call, t, call[t].key, TRUE)
    /\ local' = [local EXCEPT ![t].pc = "unlock", ![t].ret = TRUE]
    /\ UNCHANGED <<key, live, works, mutex>>

Unlink(t) ==
    /\ Found(t)
    /\ next' = [next EXCEPT ![local[t].prev] = next[local[t].curr]]
    /\ call' = Noticed(call, t, call[t].key, FALSE)
    /\ local' = [local EXCEPT ![t].pc = "unlock", ![t].ret = TRUE]
    /\ UNCHANGED <<key, live, works, mutex>>

Answer(t, answer) ==
    /\ local' = [local EXCEPT ![t].pc = "unlock", ![t].ret = answer]
    /\ UNCHANGED <<heap, works, call, mutex>>

\* list_add, list_remove and list_contains when curr has been found
Add(t) == call[t].op = "add" /\ (Link(t) \/ (Found(t) /\ Answer(t, FALSE)))
Remove(t) == call[t].op = "remove" /\ (Unlink(t) \/ (~ Found(t) /\ Answer(t, FALSE)))
Contains(t) == call[t].op = "contains" /\ Answer(t, Found(t))

\* Unlock S and return, or go on to free the node that was removed; prev is not
\* used any more.
UnlockAndFree(t, S) ==
    /\ At(t, "unlock")
    /\ Release(S)
    /\ IF call[t].op = "remove" /\ local[t].ret
       THEN local' = [local EXCEPT ![t].pc = "free", ![t].prev = Null] /\ UNCHANGED call
       ELSE Return(t, local[t].ret)
    /\ UNCHANGED <<heap, works>>

FreeRemoved(t) ==
    /\ At(t, "free")
    /\ live' = live \ {local[t].curr}
    /\ Return(t, TRUE)
    /\ UNCHANGED <<key, next, works, mutex>>
=============================================================================
