----------------------------- MODULE OptimisticList -----------------------------
(****************************************************************************)
(* optimistic.cpp: a call walks without locks, locks prev and curr, and     *)
(* walks again to see whether they are still in the list, side by side; if  *)
(* not it starts over.  Nodes are not freed.                                *)
(****************************************************************************)
EXTENDS ListMutex

OptimisticStart(t) ==
    /\ At(t, "start")
    /\ local' = [local EXCEPT ![t].pc = "walk", ![t].prev = head, ![t].curr = next[head]]
    /\ UNCHANGED <<heap, works, call, mutex>>

LockPrev(t) ==
    /\ At(t, "walk")
    /\ ~ Before(t)
    /\ Acquire(t, local[t].prev)
    /\ Goto(t, "lockcurr")
    /\ UNCHANGED <<heap, works, call>>

LockCurr(t) ==
    /\ At(t, "lockcurr")
    /\ Acquire(t, local[t].curr)
    /\ local' = [local EXCEPT ![t].pc = "validate", ![t].it = head]
    /\ UNCHANGED <<heap, works, call>>

\* list_validate: it goes on while it->key <= prev->key and it is not prev.
ValidateWalk(t) ==
    /\ At(t, "validate")
    /\ key[local[t].it] <= key[local[t].prev] /\ local[t].it # local[t].prev
    /\ local' = [local EXCEPT ![t].it = next[local[t].it]]
    /\ UNCHANGED <<heap, works, call, mutex>>

\* Fault: prev is still in the list, that is enough.
ValidatePrev(t) ==
    /\ At(t, "validate")
    /\ local[t].it = local[t].prev
    /\ Goto(t, "apply")
    /\ UNCHANGED <<heap, works, call, mutex>>

Validate(t) ==
    /\ At(t, "validate")
    /\ local[t].it = local[t].prev /\ next[local[t].it] = local[t].curr
    /\ Goto(t, "apply")
    /\ UNCHANGED <<heap, works, call, mutex>>

ValidateFails(t) ==
    /\ At(t, "validate")
    /\ IF local[t].it = local[t].prev
       THEN next[local[t].it] # local[t].curr
       ELSE key[local[t].it] > key[local[t].prev]
    /\ Goto(t, "invalid")
    /\ UNCHANGED <<heap, works, call, mutex>>

\* Fault: the thread starts over without unlocking.
RetryLocked(t) ==
    /\ At(t, "invalid")
    /\ Goto(t, "start")
    /\ UNCHANGED <<heap, works, call, mutex>>

Retry(t) ==
    /\ At(t, "invalid")
    /\ Release({local[t].prev, local[t].curr})
    /\ Goto(t, "start")
    /\ UNCHANGED <<heap, works, call>>

OptimisticAdd(t) == At(t, "apply") /\ Add(t)
OptimisticRemove(t) == At(t, "apply") /\ Remove(t)
OptimisticContains(t) == At(t, "apply") /\ Contains(t)

\* Fault: a removed node is freed.
OptimisticUnlockFrees(t) ==
    /\ At(t, "unlock")
    /\ Release({local[t].prev, local[t].curr})
    /\ live' = IF call[t].op = "remove" /\ local[t].ret THEN live \ {local[t].curr} ELSE live
    /\ Return(t, local[t].ret)
    /\ UNCHANGED <<key, next, works>>

OptimisticUnlock(t) ==
    /\ At(t, "unlock")
    /\ Release({local[t].prev, local[t].curr})
    /\ Return(t, local[t].ret)
    /\ UNCHANGED <<heap, works>>

OptimisticStep(t) ==
    \/ OptimisticStart(t) \/ Walk(t) \/ LockPrev(t) \/ LockCurr(t)
    \/ ValidateWalk(t) \/ Validate(t) \/ ValidateFails(t) \/ Retry(t)
    \/ OptimisticAdd(t) \/ OptimisticRemove(t) \/ OptimisticContains(t)
    \/ OptimisticUnlock(t)
=============================================================================
