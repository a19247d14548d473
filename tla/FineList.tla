-------------------------------- MODULE FineList --------------------------------
(* fine_grained.cpp: hand over hand, a call holds the mutexes of prev and curr. *)
EXTENDS ListMutex

FineStart(t) ==
    /\ At(t, "start")
    /\ Acquire(t, head)
    /\ local' = [local EXCEPT ![t].pc = "lockcurr", ![t].prev = head, ![t].curr = next[head]]
    /\ UNCHANGED <<heap, works, call>>

\* Fault: the thread holds the mutex of prev only.
FineLockNothing(t) ==
    /\ At(t, "lockcurr")
    /\ Goto(t, "walk")
    /\ UNCHANGED <<heap, works, call, mutex>>

FineLockCurr(t) ==
    /\ At(t, "lockcurr")
    /\ Acquire(t, local[t].curr)
    /\ Goto(t, "walk")
    /\ UNCHANGED <<heap, works, call>>

FineWalk(t) ==
    /\ At(t, "walk")
    /\ Before(t)
    /\ Release({local[t].prev})
    /\ local' = [local EXCEPT ![t].pc = "lockcurr",
                              ![t].prev = local[t].curr, ![t].curr = next[local[t].curr]]
    /\ UNCHANGED <<heap, works, call>>

FineAdd(t) == At(t, "walk") /\ ~ Before(t) /\ Add(t)
FineRemove(t) == At(t, "walk") /\ ~ Before(t) /\ Remove(t)
FineContains(t) == At(t, "walk") /\ ~ Before(t) /\ Contains(t)

FineUnlock(t) == UnlockAndFree(t, {local[t].prev, local[t].curr})

FineStep(t) ==
    \/ FineStart(t) \/ FineLockCurr(t) \/ FineWalk(t)
    \/ FineAdd(t) \/ FineRemove(t) \/ FineContains(t)
    \/ FineUnlock(t) \/ FreeRemoved(t)
=============================================================================
