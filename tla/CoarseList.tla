------------------------------- MODULE CoarseList -------------------------------
(* coarse_grained.cpp: every call holds the giant mutex. *)
EXTENDS ListMutex

CoarseStart(t) ==
    /\ At(t, "start")
    /\ Acquire(t, Giant)
    /\ local' = [local EXCEPT ![t].pc = "walk", ![t].prev = head, ![t].curr = next[head]]
    /\ UNCHANGED <<heap, works, call>>

CoarseAdd(t) == At(t, "walk") /\ ~ Before(t) /\ Add(t)
CoarseRemove(t) == At(t, "walk") /\ ~ Before(t) /\ Remove(t)
CoarseContains(t) == At(t, "walk") /\ ~ Before(t) /\ Contains(t)

CoarseUnlock(t) == UnlockAndFree(t, {Giant})

CoarseStep(t) ==
    \/ CoarseStart(t) \/ Walk(t)
    \/ CoarseAdd(t) \/ CoarseRemove(t) \/ CoarseContains(t)
    \/ CoarseUnlock(t) \/ FreeRemoved(t)
=============================================================================
