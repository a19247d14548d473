------------------------------ MODULE LockedLists ------------------------------
(****************************************************************************)
(* The three list programs with mutexes, against one specification.         *)
(* program says which of them runs and never changes.                       *)
(****************************************************************************)
EXTENDS CoarseList, FineList, OptimisticList

VARIABLE program

vars == <<heap, local, works, call, mutex, program>>

members == {key[n] : n \in Listed \ {head, tail}}

Init ==
    /\ HeapInit
    /\ mutex = [n \in Nodes \union {Giant} |-> Free]
    /\ program \in {"coarse", "fine", "optimistic"}

Step(t) ==
    /\ \/ Begin(t, members) /\ UNCHANGED mutex
       \/ program = "coarse" /\ CoarseStep(t)
       \/ program = "fine" /\ FineStep(t)
       \/ program = "optimistic" /\ OptimisticStep(t)
    /\ UNCHANGED program

Terminating == AllDone /\ UNCHANGED vars

Next == (\E t \in Threads : Step(t)) \/ Terminating

Spec == Init /\ [][Next]_vars

\* A thread that can take a step has a processor again and again.
Fairness == \A t \in Threads : WF_vars(Step(t))

FairSpec == Spec /\ Fairness

-----------------------------------------------------------------------------
(* Properties. *)

Set == INSTANCE SetObject WITH Repeats <- FALSE

\* Each program is a set: a call changes it once, at its assignment to
\* prev->next, and answers what was true during the call.
ImplementsSet == Set!Spec

\* No thread has a pointer to a node that has been freed, although the lists
\* with locks free a node when they have unlocked it.
NoneDangling ==
    \A t \in Threads :
        {local[t].prev, local[t].curr, local[t].node, local[t].it} \subseteq live \union {Null}

\* The list is a way to tail with increasing keys, at all times: a walk without
\* locks always finds a next node, and comes to a key that is not smaller.
ListInv ==
    /\ HeapTypeOK
    /\ mutex \in [Nodes \union {Giant} -> Threads \union {Free}]
    /\ program \in {"coarse", "fine", "optimistic"}
    /\ Sorted

\* The nodes a thread may come to: those that are listed and, as the walks of
\* the optimistic program have no locks, those that it has taken out.
Known ==
    IF program = "optimistic" THEN {n \in Nodes : n = tail \/ next[n] # Null} ELSE Listed

KnownOK ==
    /\ Leads(next, key, Known)
    /\ Known \subseteq live
    /\ key[head] = 0 /\ key[tail] = MaxKey + 1

\* The nodes that thread t alone can write or free: the one that its add has not
\* linked yet, and the one that its remove is going to free.
Own(t) ==
    {n \in Nodes :
        \/ call[t].op = "add" /\ ~ call[t].changed /\ n = local[t].node
        \/ /\ program # "optimistic"
           /\ call[t].op = "remove" /\ call[t].changed /\ n = local[t].curr}

OwnOK(t) ==
    /\ Own(t) \subseteq live \ Known
    /\ call[t].op = "add" => local[t].node \in Heap
    /\ call[t].op = "add" /\ ~ call[t].changed => key[local[t].node] = call[t].key

PlacesOf(p) ==
    CASE p = "coarse" -> {"idle", "start", "walk", "unlock", "free"}
      [] p = "fine" -> {"idle", "start", "walk", "lockcurr", "unlock", "free"}
      [] p = "optimistic" -> {"idle", "start", "walk", "lockcurr", "validate", "invalid",
                              "apply", "unlock"}

OwnApart == \A t, u \in Threads : t # u => Own(t) \intersect Own(u) = {}

\* Where a call can be, that it has seen what is true now, and that the answer
\* it goes to unlock with is right.
CallOK(t) ==
    /\ local[t].pc \in PlacesOf(program)
    /\ call[t].op = "none" <=> At(t, "idle")
    /\ call[t].op \in Ops =>
         call[t].key \in Keys /\ (call[t].key \in members) \in call[t].seen
    /\ call[t].changed => local[t].pc \in {"unlock", "free"}
    /\ At(t, "unlock") => MayAnswer(call[t], local[t].ret, FALSE)
    /\ At(t, "free") => call[t].op = "remove" /\ call[t].changed

\* The mutexes a thread holds from where to where.
LockOf(n) == IF program = "coarse" THEN Giant ELSE n

HoldsPrev(t) ==
    local[t].pc \in CASE program = "coarse" -> {"walk", "unlock"}
                      [] program = "fine" -> {"lockcurr", "walk", "unlock"}
                      [] program = "optimistic" ->
                           {"lockcurr", "validate", "invalid", "apply", "unlock"}

HoldsCurr(t) == HoldsPrev(t) /\ ~ At(t, "lockcurr")

LocksOK(t) ==
    /\ HoldsPrev(t) => mutex[LockOf(local[t].prev)] = t
    /\ HoldsCurr(t) => mutex[LockOf(local[t].curr)] = t

\* No pointer leads to a node that has been freed: a thread without mutexes has
\* none, unless nodes are not freed.
PointersOK(t) ==
    /\ {local[t].prev, local[t].curr, local[t].node, local[t].it}
         \subseteq Known \union Own(t) \union {Null}
    /\ call[t].op # "add" => local[t].node = Null
    /\ program # "optimistic" =>
         /\ local[t].it = Null
         /\ local[t].pc \in {"idle", "start", "free"} => local[t].prev = Null
         /\ local[t].pc \in {"idle", "start"} => local[t].curr = Null

\* prev is before the place of the key, and curr, when the walk has ended, is not.
SearchOK(t) ==
    local[t].pc \notin {"idle", "start", "free"} =>
        /\ local[t].prev \in Known
        /\ ~ call[t].changed => local[t].curr \in Known
        /\ key[local[t].prev] < call[t].key
        /\ program = "optimistic" /\ local[t].pc \in {"lockcurr", "validate", "apply"} =>
             key[local[t].curr] >= call[t].key

\* From where to where prev and curr are side by side in the list: with hand
\* over hand because the walk holds mutexes, in the optimistic program because
\* it has validated them.
Secure(t) ==
    local[t].pc \in CASE program = "coarse" -> {"walk", "unlock"}
                      [] program = "fine" -> {"lockcurr", "walk", "unlock"}
                      [] program = "optimistic" -> {"apply", "unlock"}

SecureOK(t) ==
    Secure(t) =>
        /\ local[t].prev \in Listed
        /\ ~ call[t].changed => next[local[t].prev] = local[t].curr
        /\ call[t].op = "add" /\ call[t].changed => next[local[t].prev] = local[t].node

\* When prev has been taken out, list_validate will not meet it.
ValidateOK(t) ==
    At(t, "validate") =>
        /\ local[t].it \in Known
        /\ \/ local[t].prev \in Listed
           \/ \E S \in SUBSET Known :
                /\ local[t].it \in S /\ local[t].prev \notin S
                /\ \A n \in S \ {tail} : next[n] \in S

ThreadOK(t) ==
    /\ OwnOK(t) /\ CallOK(t) /\ LocksOK(t) /\ PointersOK(t)
    /\ SearchOK(t) /\ SecureOK(t) /\ ValidateOK(t)

\* ListInv with what it takes to be kept by every step, and with the reasons why
\* a thread may write the nodes it writes.
LockedInv == ListInv /\ KnownOK /\ OwnApart /\ \A t \in Threads : ThreadOK(t)

\* Every call returns, and main's joins with it: no thread keeps a lock another
\* needs, and no thread starts over for ever.
JoinsReturn == <>AllDone
=============================================================================
