------------------------------ MODULE LockFreeList ------------------------------
(****************************************************************************)
(* lockfree.cpp.  The top bit of a node's next says that the node is being  *)
(* removed; next and the mark are one word, which a CAS compares and writes *)
(* as a whole.  list_find takes marked nodes out of the list as it meets    *)
(* them.                                                                    *)
(*                                                                          *)
(* local[t].it is succ.  pc:  start   before list_find's RETRY, or before   *)
(*                                    list_contains                         *)
(*                            succ    before succ = curr->next              *)
(*                            snip    curr is marked                        *)
(*                            found   list_find has returned                *)
(*                            mark    before the CAS that marks curr        *)
(*                            seek    in the loop of list_contains          *)
(****************************************************************************)
EXTENDS ListHeap

VARIABLE marked          \* the nodes whose next is marked

vars == <<heap, local, works, call, marked>>

members == {key[n] : n \in Listed \ (marked \union {head, tail})}

Init == HeapInit /\ marked = {}

\* the condition of CAS(&n->next, old, new): next is old, and not marked
Unchanged(n, old) == next[n] = old /\ n \notin marked

Prev(t) == local[t].prev
Curr(t) == local[t].curr
Succ(t) == local[t].it
k(t) == call[t].key

-----------------------------------------------------------------------------
(* list_find *)

Find(t) ==
    /\ At(t, "start")
    /\ call[t].op # "contains"
    /\ local' = [local EXCEPT ![t].pc = "succ", ![t].prev = head, ![t].curr = next[head]]
    /\ UNCHANGED <<heap, works, call, marked>>

MeetMarked(t) ==
    /\ At(t, "succ")
    /\ Curr(t) \in marked
    /\ local' = [local EXCEPT ![t].pc = "snip", ![t].it = next[Curr(t)]]
    /\ UNCHANGED <<heap, works, call, marked>>

MeetSmaller(t) ==
    /\ At(t, "succ")
    /\ Curr(t) \notin marked /\ key[Curr(t)] < k(t)
    /\ local' = [local EXCEPT ![t].prev = Curr(t), ![t].curr = next[Curr(t)], ![t].it = Null]
    /\ UNCHANGED <<heap, works, call, marked>>

Found(t) ==
    /\ At(t, "succ")
    /\ Curr(t) \notin marked /\ key[Curr(t)] >= k(t)
    /\ Goto(t, "found")
    /\ UNCHANGED <<heap, works, call, marked>>

Snip(t) ==
    /\ At(t, "snip")
    /\ Unchanged(Prev(t), Curr(t))
    /\ next' = [next EXCEPT ![Prev(t)] = Succ(t)]
    /\ local' = [local EXCEPT ![t].pc = "succ", ![t].curr = Succ(t)]
    /\ UNCHANGED <<key, live, works, call, marked>>

SnipFails(t) ==
    /\ At(t, "snip")
    /\ ~ Unchanged(Prev(t), Curr(t))
    /\ Goto(t, "start")
    /\ UNCHANGED <<heap, works, call, marked>>

-----------------------------------------------------------------------------
(* list_add *)

AddPresent(t) ==
    /\ At(t, "found") /\ call[t].op = "add"
    /\ key[Curr(t)] = k(t)
    /\ live' = live \ {local[t].node}
    /\ Return(t, FALSE)
    /\ UNCHANGED <<key, next, works, marked>>

\* Fault: the CAS compares the pointer and not the mark, as if the mark were
\* kept in a field of its own.
LinkUnlessMoved(t) ==
    /\ At(t, "found") /\ call[t].op = "add"
    /\ key[Curr(t)] # k(t)
    /\ next[Prev(t)] = Curr(t)
    /\ next' = [next EXCEPT ![Prev(t)] = local[t].node, ![local[t].node] = Curr(t)]
    /\ call' = Noticed(call, t, k(t), TRUE)
    /\ Goto(t, "linked")
    /\ UNCHANGED <<key, live, works, marked>>

Link(t) ==
    /\ At(t, "found") /\ call[t].op = "add"
    /\ key[Curr(t)] # k(t)
    /\ Unchanged(Prev(t), Curr(t))
    /\ next' = [next EXCEPT ![Prev(t)] = local[t].node, ![local[t].node] = Curr(t)]
    /\ call' = Noticed(call, t, k(t), TRUE)
    /\ Goto(t, "linked")
    /\ UNCHANGED <<key, live, works, marked>>

AddReturns(t) ==
    /\ At(t, "linked")
    /\ Return(t, TRUE)
    /\ UNCHANGED <<heap, works, marked>>

\* Fault: list_find is called once, before the loop.
LinkFailsForGood(t) ==
    /\ At(t, "found") /\ call[t].op = "add"
    /\ key[Curr(t)] # k(t)
    /\ ~ Unchanged(Prev(t), Curr(t))
    /\ next' = [next EXCEPT ![local[t].node] = Curr(t)]
    /\ UNCHANGED <<key, live, local, works, call, marked>>

LinkFails(t) ==
    /\ At(t, "found") /\ call[t].op = "add"
    /\ key[Curr(t)] # k(t)
    /\ ~ Unchanged(Prev(t), Curr(t))
    /\ next' = [next EXCEPT ![local[t].node] = Curr(t)]
    /\ Goto(t, "start")
    /\ UNCHANGED <<key, live, works, call, marked>>

-----------------------------------------------------------------------------
(* list_remove.  Its loop has one way out: the key is not found.  When its  *)
(* CAS has marked the node it starts over like when the CAS has failed.     *)

RemoveAbsent(t) ==
    /\ At(t, "found") /\ call[t].op = "remove"
    /\ key[Curr(t)] # k(t)
    /\ Return(t, FALSE)
    /\ UNCHANGED <<heap, works, marked>>

LoadVictim(t) ==
    /\ At(t, "found") /\ call[t].op = "remove"
    /\ key[Curr(t)] = k(t)
    /\ local' = [local EXCEPT ![t].pc = "mark", ![t].it = next[Curr(t)]]
    /\ UNCHANGED <<heap, works, call, marked>>

Mark(t) ==
    /\ At(t, "mark")
    /\ Unchanged(Curr(t), Succ(t))
    /\ marked' = marked \union {Curr(t)}
    /\ call' = Noticed(call, t, k(t), FALSE)
    /\ Goto(t, "start")
    /\ UNCHANGED <<heap, works>>

MarkFails(t) ==
    /\ At(t, "mark")
    /\ ~ Unchanged(Curr(t), Succ(t))
    /\ Goto(t, "start")
    /\ UNCHANGED <<heap, works, call, marked>>

-----------------------------------------------------------------------------
(* list_contains: one walk, over marked nodes too *)

StartSeek(t) ==
    /\ At(t, "start")
    /\ call[t].op = "contains"
    /\ local' = [local EXCEPT ![t].pc = "seek", ![t].curr = head]
    /\ UNCHANGED <<heap, works, call, marked>>

Seek(t) ==
    /\ At(t, "seek")
    /\ key[Curr(t)] < k(t)
    /\ local' = [local EXCEPT ![t].curr = next[Curr(t)]]
    /\ UNCHANGED <<heap, works, call, marked>>

\* Fault: a marked node counts.
ContainsMarked(t) ==
    /\ At(t, "seek")
    /\ key[Curr(t)] >= k(t)
    /\ Return(t, key[Curr(t)] = k(t))
    /\ UNCHANGED <<heap, works, marked>>

Contains(t) ==
    /\ At(t, "seek")
    /\ key[Curr(t)] >= k(t)
    /\ Return(t, key[Curr(t)] = k(t) /\ Curr(t) \notin marked)
    /\ UNCHANGED <<heap, works, marked>>

-----------------------------------------------------------------------------
Step(t) ==
    \/ Begin(t, members) /\ UNCHANGED marked
    \/ Find(t) \/ MeetMarked(t) \/ MeetSmaller(t) \/ Found(t) \/ Snip(t) \/ SnipFails(t)
    \/ AddPresent(t) \/ Link(t) \/ AddReturns(t) \/ LinkFails(t)
    \/ RemoveAbsent(t) \/ LoadVictim(t) \/ Mark(t) \/ MarkFails(t)
    \/ StartSeek(t) \/ Seek(t) \/ Contains(t)

Terminating == AllDone /\ UNCHANGED vars

Next == (\E t \in Threads : Step(t)) \/ Terminating

Spec == Init /\ [][Next]_vars

\* A thread that can take a step has a processor again and again.
Fairness == \A t \in Threads : WF_vars(Step(t))

FairSpec == Spec /\ Fairness

-----------------------------------------------------------------------------
(* Properties. *)

Set == INSTANCE SetObject WITH Repeats <- TRUE

\* The list is a set: an add takes effect at its CAS on prev->next, a removal
\* at its mark, and a contains answers what was true during the call, although
\* it walks over marked nodes.  A remove, though, goes on after its mark, may
\* remove a key that was added again meanwhile, and always answers no.
ImplementsSet == Set!Spec

\* The nodes that an add has not linked yet, and those that have ever been in
\* the list.
Adding == {t \in Threads : call[t].op = "add" /\ ~ call[t].changed}
Private == {local[t].node : t \in Adding}
Linked == live \ Private

\* The list is a way to tail with increasing keys, and no insertion is lost: a
\* node that was linked and is not marked is on the way.
MarkInv ==
    /\ HeapTypeOK
    /\ marked \subseteq live \ {head, tail}
    /\ Sorted
    /\ live \ (Private \union marked) \subseteq Listed

\* A node that was linked leads to tail even when it has been taken out.
LinkedOK ==
    /\ Leads(next, key, Linked)
    /\ {tail} \union marked \subseteq Linked
    /\ key[head] = 0 /\ key[tail] = MaxKey + 1

AddersOK ==
    \A t \in Adding :
        /\ local[t].node \in Heap \intersect live
        /\ key[local[t].node] = k(t)
        /\ \A u \in Adding : local[u].node = local[t].node => u = t

\* Where a call can be, and that it has seen what is true now.
PlacesOf(op) ==
    CASE op = "none" -> {"idle"}
      [] op = "add" -> {"start", "succ", "snip", "found", "linked"}
      [] op = "remove" -> {"start", "succ", "snip", "found", "mark"}
      [] op = "contains" -> {"start", "seek"}

CallOK(t) ==
    /\ local[t].pc \in PlacesOf(call[t].op)
    /\ call[t].op \in Ops => k(t) \in Keys /\ (k(t) \in members) \in call[t].seen
    /\ call[t].op = "add" => (call[t].changed <=> At(t, "linked"))

\* list_find has prev and curr on both sides of where the key belongs, though
\* both may have left the list; what it will conclude has been true.
WalkOK(t) ==
    local[t].pc \in {"succ", "snip", "found", "mark"} =>
        /\ {Prev(t), Curr(t)} \subseteq Linked
        /\ key[Prev(t)] < k(t)
        /\ key[Curr(t)] > k(t) => FALSE \in call[t].seen
        /\ At(t, "snip") => Curr(t) \in marked /\ Succ(t) = next[Curr(t)]
        /\ At(t, "found") => /\ key[Curr(t)] >= k(t)
                             /\ key[Curr(t)] = k(t) => TRUE \in call[t].seen
        /\ At(t, "mark") => key[Curr(t)] = k(t)

\* From the nodes of S the walk comes to a node with key x that is not marked.
Reaches(S, x) ==
    \A n \in S : /\ key[n] <= x
                 /\ key[n] < x => next[n] \in S
                 /\ key[n] = x => n \notin marked

\* list_contains will find its key, or has seen it out of the set.
SeekOK(t) ==
    At(t, "seek") =>
        /\ Curr(t) \in Linked
        /\ \/ FALSE \in call[t].seen
           \/ \E S \in SUBSET Linked : Curr(t) \in S /\ Reaches(S, k(t))

\* MarkInv with what it takes to be kept by every step, and with the reasons why
\* each answer is right.
LockFreeInv ==
    /\ MarkInv /\ LinkedOK /\ AddersOK
    /\ \A t \in Threads : CallOK(t) /\ WalkOK(t) /\ SeekOK(t)

\* Every call returns: each time a CAS fails, another has got on.
JoinsReturn == <>AllDone

\* A remove that has taken its key out of the set returns true.
RemoveReports ==
    [][\A t \in Threads :
          call[t].op = "remove" /\ call[t].changed /\ call'[t].op = "none"
             => call'[t].answer]_vars
=============================================================================
