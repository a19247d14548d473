----------------------------- MODULE UnboundedQueue -----------------------------
(****************************************************************************)
(* lab13's lock-free queue: a linked list that starts at the node head      *)
(* points to, whose key has been taken, and ends at the node tail points to *)
(* or one behind it.  Every key is enqueued once, so a node is named by its *)
(* key.                                                                     *)
(*                                                                          *)
(* pc of a producer:  load     before curr = tail, or between two keys      *)
(*                    link     before the CAS on curr->next                 *)
(*                    help     that CAS has failed                          *)
(*                    swing    it has succeeded; before the CAS on tail     *)
(* pc of a consumer:  load     before prev = head, or between two keys      *)
(*                    follow   before curr = prev->next                     *)
(*                    take     before the CAS on head                       *)
(*                    verify   has a key to tick off                        *)
(****************************************************************************)
EXTENDS Integers, Sequences

CONSTANTS NumProducer, NumEnqueue

ASSUME NumProducerAssumption == NumProducer \in Nat
ASSUME NumEnqueueAssumption == NumEnqueue \in Nat

Producers == 0 .. NumProducer - 1
Consumers == NumProducer .. 2 * NumProducer - 1
Threads == Producers \union Consumers
Keys == 0 .. NumProducer * NumEnqueue - 1

Sentinel == -1
Null == -2                    \* the null pointer
Nodes == Keys \union {Sentinel}

VARIABLES next, head, tail,            \* the queue; next[n]: node n's
          pc, prev, curr, works,       \* the threads
          flag_verification, verdict   \* the keys ticked off; main's output

\* History: the keys in the order they were linked, and the keys in the order
\* they were taken.
VARIABLES linked, taken

queueVars == <<next, head, tail, linked, taken>>
mainVars == <<flag_verification, verdict>>
vars == <<queueVars, pc, prev, curr, works, mainVars>>

TypeOK ==
    /\ next \in [Nodes -> Keys \union {Null}]
    /\ head \in Nodes /\ tail \in Nodes
    /\ pc \in [Threads -> {"load", "link", "help", "swing", "follow", "take", "verify"}]
    /\ prev \in [Consumers -> Nodes]
    /\ curr \in [Threads -> Nodes \union {Null}]
    /\ works \in [Threads -> 0 .. NumEnqueue]
    /\ flag_verification \subseteq Keys
    /\ verdict \in {"none", "CORRECT!", "INCORRECT!"}
    /\ linked \in Seq(Keys) /\ taken \in Seq(Keys)

\* The constructor of a node leaves next as it finds it; memory that was never
\* used before is zero, and this program frees nothing.
Init ==
    /\ next = [n \in Nodes |-> Null]
    /\ head = Sentinel /\ tail = Sentinel
    /\ pc = [t \in Threads |-> "load"]
    /\ prev = [t \in Consumers |-> Sentinel]
    /\ curr = [t \in Threads |-> Sentinel]
    /\ works = [t \in Threads |-> 0]
    /\ flag_verification = {} /\ verdict = "none"
    /\ linked = <<>> /\ taken = <<>>

Goto(t, place) == pc' = [pc EXCEPT ![t] = place]

-----------------------------------------------------------------------------
(* enqueue() *)

\* The node of the call, by its key: ProducerFunc's key_enqueue.
NodeOf(t) == NumEnqueue * t + works[t]

LoadTail(t) ==
    /\ pc[t] = "load"
    /\ works[t] < NumEnqueue
    /\ curr' = [curr EXCEPT ![t] = tail]
    /\ Goto(t, "link")
    /\ UNCHANGED <<queueVars, prev, works, mainVars>>

\* Fault: a store instead of a CAS, which always succeeds.
LinkByStore(t) ==
    /\ pc[t] = "link"
    /\ next' = [next EXCEPT ![curr[t]] = NodeOf(t)]
    /\ linked' = Append(linked, NodeOf(t))
    /\ Goto(t, "swing")
    /\ UNCHANGED <<head, tail, taken, prev, curr, works, mainVars>>

Link(t) ==
    /\ pc[t] = "link"
    /\ next[curr[t]] = Null
    /\ next' = [next EXCEPT ![curr[t]] = NodeOf(t)]
    /\ linked' = Append(linked, NodeOf(t))
    /\ Goto(t, "swing")
    /\ UNCHANGED <<head, tail, taken, prev, curr, works, mainVars>>

LinkFails(t) ==
    /\ pc[t] = "link"
    /\ next[curr[t]] # Null
    /\ Goto(t, "help")
    /\ UNCHANGED <<queueVars, prev, curr, works, mainVars>>

CASTail(old, new) == tail' = IF tail = old THEN new ELSE tail

Help(t) ==
    /\ pc[t] = "help"
    /\ CASTail(curr[t], next[curr[t]])
    /\ Goto(t, "load")
    /\ UNCHANGED <<next, head, linked, taken, prev, curr, works, mainVars>>

\* Fault: a store instead of a CAS.
SwingByStore(t) ==
    /\ pc[t] = "swing"
    /\ tail' = NodeOf(t)
    /\ works' = [works EXCEPT ![t] = @ + 1]
    /\ Goto(t, "load")
    /\ UNCHANGED <<next, head, linked, taken, prev, curr, mainVars>>

Swing(t) ==
    /\ pc[t] = "swing"
    /\ CASTail(curr[t], NodeOf(t))
    /\ works' = [works EXCEPT ![t] = @ + 1]
    /\ Goto(t, "load")
    /\ UNCHANGED <<next, head, linked, taken, prev, curr, mainVars>>

-----------------------------------------------------------------------------
(* dequeue() *)

LoadHead(t) ==
    /\ pc[t] = "load"
    /\ works[t] < NumEnqueue
    /\ prev' = [prev EXCEPT ![t] = head]
    /\ Goto(t, "follow")
    /\ UNCHANGED <<queueVars, curr, works, mainVars>>

\* an empty queue: the loop starts again
Follow(t) ==
    /\ pc[t] = "follow"
    /\ curr' = [curr EXCEPT ![t] = next[prev[t]]]
    /\ Goto(t, IF next[prev[t]] = Null THEN "load" ELSE "take")
    /\ UNCHANGED <<queueVars, prev, works, mainVars>>

\* Fault: a store instead of a CAS.
TakeByStore(t) ==
    /\ pc[t] = "take"
    /\ head' = curr[t]
    /\ taken' = Append(taken, curr[t])
    /\ Goto(t, "verify")
    /\ UNCHANGED <<next, tail, linked, prev, curr, works, mainVars>>

Take(t) ==
    /\ pc[t] = "take"
    /\ head = prev[t]
    /\ head' = curr[t]
    /\ taken' = Append(taken, curr[t])
    /\ Goto(t, "verify")
    /\ UNCHANGED <<next, tail, linked, prev, curr, works, mainVars>>

\* Fault: the consumer returns the key although another has taken it.
TakeFailsUnnoticed(t) ==
    /\ pc[t] = "take"
    /\ head # prev[t]
    /\ Goto(t, "verify")
    /\ UNCHANGED <<queueVars, prev, curr, works, mainVars>>

TakeFails(t) ==
    /\ pc[t] = "take"
    /\ head # prev[t]
    /\ Goto(t, "load")
    /\ UNCHANGED <<queueVars, prev, curr, works, mainVars>>

-----------------------------------------------------------------------------
(* ConsumerFunc and main *)

Verify(t) ==
    /\ pc[t] = "verify"
    /\ flag_verification' = flag_verification \union {curr[t]}
    /\ works' = [works EXCEPT ![t] = @ + 1]
    /\ Goto(t, "load")
    /\ UNCHANGED <<queueVars, prev, curr, verdict>>

AllDone == \A t \in Threads : pc[t] = "load" /\ works[t] = NumEnqueue

\* main has joined the threads
Judge ==
    /\ AllDone /\ verdict = "none"
    /\ verdict' = IF Keys \subseteq flag_verification THEN "CORRECT!" ELSE "INCORRECT!"
    /\ UNCHANGED <<queueVars, pc, prev, curr, works, flag_verification>>

Terminating == verdict # "none" /\ UNCHANGED vars

Produce(t) ==
    LoadTail(t) \/ Link(t) \/ LinkFails(t) \/ Help(t) \/ Swing(t)
Consume(t) ==
    LoadHead(t) \/ Follow(t) \/ Take(t) \/ TakeFails(t) \/ Verify(t)

Next ==
    \/ \E t \in Producers : Produce(t)
    \/ \E t \in Consumers : Consume(t)
    \/ Judge
    \/ Terminating

Spec == Init /\ [][Next]_vars

\* A thread that can take a step has a processor again and again; main too.
Fairness ==
    /\ \A t \in Producers : WF_vars(Produce(t))
    /\ \A t \in Consumers : WF_vars(Consume(t))
    /\ WF_vars(Judge)

FairSpec == Spec /\ Fairness

-----------------------------------------------------------------------------
(* Properties. *)

Abstract == INSTANCE FIFOQueue WITH put <- linked

\* The list is a first-in-first-out queue: an enqueue takes effect at its CAS
\* on next, a dequeue at its CAS on head, and what dequeues return is what was
\* put, in that order, each key once.
ImplementsFIFOQueue == Abstract!Spec

\* The n-th node of the list, from the sentinel at 0.
NodeAt(n) == IF n = 0 THEN Sentinel ELSE linked[n]

Listed(n) == \E i \in 0 .. Len(linked) : NodeAt(i) = n

\* next runs through the nodes in the order they were linked, and ends; a node
\* that is not linked yet ends there too.
OrderInv ==
    /\ \A m, n \in 1 .. Len(linked) : linked[m] = linked[n] => m = n
    /\ \A n \in 0 .. Len(linked) - 1 : next[NodeAt(n)] = linked[n + 1]
    /\ next[NodeAt(Len(linked))] = Null
    /\ \A k \in Keys : ~ Listed(k) => next[k] = Null

\* head is behind the keys taken.
HeadInv == Len(taken) <= Len(linked) /\ head = NodeAt(Len(taken))

\* tail is the last node, or the last but one while the producer of the last,
\* and nobody else, has its CAS on tail before it.
TailInv ==
    \/ tail = NodeAt(Len(linked))
    \/ /\ linked # <<>> /\ tail = NodeAt(Len(linked) - 1)
       /\ \E t \in Producers :
            pc[t] = "swing" /\ NodeOf(t) = linked[Len(linked)] /\ curr[t] = tail

\* A node that tail has passed or points to.
UpToTail(n) ==
    \E i \in 0 .. Len(linked) : \E j \in i .. Len(linked) :
        NodeAt(i) = n /\ NodeAt(j) = tail

\* The keys of a producer that are in the list.
Sent(t) == {k \in Keys : k < NodeOf(t) \/ (k = NodeOf(t) /\ pc[t] = "swing")}

ProducerOK(t) ==
    /\ \A k \in NumEnqueue * t .. NumEnqueue * (t + 1) - 1 : Listed(k) <=> k \in Sent(t)
    /\ pc[t] # "load" => works[t] < NumEnqueue /\ UpToTail(curr[t])
    /\ pc[t] = "help" => next[curr[t]] # Null
    /\ pc[t] = "swing" => next[curr[t]] = NodeOf(t)

ConsumerOK(t) ==
    /\ pc[t] # "load" => works[t] < NumEnqueue
    /\ pc[t] \in {"follow", "take"} => Listed(prev[t])
    /\ pc[t] = "take" => curr[t] = next[prev[t]] /\ curr[t] # Null
    /\ pc[t] = "verify" => Listed(curr[t]) /\ curr[t] # Sentinel

\* The inductive invariant.  tail falls behind by one at most, although a
\* consumer may by then have moved head past it: a producer can link its node
\* only behind the node tail pointed to, so only when tail has caught up.
ListInv ==
    /\ TypeOK /\ OrderInv /\ HeadInv /\ TailInv
    /\ \A t \in Producers : ProducerOK(t)
    /\ \A t \in Consumers : ConsumerOK(t)

\* Every enqueue and every dequeue returns and main finds every key ticked off.
AllDelivered == <>(verdict = "CORRECT!")
=============================================================================
