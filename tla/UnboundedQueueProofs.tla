-------------------------- MODULE UnboundedQueueProofs --------------------------
(****************************************************************************)
(* Theorems about the unbounded queue, for every number of producers and of *)
(* keys.                                                                    *)
(****************************************************************************)
EXTENDS UnboundedQueue, TLAPS

USE NumProducerAssumption, NumEnqueueAssumption

\* Multiplication is monotonic.
LEMMA Multiples ==
  ASSUME NEW m \in Nat, NEW n \in Nat, m <= n
  PROVE  NumEnqueue * m <= NumEnqueue * n
<1>1. NumEnqueue * (n - m) >= 0
  OBVIOUS
<1>2. NumEnqueue * (n - m) = NumEnqueue * n - NumEnqueue * m
  OBVIOUS
<1> QED BY <1>1, <1>2

\* The keys of the producers are intervals of Keys, one behind the other.
LEMMA KeysOfProducers ==
  ASSUME NEW t \in Producers, NEW w \in 0 .. NumEnqueue - 1
  PROVE  /\ NumEnqueue * t + w \in Keys
         /\ NumEnqueue * t \in Nat
         /\ NumEnqueue * (t + 1) = NumEnqueue * t + NumEnqueue
         /\ NumEnqueue * t + w \in NumEnqueue * t .. NumEnqueue * (t + 1) - 1
         /\ \A u \in Producers :
              u # t => NumEnqueue * t + w \notin NumEnqueue * u .. NumEnqueue * (u + 1) - 1
<1>1. t \in Nat /\ t + 1 \in Nat /\ t + 1 <= NumProducer
  BY DEF Producers
<1>2. NumEnqueue * (t + 1) = NumEnqueue * t + NumEnqueue
  BY <1>1
<1>3. NumEnqueue * t \in Nat
  BY <1>1
<1>4. NumEnqueue * (t + 1) <= NumEnqueue * NumProducer
  BY <1>1, Multiples
<1>5. NumEnqueue * t + w \in Keys
  <2>1. NumEnqueue * NumProducer = NumProducer * NumEnqueue /\ NumProducer * NumEnqueue \in Nat
    OBVIOUS
  <2> QED BY <1>2, <1>3, <1>4, <2>1 DEF Keys
<1>6. NumEnqueue * t + w \in NumEnqueue * t .. NumEnqueue * (t + 1) - 1
  BY <1>2, <1>3
<1>7. ASSUME NEW u \in Producers, u # t,
             NumEnqueue * t + w \in NumEnqueue * u .. NumEnqueue * (u + 1) - 1
      PROVE  FALSE
  <2>1. u \in Nat /\ u + 1 \in Nat
    BY DEF Producers
  <2>2. NumEnqueue * u \in Nat /\ NumEnqueue * (u + 1) \in Nat
    BY <2>1
  <2>3. CASE u < t
    <3>1. NumEnqueue * (u + 1) <= NumEnqueue * t
      BY <1>1, <2>1, <2>3, Multiples
    <3> QED BY <1>3, <1>7, <2>2, <3>1
  <2>4. CASE t < u
    <3>1. NumEnqueue * (t + 1) <= NumEnqueue * u
      BY <1>1, <2>1, <2>4, Multiples
    <3> QED BY <1>2, <1>3, <1>7, <2>2, <3>1
  <2> QED BY <1>1, <1>7, <2>1, <2>3, <2>4
<1> QED BY <1>2, <1>3, <1>5, <1>6, <1>7

-----------------------------------------------------------------------------
(* The list. *)

\* The sentinel, the null pointer and the keys are apart.
LEMMA Apart ==
  /\ Sentinel \notin Keys /\ Null \notin Keys /\ Sentinel # Null
  /\ Keys \subseteq Nodes /\ Sentinel \in Nodes /\ Null \notin Nodes
  BY DEF Sentinel, Null, Keys, Nodes

\* What is on the list.
LEMMA NodesOfList ==
  ASSUME TypeOK
  PROVE  /\ Len(linked) \in Nat
         /\ NodeAt(0) = Sentinel
         /\ \A n \in 1 .. Len(linked) : NodeAt(n) = linked[n] /\ NodeAt(n) \in Keys
         /\ \A n \in 0 .. Len(linked) : NodeAt(n) \in Nodes
<1>1. Len(linked) \in Nat /\ \A n \in 1 .. Len(linked) : linked[n] \in Keys
  BY DEF TypeOK
<1>2. NodeAt(0) = Sentinel
  BY DEF NodeAt
<1>3. \A n \in 1 .. Len(linked) : NodeAt(n) = linked[n]
  BY DEF NodeAt
<1>4. ASSUME NEW n \in 0 .. Len(linked) PROVE NodeAt(n) \in Nodes
  <2>1. n = 0 \/ n \in 1 .. Len(linked)
    BY <1>1
  <2> QED BY <1>1, <1>2, <1>3, <2>1, Apart
<1> QED BY <1>1, <1>2, <1>3, <1>4

\* No node is on the list twice.
LEMMA NodesDistinct ==
  ASSUME TypeOK, OrderInv, NEW m \in 0 .. Len(linked), NEW n \in 0 .. Len(linked),
         NodeAt(m) = NodeAt(n)
  PROVE  m = n
<1>1. (m = 0 \/ m \in 1 .. Len(linked)) /\ (n = 0 \/ n \in 1 .. Len(linked))
  BY NodesOfList
<1> QED BY <1>1, NodesOfList, Apart DEF OrderInv

\* Where the next pointers lead.
LEMMA NextNodes ==
  ASSUME TypeOK, OrderInv, NEW n \in 0 .. Len(linked)
  PROVE  /\ n < Len(linked) => /\ n + 1 \in 1 .. Len(linked)
                              /\ next[NodeAt(n)] = NodeAt(n + 1)
                              /\ next[NodeAt(n)] = linked[n + 1]
         /\ next[NodeAt(n)] = Null <=> n = Len(linked)
<1>1. CASE n < Len(linked)
  <2>1. n + 1 \in 1 .. Len(linked) /\ n \in 0 .. Len(linked) - 1
    BY <1>1, NodesOfList
  <2>2. next[NodeAt(n)] = linked[n + 1]
    BY <2>1 DEF OrderInv
  <2> QED BY <1>1, <2>1, <2>2, NodesOfList, Apart
<1>2. CASE n = Len(linked)
  BY <1>2, NodesOfList DEF OrderInv
<1> QED BY <1>1, <1>2, NodesOfList

\* What linking a key does to the list.
LEMMA LinkNode ==
  ASSUME TypeOK, NEW k \in Keys, linked' = Append(linked, k)
  PROVE  /\ linked' \in Seq(Keys)
         /\ Len(linked') = Len(linked) + 1
         /\ linked'[Len(linked) + 1] = k
         /\ \A n \in 1 .. Len(linked) : linked'[n] = linked[n]
         /\ \A n \in 0 .. Len(linked) : NodeAt(n)' = NodeAt(n)
         /\ \A n \in Nat : n = Len(linked) + 1 => NodeAt(n)' = k
         /\ linked' # <<>>
<1>1. linked \in Seq(Keys) /\ Len(linked) \in Nat
  BY DEF TypeOK
<1>2. linked' \in Seq(Keys) /\ Len(linked') = Len(linked) + 1 /\ linked'[Len(linked) + 1] = k
  BY <1>1
<1>3. \A n \in 1 .. Len(linked) : linked'[n] = linked[n]
  BY <1>1
<1>4. \A n \in 0 .. Len(linked) : NodeAt(n)' = NodeAt(n)
  BY <1>1, <1>3 DEF NodeAt
<1>5. \A n \in Nat : n = Len(linked) + 1 => NodeAt(n)' = k
  BY <1>1, <1>2 DEF NodeAt
<1>6. linked' # <<>>
  BY <1>1
<1> QED BY <1>2, <1>3, <1>4, <1>5, <1>6

\* A producer that is about to link its node has not linked it.
LEMMA NodeOfNew ==
  ASSUME TypeOK, NEW t \in Producers, ProducerOK(t), pc[t] \in {"link", "help"}
  PROVE  NodeOf(t) \in Keys /\ ~ Listed(NodeOf(t))
<1>1. works[t] \in 0 .. NumEnqueue - 1
  BY DEF TypeOK, ProducerOK, Threads
<1>2. NodeOf(t) \in Keys /\ NodeOf(t) \in NumEnqueue * t .. NumEnqueue * (t + 1) - 1
  BY <1>1, KeysOfProducers DEF NodeOf
<1>3. ~ (NodeOf(t) < NodeOf(t))
  BY <1>2 DEF Keys
<1> QED BY <1>2, <1>3 DEF ProducerOK, Sent

-----------------------------------------------------------------------------
(* What a step leaves alone. *)

\* The queue as it was.
LEMMA SameQueue ==
  ASSUME OrderInv, HeadInv, UNCHANGED queueVars
  PROVE  /\ OrderInv' /\ HeadInv'
         /\ \A n : Listed(n)' <=> Listed(n)
         /\ \A n : UpToTail(n)' <=> UpToTail(n)
<1>1. next' = next /\ head' = head /\ tail' = tail /\ linked' = linked /\ taken' = taken
  BY DEF queueVars
<1>2. \A n : NodeAt(n)' = NodeAt(n)
  BY <1>1 DEF NodeAt
<1>3. \A n : Listed(n)' <=> Listed(n)
  BY <1>1, <1>2 DEF Listed
<1>4. \A n : UpToTail(n)' <=> UpToTail(n)
  BY <1>1, <1>2 DEF UpToTail
<1>5. OrderInv'
  BY <1>1, <1>2, <1>3 DEF OrderInv, NodeAt
<1>6. HeadInv'
  BY <1>1 DEF HeadInv, NodeAt
<1> QED BY <1>3, <1>4, <1>5, <1>6

\* A producer that makes no step keeps its part of the invariant if its keys
\* are neither linked nor removed and no pointer is taken back.
LEMMA OtherProducer ==
  ASSUME TypeOK, NEW u \in Producers, ProducerOK(u),
         pc'[u] = pc[u], curr'[u] = curr[u], works'[u] = works[u],
         \A n : UpToTail(n) => UpToTail(n)',
         \A k \in NumEnqueue * u .. NumEnqueue * (u + 1) - 1 : Listed(k)' <=> Listed(k),
         \A n \in Nodes : next[n] # Null => next'[n] = next[n]
  PROVE  ProducerOK(u)'
<1>1. NodeOf(u)' = NodeOf(u) /\ Sent(u)' = Sent(u)
  BY DEF NodeOf, Sent
<1>2. pc[u] # "load" => works'[u] < NumEnqueue /\ UpToTail(curr[u])'
  <2>1. pc[u] # "load" => works[u] < NumEnqueue /\ UpToTail(curr[u])
    BY DEF ProducerOK
  <2>2. PICK c : c = curr[u]
    OBVIOUS
  <2>3. UpToTail(c)' <=> UpToTail(curr[u])'
    BY <2>2 DEF UpToTail
  <2> QED BY <2>1, <2>2, <2>3
<1>3. pc[u] # "load" => curr[u] \in Nodes
  BY NodesOfList DEF ProducerOK, UpToTail
<1>4. pc[u] = "help" => next'[curr[u]] # Null
  BY <1>3 DEF ProducerOK
<1>5. pc[u] = "swing" => next'[curr[u]] = NodeOf(u)
  <2>1. pc[u] = "swing" => NodeOf(u) # Null
    <3>1. ASSUME pc[u] = "swing" PROVE works[u] \in 0 .. NumEnqueue - 1
      BY <3>1 DEF TypeOK, ProducerOK, Threads
    <3> QED BY <3>1, KeysOfProducers, Apart DEF NodeOf
  <2> QED BY <1>3, <2>1 DEF ProducerOK
<1> QED BY <1>1, <1>2, <1>4, <1>5 DEF ProducerOK

\* So does a consumer that makes no step.
LEMMA OtherConsumer ==
  ASSUME TypeOK, NEW u \in Consumers, ConsumerOK(u),
         pc'[u] = pc[u], curr'[u] = curr[u], works'[u] = works[u], prev'[u] = prev[u],
         \A n : Listed(n) => Listed(n)',
         \A n \in Nodes : next[n] # Null => next'[n] = next[n]
  PROVE  ConsumerOK(u)'
<1>1. pc[u] \in {"follow", "take"} => Listed(prev[u])'
  BY DEF ConsumerOK, Listed
<1>2. pc[u] = "verify" => Listed(curr[u])'
  BY DEF ConsumerOK, Listed
<1>3. prev[u] \in Nodes
  BY DEF TypeOK
<1> QED BY <1>1, <1>2, <1>3 DEF ConsumerOK

\* Producers and consumers are different threads.
LEMMA Kinds ==
  /\ Producers \subseteq Threads /\ Consumers \subseteq Threads
  /\ Producers \cap Consumers = {} /\ Threads = Producers \union Consumers
  BY DEF Producers, Consumers, Threads

\* A step of thread t that leaves the queue alone.
LEMMA OthersKeep ==
  ASSUME ListInv, UNCHANGED queueVars, NEW t \in Threads,
         \A u \in Threads \ {t} : pc'[u] = pc[u] /\ curr'[u] = curr[u] /\ works'[u] = works[u],
         \A u \in Consumers \ {t} : prev'[u] = prev[u],
         t \in Producers => pc[t] # "swing"
  PROVE  /\ OrderInv' /\ HeadInv' /\ TailInv'
         /\ \A u \in Producers \ {t} : ProducerOK(u)'
         /\ \A u \in Consumers \ {t} : ConsumerOK(u)'
<1>1. next' = next /\ tail' = tail /\ linked' = linked
  BY DEF queueVars
<1>2. TypeOK /\ OrderInv /\ HeadInv /\ TailInv
  BY DEF ListInv
<1>3. /\ OrderInv' /\ HeadInv'
      /\ \A n : Listed(n)' <=> Listed(n)
      /\ \A n : UpToTail(n)' <=> UpToTail(n)
  BY <1>2, SameQueue
<1>4. TailInv'
  <2>1. CASE tail = NodeAt(Len(linked))
    BY <1>1, <2>1 DEF TailInv, NodeAt
  <2>2. CASE tail # NodeAt(Len(linked))
    <3>1. PICK u \in Producers :
            pc[u] = "swing" /\ NodeOf(u) = linked[Len(linked)] /\ curr[u] = tail
      BY <1>2, <2>2 DEF TailInv
    <3>2. u \in Threads \ {t}
      BY <3>1, Kinds
    <3>3. pc'[u] = "swing" /\ NodeOf(u)' = linked'[Len(linked')] /\ curr'[u] = tail'
      BY <1>1, <3>1, <3>2 DEF NodeOf
    <3> QED BY <1>1, <1>2, <2>2, <3>3 DEF TailInv, NodeAt
  <2> QED BY <2>1, <2>2
<1>5. ASSUME NEW u \in Producers \ {t} PROVE ProducerOK(u)'
  <2>1. ProducerOK(u) /\ u \in Threads \ {t}
    BY <1>5, Kinds DEF ListInv
  <2> QED BY <1>1, <1>2, <1>3, <1>5, <2>1, OtherProducer
<1>6. ASSUME NEW u \in Consumers \ {t} PROVE ConsumerOK(u)'
  <2>1. ConsumerOK(u) /\ u \in Threads \ {t}
    BY <1>6, Kinds DEF ListInv
  <2> QED BY <1>1, <1>2, <1>3, <1>6, <2>1, OtherConsumer
<1> QED BY <1>3, <1>4, <1>5, <1>6

\* The whole invariant after a step of producer t, or of consumer t.
LEMMA ProducerStepped ==
  ASSUME NEW t \in Producers, TypeOK', OrderInv', HeadInv', TailInv', ProducerOK(t)',
         \A u \in Producers \ {t} : ProducerOK(u)',
         \A u \in Consumers \ {t} : ConsumerOK(u)'
  PROVE  ListInv'
<1>1. \A u \in Producers : ProducerOK(u)'
  OBVIOUS
<1>2. \A u \in Consumers : ConsumerOK(u)'
  BY Kinds
<1> QED BY <1>1, <1>2 DEF ListInv

LEMMA ConsumerStepped ==
  ASSUME NEW t \in Consumers, TypeOK', OrderInv', HeadInv', TailInv', ConsumerOK(t)',
         \A u \in Producers \ {t} : ProducerOK(u)',
         \A u \in Consumers \ {t} : ConsumerOK(u)'
  PROVE  ListInv'
<1>1. \A u \in Consumers : ConsumerOK(u)'
  OBVIOUS
<1>2. \A u \in Producers : ProducerOK(u)'
  BY Kinds
<1> QED BY <1>1, <1>2 DEF ListInv

\* tail points to a node of the list.
LEMMA TailUpToTail ==
  ASSUME TypeOK, TailInv
  PROVE  UpToTail(tail)
<1>1. PICK n \in 0 .. Len(linked) : NodeAt(n) = tail
  <2>1. linked # <<>> => Len(linked) - 1 \in 0 .. Len(linked)
    BY DEF TypeOK
  <2> QED BY <2>1, NodesOfList DEF TailInv
<1>2. n \in n .. Len(linked)
  BY NodesOfList
<1> QED BY <1>1, <1>2 DEF UpToTail

-----------------------------------------------------------------------------
(* The steps of a producer. *)

LEMMA LoadTailInv ==
  ASSUME ListInv, NEW t \in Producers, LoadTail(t)
  PROVE  ListInv'
<1>1. TypeOK /\ OrderInv /\ TailInv /\ ProducerOK(t) /\ t \in Threads
  BY Kinds DEF ListInv
<1>2. /\ OrderInv' /\ HeadInv' /\ TailInv'
      /\ \A u \in Producers \ {t} : ProducerOK(u)'
      /\ \A u \in Consumers \ {t} : ConsumerOK(u)'
  BY <1>1, OthersKeep DEF LoadTail, Goto, TypeOK
<1>3. TypeOK'
  BY <1>1 DEF LoadTail, Goto, TypeOK, queueVars, mainVars
<1>4. ProducerOK(t)'
  <2>1. UpToTail(tail)
    BY <1>1, TailUpToTail
  <2>2. UpToTail(curr[t])'
    BY <1>1, <2>1 DEF LoadTail, queueVars, UpToTail, NodeAt, TypeOK
  <2>3. pc'[t] = "link" /\ works'[t] < NumEnqueue
    BY <1>1 DEF LoadTail, Goto, TypeOK
  <2>4. \A k \in NumEnqueue * t .. NumEnqueue * (t + 1) - 1 : Listed(k)' <=> k \in Sent(t)'
    <3>1. Sent(t)' = Sent(t) /\ \A k : Listed(k)' <=> Listed(k)
      BY <1>1, <2>3 DEF LoadTail, Sent, NodeOf, queueVars, Listed, NodeAt
    <3> QED BY <1>1, <3>1 DEF ProducerOK
  <2> QED BY <2>2, <2>3, <2>4 DEF ProducerOK
<1> QED BY <1>2, <1>3, <1>4, ProducerStepped

LEMMA LinkFailsInv ==
  ASSUME ListInv, NEW t \in Producers, LinkFails(t)
  PROVE  ListInv'
<1>1. TypeOK /\ OrderInv /\ TailInv /\ ProducerOK(t) /\ t \in Threads
  BY Kinds DEF ListInv
<1>2. /\ OrderInv' /\ HeadInv' /\ TailInv'
      /\ \A u \in Producers \ {t} : ProducerOK(u)'
      /\ \A u \in Consumers \ {t} : ConsumerOK(u)'
  BY <1>1, OthersKeep DEF LinkFails, Goto, TypeOK
<1>3. TypeOK'
  BY <1>1 DEF LinkFails, Goto, TypeOK, queueVars, mainVars
<1>4. ProducerOK(t)'
  <2>1. pc[t] = "link" /\ pc'[t] = "help" /\ works' = works /\ curr' = curr /\ next' = next
    BY <1>1 DEF LinkFails, Goto, TypeOK, queueVars
  <2>2. UpToTail(curr[t])'
    BY <1>1, <2>1 DEF LinkFails, ProducerOK, queueVars, UpToTail, NodeAt
  <2>3. \A k \in NumEnqueue * t .. NumEnqueue * (t + 1) - 1 : Listed(k)' <=> k \in Sent(t)'
    <3>1. Sent(t)' = Sent(t) /\ \A k : Listed(k)' <=> Listed(k)
      BY <1>1, <2>1 DEF LinkFails, Sent, NodeOf, queueVars, Listed, NodeAt
    <3> QED BY <1>1, <3>1 DEF ProducerOK
  <2> QED BY <1>1, <2>1, <2>2, <2>3 DEF ProducerOK, LinkFails
<1> QED BY <1>2, <1>3, <1>4, ProducerStepped

\* A node is linked only behind the last, and only when tail points to it.
LEMMA LinkAtTail ==
  ASSUME TypeOK, OrderInv, NEW n \in Nodes, UpToTail(n), next[n] = Null
  PROVE  n = NodeAt(Len(linked)) /\ tail = n
<1>1. PICK i \in 0 .. Len(linked) :
        \E j \in i .. Len(linked) : NodeAt(i) = n /\ NodeAt(j) = tail
  BY DEF UpToTail
<1>2. PICK j \in i .. Len(linked) : NodeAt(i) = n /\ NodeAt(j) = tail
  BY <1>1
<1>3. i = Len(linked)
  BY <1>2, NextNodes
<1>4. j = Len(linked)
  BY <1>3, NodesOfList
<1> QED BY <1>2, <1>3, <1>4

LEMMA LinkInv ==
  ASSUME ListInv, NEW t \in Producers, Link(t)
  PROVE  ListInv'
<1>1. /\ TypeOK /\ OrderInv /\ HeadInv /\ TailInv /\ ProducerOK(t) /\ t \in Threads
      /\ linked \in Seq(Keys) /\ Len(linked) \in Nat /\ Len(taken) \in Nat
  BY Kinds DEF ListInv, TypeOK
<1> DEFINE k == NodeOf(t)
           c == curr[t]
<1>2. /\ pc[t] = "link" /\ next[c] = Null /\ pc' = [pc EXCEPT ![t] = "swing"]
      /\ next' = [next EXCEPT ![c] = k] /\ linked' = Append(linked, k)
      /\ head' = head /\ tail' = tail /\ taken' = taken
      /\ prev' = prev /\ curr' = curr /\ works' = works
      /\ flag_verification' = flag_verification /\ verdict' = verdict
  BY DEF Link, Goto, mainVars
<1>3. k \in Keys /\ ~ Listed(k)
  BY <1>1, <1>2, NodeOfNew
<1>4. UpToTail(c) /\ c \in Nodes
  BY <1>1, <1>2, NodesOfList DEF ProducerOK, UpToTail
<1>5. c = NodeAt(Len(linked)) /\ tail = c
  BY <1>1, <1>2, <1>4, LinkAtTail
<1>6. /\ linked' \in Seq(Keys) /\ Len(linked') = Len(linked) + 1
      /\ linked'[Len(linked) + 1] = k /\ linked' # <<>>
      /\ \A n \in 1 .. Len(linked) : linked'[n] = linked[n]
      /\ \A n \in 0 .. Len(linked) : NodeAt(n)' = NodeAt(n)
      /\ \A n \in Nat : n = Len(linked) + 1 => NodeAt(n)' = k
  BY <1>1, <1>2, <1>3, LinkNode
<1>7. \A n : Listed(n)' <=> Listed(n) \/ n = k
  <2>1. ASSUME NEW n, Listed(n) PROVE Listed(n)'
    <3>1. PICK i \in 0 .. Len(linked) : NodeAt(i) = n
      BY <2>1 DEF Listed
    <3>2. i \in 0 .. Len(linked')
      BY <1>1, <1>6
    <3> QED BY <1>6, <3>1, <3>2 DEF Listed
  <2>2. \A n : n = k => Listed(n)'
    <3>1. Len(linked) + 1 \in 0 .. Len(linked') /\ Len(linked) + 1 \in Nat
      BY <1>1, <1>6
    <3>2. PICK i \in 0 .. Len(linked') : i = Len(linked) + 1 /\ i \in Nat
      BY <3>1
    <3> QED BY <1>6, <3>2 DEF Listed
  <2>3. ASSUME NEW n, Listed(n)' PROVE Listed(n) \/ n = k
    <3>1. PICK i \in 0 .. Len(linked') : NodeAt(i)' = n
      BY <2>3 DEF Listed
    <3>2. i \in 0 .. Len(linked) \/ (i \in Nat /\ i = Len(linked) + 1)
      BY <1>1, <1>6, <3>1
    <3> QED BY <1>6, <3>1, <3>2 DEF Listed
  <2> QED BY <2>1, <2>2, <2>3
<1>8. \A n : UpToTail(n) => UpToTail(n)'
  <2>1. ASSUME NEW n, UpToTail(n) PROVE UpToTail(n)'
    <3>1. PICK i \in 0 .. Len(linked) :
            \E j \in i .. Len(linked) : NodeAt(i) = n /\ NodeAt(j) = tail
      BY <2>1 DEF UpToTail
    <3>2. PICK j \in i .. Len(linked) : NodeAt(i) = n /\ NodeAt(j) = tail
      BY <3>1
    <3>3. i \in 0 .. Len(linked') /\ j \in i .. Len(linked') /\ j \in 0 .. Len(linked)
      BY <1>1, <1>6, <3>2
    <3> QED BY <1>2, <1>6, <3>2, <3>3 DEF UpToTail
  <2> QED BY <2>1
<1>9. \A n \in Nodes : next[n] # Null => next'[n] = next[n]
  BY <1>1, <1>2 DEF TypeOK
<1>10. TypeOK'
  <2>1. next' \in [Nodes -> Keys \union {Null}]
    BY <1>1, <1>2, <1>3 DEF TypeOK
  <2> QED BY <1>1, <1>2, <1>6, <2>1 DEF TypeOK
<1>11. OrderInv'
  <2>1. \A m, n \in 1 .. Len(linked') : linked'[m] = linked'[n] => m = n
    <3>1. \A n \in 1 .. Len(linked) : linked[n] # k
      BY <1>1, <1>3, NodesOfList DEF Listed
    <3>2. \A n \in 1 .. Len(linked') : n \in 1 .. Len(linked) \/ n = Len(linked) + 1
      BY <1>1, <1>6
    <3> QED BY <1>1, <1>6, <3>1, <3>2 DEF OrderInv
  <2>2. ASSUME NEW n \in 0 .. Len(linked') - 1 PROVE next'[NodeAt(n)'] = linked'[n + 1]
    <3>1. n \in 0 .. Len(linked) /\ NodeAt(n)' = NodeAt(n) /\ NodeAt(n) \in Nodes
      BY <1>1, <1>6, NodesOfList
    <3>2. CASE n = Len(linked)
      BY <1>1, <1>2, <1>4, <1>5, <1>6, <3>1, <3>2 DEF TypeOK
    <3>3. CASE n < Len(linked)
      <4>1. next[NodeAt(n)] = linked[n + 1] /\ n + 1 \in 1 .. Len(linked) /\ next[NodeAt(n)] # Null
        BY <1>1, <3>1, <3>3, NextNodes
      <4> QED BY <1>6, <1>9, <3>1, <4>1
    <3> QED BY <1>1, <3>1, <3>2, <3>3
  <2>3. next'[NodeAt(Len(linked))'] = Null
    <3>1. NodeAt(Len(linked))' = k
      BY <1>1, <1>6 DEF NodeAt
    <3>2. k \in Nodes /\ k # c /\ next[k] = Null
      <4>1. Listed(c)
        BY <1>1, <1>5, NodesOfList DEF Listed
      <4> QED BY <1>1, <1>3, <4>1, Apart DEF OrderInv
    <3> QED BY <1>1, <1>2, <3>1, <3>2 DEF TypeOK
  <2>4. \A n \in Keys : ~ Listed(n)' => next'[n] = Null
    <3>1. ASSUME NEW n \in Keys, ~ Listed(n)' PROVE next'[n] = Null
      <4>1. ~ Listed(n)
        BY <1>7, <3>1
      <4>2. Listed(c)
        BY <1>1, <1>5, NodesOfList DEF Listed
      <4>3. n # c /\ n \in Nodes
        BY <4>1, <4>2, Apart
      <4> QED BY <1>1, <1>2, <4>1, <4>3 DEF OrderInv, TypeOK
    <3> QED BY <3>1
  <2> QED BY <2>1, <2>2, <2>3, <2>4 DEF OrderInv
<1>12. HeadInv'
  <2>1. Len(taken) \in 0 .. Len(linked)
    BY <1>1 DEF HeadInv
  <2> QED BY <1>1, <1>2, <1>6, <2>1 DEF HeadInv, NodeAt
<1>13. TailInv'
  <2>1. Len(linked') - 1 = Len(linked) /\ NodeAt(Len(linked))' = k
    BY <1>1, <1>6 DEF NodeAt
  <2>2. NodeAt(Len(linked') - 1) = NodeAt(Len(linked))
    BY <2>1
  <2>3. NodeAt(Len(linked) - 1)' = NodeAt(Len(linked))
    BY <1>1, <1>6 DEF NodeAt
  <2>4. pc'[t] = "swing" /\ NodeOf(t)' = linked'[Len(linked')] /\ curr'[t] = tail'
    BY <1>1, <1>2, <1>5, <1>6 DEF NodeOf, TypeOK
  <2> QED BY <1>2, <1>5, <1>6, <2>3, <2>4 DEF TailInv
<1>14. ASSUME NEW u \in Producers \ {t} PROVE ProducerOK(u)'
  <2>1. ProducerOK(u) /\ u \in Threads /\ pc'[u] = pc[u] /\ curr'[u] = curr[u] /\ works'[u] = works[u]
    BY <1>1, <1>2, <1>14, Kinds DEF ListInv, TypeOK
  <2>2. \A n \in NumEnqueue * u .. NumEnqueue * (u + 1) - 1 : Listed(n)' <=> Listed(n)
    <3>1. works[t] \in 0 .. NumEnqueue - 1
      BY <1>1, <1>2 DEF ProducerOK, TypeOK
    <3>2. k \notin NumEnqueue * u .. NumEnqueue * (u + 1) - 1
      BY <1>14, <3>1, KeysOfProducers DEF NodeOf
    <3> QED BY <1>7, <3>2
  <2> QED BY <1>1, <1>8, <1>9, <2>1, <2>2, OtherProducer
<1>15. ASSUME NEW u \in Consumers \ {t} PROVE ConsumerOK(u)'
  <2>1. ConsumerOK(u) /\ pc'[u] = pc[u] /\ curr'[u] = curr[u] /\ works'[u] = works[u] /\ prev'[u] = prev[u]
    BY <1>1, <1>2, <1>15, Kinds DEF ListInv, TypeOK
  <2> QED BY <1>1, <1>7, <1>9, <2>1, OtherConsumer
<1>16. ProducerOK(t)'
  <2>1. NodeOf(t)' = k /\ pc'[t] = "swing"
    BY <1>1, <1>2 DEF NodeOf, TypeOK
  <2>2. UpToTail(curr[t])' /\ works'[t] < NumEnqueue
    <3>1. \A n : n = c => UpToTail(n)'
      BY <1>4, <1>8
    <3> QED BY <1>1, <1>2, <3>1 DEF ProducerOK, UpToTail
  <2>3. next'[curr'[t]] = NodeOf(t)'
    BY <1>1, <1>2, <1>4, <2>1 DEF TypeOK
  <2>4. \A n \in NumEnqueue * t .. NumEnqueue * (t + 1) - 1 : Listed(n)' <=> n \in Sent(t)'
    <3>1. Sent(t)' = Sent(t) \union {k}
      BY <1>2, <1>3, <2>1 DEF Sent
    <3> QED BY <1>1, <1>7, <3>1 DEF ProducerOK
  <2> QED BY <2>1, <2>2, <2>3, <2>4 DEF ProducerOK
<1> QED BY <1>10, <1>11, <1>12, <1>13, <1>14, <1>15, <1>16, ProducerStepped

\* A CAS on tail that finds curr there: tail is the last but one and moves on.
LEMMA TailCaught ==
  ASSUME TypeOK, OrderInv, TailInv, next[tail] # Null
  PROVE  /\ Len(linked) \in Nat \ {0} /\ tail = NodeAt(Len(linked) - 1)
         /\ next[tail] = NodeAt(Len(linked)) /\ next[tail] = linked[Len(linked)]
         /\ \E t \in Producers :
              pc[t] = "swing" /\ NodeOf(t) = linked[Len(linked)] /\ curr[t] = tail
<1>1. Len(linked) \in Nat /\ (linked # <<>> => Len(linked) # 0)
  BY DEF TypeOK
<1>2. tail # NodeAt(Len(linked))
  BY <1>1, NextNodes
<1>3. /\ linked # <<>> /\ tail = NodeAt(Len(linked) - 1)
      /\ \E t \in Producers :
           pc[t] = "swing" /\ NodeOf(t) = linked[Len(linked)] /\ curr[t] = tail
  BY <1>2 DEF TailInv
<1>4. Len(linked) - 1 \in 0 .. Len(linked) /\ Len(linked) - 1 < Len(linked)
  BY <1>1, <1>3
<1>5. next[tail] = NodeAt(Len(linked) - 1 + 1) /\ next[tail] = linked[Len(linked) - 1 + 1]
  BY <1>3, <1>4, NextNodes
<1>6. Len(linked) - 1 + 1 = Len(linked)
  BY <1>1
<1> QED BY <1>1, <1>3, <1>5, <1>6

\* What a CAS on tail leaves alone, and what it keeps.
LEMMA TailMoves ==
  ASSUME TypeOK, OrderInv, HeadInv, TailInv,
         next' = next, head' = head, linked' = linked, taken' = taken,
         tail' = tail \/ (next[tail] # Null /\ tail' = next[tail])
  PROVE  /\ OrderInv' /\ HeadInv' /\ tail' \in Nodes
         /\ \A n : Listed(n)' <=> Listed(n)
         /\ \A n : UpToTail(n) => UpToTail(n)'
<1>1. \A n : NodeAt(n)' = NodeAt(n)
  BY DEF NodeAt
<1>2. \A n : Listed(n)' <=> Listed(n)
  BY <1>1 DEF Listed
<1>3. OrderInv'
  BY <1>1, <1>2 DEF OrderInv, NodeAt
<1>4. HeadInv'
  BY DEF HeadInv, NodeAt
<1>5. tail' \in Nodes
  BY Apart DEF TypeOK
<1>6. ASSUME NEW n, UpToTail(n) PROVE UpToTail(n)'
  <2>1. PICK i \in 0 .. Len(linked) :
          \E j \in i .. Len(linked) : NodeAt(i) = n /\ NodeAt(j) = tail
    BY <1>6 DEF UpToTail
  <2>2. CASE tail' = tail
    BY <1>1, <2>1, <2>2 DEF UpToTail
  <2>3. CASE tail' # tail
    <3>1. tail' = NodeAt(Len(linked))
      BY <2>3, TailCaught
    <3>2. Len(linked) \in i .. Len(linked)
      BY NodesOfList
    <3> QED BY <1>1, <2>1, <3>1, <3>2 DEF UpToTail
  <2> QED BY <2>2, <2>3
<1> QED BY <1>2, <1>3, <1>4, <1>5, <1>6

LEMMA HelpInv ==
  ASSUME ListInv, NEW t \in Producers, Help(t)
  PROVE  ListInv'
<1>1. TypeOK /\ OrderInv /\ HeadInv /\ TailInv /\ ProducerOK(t) /\ t \in Threads
  BY Kinds DEF ListInv
<1>2. /\ pc[t] = "help" /\ pc' = [pc EXCEPT ![t] = "load"]
      /\ tail' = (IF tail = curr[t] THEN next[curr[t]] ELSE tail)
      /\ next' = next /\ head' = head /\ linked' = linked /\ taken' = taken
      /\ prev' = prev /\ curr' = curr /\ works' = works
      /\ flag_verification' = flag_verification /\ verdict' = verdict
  BY DEF Help, Goto, CASTail, mainVars
<1>3. next[curr[t]] # Null
  BY <1>1, <1>2 DEF ProducerOK
<1>4. /\ OrderInv' /\ HeadInv' /\ tail' \in Nodes
      /\ \A n : Listed(n)' <=> Listed(n)
      /\ \A n : UpToTail(n) => UpToTail(n)'
  BY <1>1, <1>2, <1>3, TailMoves
<1>5. TypeOK'
  BY <1>1, <1>2, <1>4 DEF TypeOK
<1>6. TailInv'
  <2>1. CASE tail = curr[t]
    <3>1. tail' = NodeAt(Len(linked))
      BY <1>1, <1>2, <1>3, <2>1, TailCaught
    <3> QED BY <1>2, <3>1 DEF TailInv, NodeAt
  <2>2. CASE tail # curr[t] /\ tail = NodeAt(Len(linked))
    BY <1>2, <2>2 DEF TailInv, NodeAt
  <2>3. CASE tail # curr[t] /\ tail # NodeAt(Len(linked))
    <3>1. PICK u \in Producers :
            pc[u] = "swing" /\ NodeOf(u) = linked[Len(linked)] /\ curr[u] = tail
      BY <1>1, <2>3 DEF TailInv
    <3>2. pc'[u] = "swing" /\ NodeOf(u)' = linked'[Len(linked')] /\ curr'[u] = tail'
      BY <1>1, <1>2, <2>3, <3>1, Kinds DEF NodeOf, TypeOK
    <3> QED BY <1>1, <1>2, <2>3, <3>2 DEF TailInv, NodeAt
  <2> QED BY <2>1, <2>2, <2>3
<1>7. ASSUME NEW u \in Producers \ {t} PROVE ProducerOK(u)'
  <2>1. ProducerOK(u) /\ u \in Threads /\ pc'[u] = pc[u] /\ curr'[u] = curr[u] /\ works'[u] = works[u]
    BY <1>1, <1>2, <1>7, Kinds DEF ListInv, TypeOK
  <2> QED BY <1>1, <1>2, <1>4, <2>1, OtherProducer
<1>8. ASSUME NEW u \in Consumers \ {t} PROVE ConsumerOK(u)'
  <2>1. ConsumerOK(u) /\ pc'[u] = pc[u] /\ curr'[u] = curr[u] /\ works'[u] = works[u] /\ prev'[u] = prev[u]
    BY <1>1, <1>2, <1>8, Kinds DEF ListInv, TypeOK
  <2> QED BY <1>1, <1>2, <1>4, <2>1, OtherConsumer
<1>9. ProducerOK(t)'
  <2>1. pc'[t] = "load" /\ Sent(t)' = Sent(t)
    BY <1>1, <1>2 DEF Sent, NodeOf, TypeOK
  <2> QED BY <1>1, <1>4, <2>1 DEF ProducerOK
<1> QED BY <1>4, <1>5, <1>6, <1>7, <1>8, <1>9, ProducerStepped

LEMMA SwingInv ==
  ASSUME ListInv, NEW t \in Producers, Swing(t)
  PROVE  ListInv'
<1>1. TypeOK /\ OrderInv /\ HeadInv /\ TailInv /\ ProducerOK(t) /\ t \in Threads
  BY Kinds DEF ListInv
<1>2. /\ pc[t] = "swing" /\ pc' = [pc EXCEPT ![t] = "load"]
      /\ tail' = (IF tail = curr[t] THEN NodeOf(t) ELSE tail)
      /\ works' = [works EXCEPT ![t] = works[t] + 1]
      /\ next' = next /\ head' = head /\ linked' = linked /\ taken' = taken
      /\ prev' = prev /\ curr' = curr
      /\ flag_verification' = flag_verification /\ verdict' = verdict
  BY DEF Swing, Goto, CASTail, mainVars
<1>3. works[t] \in 0 .. NumEnqueue - 1 /\ next[curr[t]] = NodeOf(t)
  BY <1>1, <1>2 DEF ProducerOK, TypeOK
<1>4. NodeOf(t) \in Keys /\ NodeOf(t) # Null
  BY <1>3, KeysOfProducers, Apart DEF NodeOf
<1>5. /\ OrderInv' /\ HeadInv' /\ tail' \in Nodes
      /\ \A n : Listed(n)' <=> Listed(n)
      /\ \A n : UpToTail(n) => UpToTail(n)'
  BY <1>1, <1>2, <1>3, <1>4, TailMoves
<1>6. TypeOK'
  BY <1>1, <1>2, <1>3, <1>5 DEF TypeOK
<1>7. TailInv'
  <2>1. CASE tail = curr[t]
    <3>1. tail' = NodeAt(Len(linked))
      BY <1>1, <1>2, <1>3, <1>4, <2>1, TailCaught
    <3> QED BY <1>2, <3>1 DEF TailInv, NodeAt
  <2>2. CASE tail # curr[t] /\ tail = NodeAt(Len(linked))
    BY <1>2, <2>2 DEF TailInv, NodeAt
  <2>3. CASE tail # curr[t] /\ tail # NodeAt(Len(linked))
    <3>1. PICK u \in Producers :
            pc[u] = "swing" /\ NodeOf(u) = linked[Len(linked)] /\ curr[u] = tail
      BY <1>1, <2>3 DEF TailInv
    <3>2. u # t /\ u \in Threads
      BY <2>3, <3>1, Kinds
    <3>3. pc'[u] = "swing" /\ NodeOf(u)' = linked'[Len(linked')] /\ curr'[u] = tail'
      BY <1>1, <1>2, <2>3, <3>1, <3>2 DEF NodeOf, TypeOK
    <3> QED BY <1>1, <1>2, <2>3, <3>3 DEF TailInv, NodeAt
  <2> QED BY <2>1, <2>2, <2>3
<1>8. ASSUME NEW u \in Producers \ {t} PROVE ProducerOK(u)'
  <2>1. ProducerOK(u) /\ u \in Threads /\ pc'[u] = pc[u] /\ curr'[u] = curr[u] /\ works'[u] = works[u]
    BY <1>1, <1>2, <1>8, Kinds DEF ListInv, TypeOK
  <2> QED BY <1>1, <1>2, <1>5, <2>1, OtherProducer
<1>9. ASSUME NEW u \in Consumers \ {t} PROVE ConsumerOK(u)'
  <2>1. ConsumerOK(u) /\ u \in Threads /\ u # t
    BY <1>9, Kinds DEF ListInv
  <2>2. pc'[u] = pc[u] /\ curr'[u] = curr[u] /\ works'[u] = works[u] /\ prev'[u] = prev[u]
    BY <1>1, <1>2, <2>1 DEF TypeOK
  <2> QED BY <1>1, <1>2, <1>5, <2>1, <2>2, OtherConsumer
<1>10. ProducerOK(t)'
  <2>1. pc'[t] = "load" /\ NodeOf(t)' = NodeOf(t) + 1
    <3>1. pc'[t] = "load" /\ works'[t] = works[t] + 1
      BY <1>1, <1>2 DEF TypeOK
    <3>2. NumEnqueue * t \in Nat
      BY <1>3, KeysOfProducers
    <3> QED BY <1>3, <3>1, <3>2 DEF NodeOf
  <2>2. Sent(t)' = Sent(t)
    BY <1>2, <1>4, <2>1 DEF Sent, Keys
  <2> QED BY <1>1, <1>5, <2>1, <2>2 DEF ProducerOK
<1> QED BY <1>5, <1>6, <1>7, <1>8, <1>9, <1>10, ProducerStepped

-----------------------------------------------------------------------------
(* The steps of a consumer, and main's. *)

\* The nodes taken are on the list, and so is the one after a node of the list.
LEMMA ListedNodes ==
  ASSUME TypeOK, OrderInv, HeadInv
  PROVE  /\ Listed(head)
         /\ \A n : Listed(n) => n \in Nodes
         /\ \A n : Listed(n) /\ next[n] # Null => Listed(next[n]) /\ next[n] \in Keys
<1>1. Listed(head)
  <2>1. Len(taken) \in 0 .. Len(linked)
    BY DEF HeadInv, TypeOK
  <2> QED BY <2>1 DEF HeadInv, Listed
<1>2. ASSUME NEW n, Listed(n) PROVE n \in Nodes
  BY <1>2, NodesOfList DEF Listed
<1>3. ASSUME NEW n, Listed(n), next[n] # Null PROVE Listed(next[n]) /\ next[n] \in Keys
  <2>1. PICK i \in 0 .. Len(linked) : NodeAt(i) = n
    BY <1>3 DEF Listed
  <2>2. i < Len(linked)
    BY <1>3, <2>1, NextNodes, NodesOfList
  <2>3. next[n] = NodeAt(i + 1) /\ i + 1 \in 1 .. Len(linked) /\ i + 1 \in 0 .. Len(linked)
    BY <2>1, <2>2, NextNodes, NodesOfList
  <2> QED BY <2>3, NodesOfList DEF Listed
<1> QED BY <1>1, <1>2, <1>3

LEMMA LoadHeadInv ==
  ASSUME ListInv, NEW t \in Consumers, LoadHead(t)
  PROVE  ListInv'
<1>1. TypeOK /\ OrderInv /\ HeadInv /\ ConsumerOK(t) /\ t \in Threads /\ t \notin Producers
  BY Kinds DEF ListInv
<1>2. /\ OrderInv' /\ HeadInv' /\ TailInv'
      /\ \A u \in Producers \ {t} : ProducerOK(u)'
      /\ \A u \in Consumers \ {t} : ConsumerOK(u)'
  BY <1>1, OthersKeep DEF LoadHead, Goto, TypeOK
<1>3. TypeOK'
  BY <1>1 DEF LoadHead, Goto, TypeOK, queueVars, mainVars
<1>4. ConsumerOK(t)'
  <2>1. pc'[t] = "follow" /\ prev'[t] = head /\ works' = works /\ works[t] < NumEnqueue
    BY <1>1 DEF LoadHead, Goto, TypeOK
  <2>2. Listed(prev[t])'
    <3>1. \A n : Listed(n)' <=> Listed(n)
      BY <1>1, SameQueue DEF LoadHead
    <3> QED BY <1>1, <2>1, <3>1, ListedNodes DEF Listed
  <2> QED BY <2>1, <2>2 DEF ConsumerOK
<1> QED BY <1>2, <1>3, <1>4, ConsumerStepped

LEMMA FollowInv ==
  ASSUME ListInv, NEW t \in Consumers, Follow(t)
  PROVE  ListInv'
<1>1. TypeOK /\ OrderInv /\ HeadInv /\ ConsumerOK(t) /\ t \in Threads /\ t \notin Producers
  BY Kinds DEF ListInv
<1>2. /\ OrderInv' /\ HeadInv' /\ TailInv'
      /\ \A u \in Producers \ {t} : ProducerOK(u)'
      /\ \A u \in Consumers \ {t} : ConsumerOK(u)'
  BY <1>1, OthersKeep DEF Follow, Goto, TypeOK
<1>3. next[prev[t]] \in Nodes \union {Null}
  BY <1>1, Apart DEF TypeOK
<1>4. TypeOK'
  BY <1>1, <1>3 DEF Follow, Goto, TypeOK, queueVars, mainVars
<1>5. ConsumerOK(t)'
  <2>1. /\ pc[t] = "follow" /\ curr'[t] = next[prev[t]]
        /\ pc'[t] = (IF next[prev[t]] = Null THEN "load" ELSE "take")
        /\ prev' = prev /\ works' = works /\ next' = next /\ linked' = linked
    BY <1>1 DEF Follow, Goto, TypeOK, queueVars
  <2>2. works'[t] < NumEnqueue /\ Listed(prev[t])'
    BY <1>1, <2>1 DEF ConsumerOK, Listed, NodeAt
  <2> QED BY <2>1, <2>2 DEF ConsumerOK
<1> QED BY <1>2, <1>4, <1>5, ConsumerStepped

LEMMA TakeFailsInv ==
  ASSUME ListInv, NEW t \in Consumers, TakeFails(t)
  PROVE  ListInv'
<1>1. TypeOK /\ t \in Threads /\ t \notin Producers
  BY Kinds DEF ListInv
<1>2. /\ OrderInv' /\ HeadInv' /\ TailInv'
      /\ \A u \in Producers \ {t} : ProducerOK(u)'
      /\ \A u \in Consumers \ {t} : ConsumerOK(u)'
  BY <1>1, OthersKeep DEF TakeFails, Goto, TypeOK
<1>3. TypeOK'
  BY <1>1 DEF TakeFails, Goto, TypeOK, queueVars, mainVars
<1>4. ConsumerOK(t)'
  BY <1>1 DEF TakeFails, Goto, TypeOK, ConsumerOK
<1> QED BY <1>2, <1>3, <1>4, ConsumerStepped

LEMMA VerifyInv ==
  ASSUME ListInv, NEW t \in Consumers, Verify(t)
  PROVE  ListInv'
<1>1. TypeOK /\ OrderInv /\ HeadInv /\ ConsumerOK(t) /\ t \in Threads /\ t \notin Producers
  BY Kinds DEF ListInv
<1>2. /\ OrderInv' /\ HeadInv' /\ TailInv'
      /\ \A u \in Producers \ {t} : ProducerOK(u)'
      /\ \A u \in Consumers \ {t} : ConsumerOK(u)'
  BY <1>1, OthersKeep DEF Verify, Goto, TypeOK
<1>3. curr[t] \in Keys /\ works[t] + 1 \in 0 .. NumEnqueue
  <2>1. Listed(curr[t]) /\ curr[t] # Sentinel /\ works[t] < NumEnqueue
    BY <1>1 DEF Verify, ConsumerOK
  <2>2. curr[t] \in Nodes
    BY <1>1, <2>1, ListedNodes
  <2> QED BY <1>1, <2>1, <2>2 DEF Nodes, TypeOK
<1>4. TypeOK'
  BY <1>1, <1>3 DEF Verify, Goto, TypeOK, queueVars
<1>5. ConsumerOK(t)'
  BY <1>1 DEF Verify, Goto, TypeOK, ConsumerOK
<1> QED BY <1>2, <1>4, <1>5, ConsumerStepped

\* head has not moved since the consumer read it, so the key it takes is the
\* first that has not been taken.
LEMMA TakeNext ==
  ASSUME ListInv, NEW t \in Consumers, Take(t)
  PROVE  /\ Len(taken) \in Nat /\ Len(taken) < Len(linked)
         /\ curr[t] = linked[Len(taken) + 1]
         /\ curr[t] = NodeAt(Len(taken) + 1)
         /\ curr[t] \in Keys /\ Listed(curr[t])
<1>1. /\ TypeOK /\ OrderInv /\ HeadInv /\ ConsumerOK(t)
      /\ Len(taken) \in 0 .. Len(linked) /\ Len(taken) \in Nat
  BY DEF ListInv, HeadInv, TypeOK
<1>2. head = prev[t] /\ curr[t] = next[head] /\ curr[t] # Null /\ head = NodeAt(Len(taken))
  BY <1>1 DEF Take, ConsumerOK, HeadInv
<1>3. Len(taken) < Len(linked)
  BY <1>1, <1>2, NextNodes, NodesOfList
<1>4. curr[t] = linked[Len(taken) + 1] /\ curr[t] = NodeAt(Len(taken) + 1)
  BY <1>1, <1>2, <1>3, NextNodes
<1>5. curr[t] \in Keys /\ Listed(curr[t])
  BY <1>1, <1>2, ListedNodes
<1> QED BY <1>1, <1>3, <1>4, <1>5

LEMMA TakeInv ==
  ASSUME ListInv, NEW t \in Consumers, Take(t)
  PROVE  ListInv'
<1>1. /\ TypeOK /\ OrderInv /\ HeadInv /\ TailInv /\ ConsumerOK(t)
      /\ t \in Threads /\ t \notin Producers /\ taken \in Seq(Keys)
  BY Kinds DEF ListInv, TypeOK
<1>2. /\ pc[t] = "take" /\ pc' = [pc EXCEPT ![t] = "verify"]
      /\ head' = curr[t] /\ taken' = Append(taken, curr[t])
      /\ next' = next /\ tail' = tail /\ linked' = linked
      /\ prev' = prev /\ curr' = curr /\ works' = works
      /\ flag_verification' = flag_verification /\ verdict' = verdict
  BY DEF Take, Goto, mainVars
<1>3. /\ Len(taken) \in Nat /\ Len(taken) < Len(linked)
      /\ curr[t] = NodeAt(Len(taken) + 1)
      /\ curr[t] \in Keys /\ Listed(curr[t])
  BY TakeNext
<1>4. taken' \in Seq(Keys) /\ Len(taken') = Len(taken) + 1
  BY <1>1, <1>2, <1>3
<1>5. /\ \A n : NodeAt(n)' = NodeAt(n)
      /\ \A n : Listed(n)' <=> Listed(n)
      /\ \A n : UpToTail(n)' <=> UpToTail(n)
  BY <1>2 DEF NodeAt, Listed, UpToTail
<1>6. TypeOK'
  BY <1>1, <1>2, <1>3, <1>4, Apart DEF TypeOK
<1>7. OrderInv'
  BY <1>1, <1>2, <1>5 DEF OrderInv, NodeAt
<1>8. HeadInv'
  <2>1. Len(taken') <= Len(linked')
    BY <1>1, <1>2, <1>3, <1>4 DEF TypeOK
  <2> QED BY <1>2, <1>3, <1>4, <2>1 DEF HeadInv, NodeAt
<1>9. TailInv'
  <2>1. CASE tail = NodeAt(Len(linked))
    BY <1>2, <2>1 DEF TailInv, NodeAt
  <2>2. CASE tail # NodeAt(Len(linked))
    <3>1. PICK u \in Producers :
            pc[u] = "swing" /\ NodeOf(u) = linked[Len(linked)] /\ curr[u] = tail
      BY <1>1, <2>2 DEF TailInv
    <3>2. pc'[u] = "swing" /\ NodeOf(u)' = linked'[Len(linked')] /\ curr'[u] = tail'
      BY <1>1, <1>2, <3>1, Kinds DEF NodeOf, TypeOK
    <3> QED BY <1>1, <1>2, <2>2, <3>2 DEF TailInv, NodeAt
  <2> QED BY <2>1, <2>2
<1>10. ASSUME NEW u \in Producers \ {t} PROVE ProducerOK(u)'
  <2>1. ProducerOK(u) /\ pc'[u] = pc[u] /\ curr'[u] = curr[u] /\ works'[u] = works[u]
    BY <1>1, <1>2, <1>10, Kinds DEF ListInv, TypeOK
  <2> QED BY <1>1, <1>2, <1>5, <2>1, OtherProducer
<1>11. ASSUME NEW u \in Consumers \ {t} PROVE ConsumerOK(u)'
  <2>1. ConsumerOK(u) /\ pc'[u] = pc[u] /\ curr'[u] = curr[u] /\ works'[u] = works[u] /\ prev'[u] = prev[u]
    BY <1>1, <1>2, <1>11, Kinds DEF ListInv, TypeOK
  <2> QED BY <1>1, <1>2, <1>5, <2>1, OtherConsumer
<1>12. ConsumerOK(t)'
  <2>1. pc'[t] = "verify" /\ works'[t] < NumEnqueue /\ curr'[t] # Sentinel
    BY <1>1, <1>2, <1>3, Apart DEF ConsumerOK, TypeOK
  <2>2. Listed(curr[t])'
    BY <1>2, <1>3 DEF Listed, NodeAt
  <2> QED BY <2>1, <2>2 DEF ConsumerOK
<1> QED BY <1>6, <1>7, <1>8, <1>9, <1>10, <1>11, <1>12, ConsumerStepped

\* main's step, and steps of other programs.
LEMMA ThreadsKeep ==
  ASSUME ListInv, TypeOK', UNCHANGED <<queueVars, pc, prev, curr, works>>
  PROVE  ListInv'
<1>1. TypeOK /\ OrderInv /\ HeadInv /\ TailInv
  BY DEF ListInv
<1>2. /\ next' = next /\ tail' = tail /\ linked' = linked
      /\ pc' = pc /\ prev' = prev /\ curr' = curr /\ works' = works
  BY DEF queueVars
<1>3. /\ OrderInv' /\ HeadInv'
      /\ \A n : Listed(n)' <=> Listed(n)
      /\ \A n : UpToTail(n)' <=> UpToTail(n)
  BY <1>1, SameQueue
<1>4. TailInv'
  BY <1>1, <1>2 DEF TailInv, NodeAt, NodeOf
<1>5. ASSUME NEW u \in Producers PROVE ProducerOK(u)'
  BY <1>1, <1>2, <1>3, OtherProducer DEF ListInv
<1>6. ASSUME NEW u \in Consumers PROVE ConsumerOK(u)'
  BY <1>1, <1>2, <1>3, OtherConsumer DEF ListInv
<1> QED BY <1>3, <1>4, <1>5, <1>6 DEF ListInv

-----------------------------------------------------------------------------
(* The theorems. *)

LEMMA InitListInv == Init => ListInv
<1> SUFFICES ASSUME Init PROVE ListInv
  OBVIOUS
<1>1. linked = <<>> /\ taken = <<>> /\ Len(linked) = 0 /\ Len(taken) = 0
  BY DEF Init
<1>2. TypeOK
  <2>1. 0 \in 0 .. NumEnqueue
    OBVIOUS
  <2> QED BY <2>1, Apart DEF Init, TypeOK
<1>3. OrderInv
  BY <1>1, Apart DEF Init, OrderInv, NodeAt
<1>4. HeadInv /\ TailInv
  BY <1>1 DEF Init, HeadInv, TailInv, NodeAt
<1>5. ASSUME NEW t \in Producers PROVE ProducerOK(t)
  <2>1. pc[t] = "load" /\ works[t] = 0
    BY Kinds DEF Init
  <2>2. t \in Nat /\ NumEnqueue * t \in Nat
    BY DEF Producers
  <2>3. Sent(t) = {k \in Keys : k < NumEnqueue * t}
    BY <2>1, <2>2 DEF Sent, NodeOf
  <2>4. ASSUME NEW k \in NumEnqueue * t .. NumEnqueue * (t + 1) - 1
        PROVE  ~ Listed(k) /\ k \notin Sent(t)
    <3>1. k \in Nat /\ NumEnqueue * t <= k
      BY <2>2
    <3>2. k # Sentinel
      BY <3>1 DEF Sentinel
    <3> QED BY <1>1, <2>2, <2>3, <3>1, <3>2 DEF Listed, NodeAt
  <2> QED BY <2>1, <2>4 DEF ProducerOK
<1>6. ASSUME NEW t \in Consumers PROVE ConsumerOK(t)
  BY Kinds DEF Init, ConsumerOK
<1> QED BY <1>2, <1>3, <1>4, <1>5, <1>6 DEF ListInv

LEMMA NextListInv == ListInv /\ [Next]_vars => ListInv'
<1> SUFFICES ASSUME ListInv, [Next]_vars PROVE ListInv'
  OBVIOUS
<1>1. ASSUME NEW t \in Producers, Produce(t) PROVE ListInv'
  BY <1>1, LoadTailInv, LinkInv, LinkFailsInv, HelpInv, SwingInv DEF Produce
<1>2. ASSUME NEW t \in Consumers, Consume(t) PROVE ListInv'
  BY <1>2, LoadHeadInv, FollowInv, TakeInv, TakeFailsInv, VerifyInv DEF Consume
<1>3. CASE Judge
  <2>1. TypeOK'
    BY <1>3 DEF Judge, ListInv, TypeOK, queueVars
  <2> QED BY <1>3, <2>1, ThreadsKeep DEF Judge
<1>4. CASE UNCHANGED vars
  <2>1. TypeOK'
    BY <1>4 DEF vars, ListInv, TypeOK, queueVars, mainVars
  <2> QED BY <1>4, <2>1, ThreadsKeep DEF vars
<1> QED BY <1>1, <1>2, <1>3, <1>4 DEF Next, Terminating

\* The list of lab13's queue is whole in every state: the nodes are in the order
\* of the CASes on next, head is behind the keys taken, tail at the last node or
\* one before it, and every producer's keys are linked in its order.
THEOREM QueueInvariant == Spec => []ListInv
<1>1. Init => ListInv
  BY InitListInv
<1>2. ListInv /\ [Next]_vars => ListInv'
  BY NextListInv
<1> QED BY <1>1, <1>2, PTL DEF Spec

\* lab13's queue is a first-in-first-out queue, whatever its threads do: the CAS
\* on next puts a key, the CAS on head takes the oldest, and no other step of
\* enqueue() or dequeue() changes what is in it.
THEOREM QueueImplementsFIFO == Spec => ImplementsFIFOQueue
<1>1. Init => Abstract!Init
  BY DEF Init, Abstract!Init
<1>2. ListInv /\ [Next]_vars => [Abstract!Next]_(Abstract!vars)
  <2> SUFFICES ASSUME ListInv, [Next]_vars PROVE [Abstract!Next]_(Abstract!vars)
    OBVIOUS
  <2>1. ASSUME NEW t \in Producers, Link(t) PROVE Abstract!Next
    <3>1. NodeOf(t) \in Keys /\ ~ Listed(NodeOf(t))
      BY <2>1, NodeOfNew DEF Link, ListInv
    <3>2. \A n \in 1 .. Len(linked) : linked[n] # NodeOf(t)
      <4>1. \A n \in 1 .. Len(linked) : n \in 0 .. Len(linked) /\ NodeAt(n) = linked[n]
        BY NodesOfList DEF ListInv
      <4> QED BY <3>1, <4>1 DEF Listed
    <3>3. Abstract!Put(NodeOf(t))
      BY <2>1, <3>2 DEF Link, Abstract!Put
    <3> QED BY <3>1, <3>3 DEF Abstract!Next
  <2>2. ASSUME NEW t \in Consumers, Take(t) PROVE Abstract!Next
    <3>1. Len(taken) < Len(linked) /\ curr[t] = linked[Len(taken) + 1]
      BY <2>2, TakeNext
    <3>2. Abstract!Take
      BY <2>2, <3>1 DEF Take, Abstract!Take
    <3> QED BY <3>2 DEF Abstract!Next
  <2>3. ASSUME UNCHANGED <<linked, taken>> PROVE UNCHANGED Abstract!vars
    BY <2>3 DEF Abstract!vars
  <2>4. ASSUME NEW t \in Producers, LoadTail(t) \/ LinkFails(t) \/ Help(t) \/ Swing(t)
        PROVE  UNCHANGED <<linked, taken>>
    BY <2>4 DEF LoadTail, LinkFails, Help, Swing, queueVars
  <2>5. ASSUME NEW t \in Consumers, LoadHead(t) \/ Follow(t) \/ TakeFails(t) \/ Verify(t)
        PROVE  UNCHANGED <<linked, taken>>
    BY <2>5 DEF LoadHead, Follow, TakeFails, Verify, queueVars
  <2>6. ASSUME Judge \/ UNCHANGED vars PROVE UNCHANGED <<linked, taken>>
    BY <2>6 DEF Judge, vars, queueVars
  <2> QED BY <2>1, <2>2, <2>3, <2>4, <2>5, <2>6 DEF Next, Produce, Consume, Terminating
<1> QED BY <1>1, <1>2, QueueInvariant, PTL DEF Spec, ImplementsFIFOQueue, Abstract!Spec
=============================================================================
