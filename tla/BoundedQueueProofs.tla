--------------------------- MODULE BoundedQueueProofs ---------------------------
(****************************************************************************)
(* Theorems about the bounded queue, for every number of producers, of keys *)
(* and of buckets.                                                          *)
(****************************************************************************)
EXTENDS BoundedQueue, TLAPS

USE NumProducerAssumption, NumEnqueueAssumption, QueueSizeAssumption

\* A ticket is made of its round and its bucket.
LEMMA Division ==
  ASSUME NEW n \in Nat
  PROVE  /\ n % QueueSize \in Buckets /\ n \div QueueSize \in Nat
         /\ n = QueueSize * (n \div QueueSize) + (n % QueueSize)
  BY DEF Buckets

\* The ticket QueueSize later is for the same bucket, one round later.
LEMMA NextRound ==
  ASSUME NEW n \in Nat
  PROVE  /\ (n + QueueSize) % QueueSize = n % QueueSize
         /\ (n + QueueSize) \div QueueSize = (n \div QueueSize) + 1
  OBVIOUS

\* What the two tests of a flag say together.
LEMMA Parity ==
  ASSUME NEW f \in Nat, NEW r \in Nat
  PROVE  /\ (f % 2 = 0 /\ f \div 2 = r) <=> f = 2 * r
         /\ (f % 2 = 1 /\ f \div 2 = r) <=> f = 2 * r + 1
  OBVIOUS

\* Multiplication is monotonic.
LEMMA Multiples ==
  ASSUME NEW m \in Nat, NEW n \in Nat, m <= n
  PROVE  NumEnqueue * m <= NumEnqueue * n
<1>1. NumEnqueue * (n - m) >= 0
  OBVIOUS
<1>2. NumEnqueue * (n - m) = NumEnqueue * n - NumEnqueue * m
  OBVIOUS
<1> QED BY <1>1, <1>2

\* A producer that has a key left to send has a key.
LEMMA KeyOfIsKey ==
  ASSUME TypeOK, NEW t \in Producers, works[t] < NumEnqueue
  PROVE  KeyOf(t) \in Keys
<1>1. t \in Nat /\ t + 1 \in Nat /\ t + 1 <= NumProducer
  BY DEF Producers
<1>5. works[t] \in 0 .. NumEnqueue
  BY DEF TypeOK, Threads
<1>2. NumEnqueue * (t + 1) = NumEnqueue * t + NumEnqueue /\ NumEnqueue * t \in Nat
  BY <1>1
<1>3. NumEnqueue * (t + 1) <= NumEnqueue * NumProducer
  BY <1>1, Multiples
<1>4. NumEnqueue * NumProducer = NumProducer * NumEnqueue /\ NumProducer * NumEnqueue \in Nat
  OBVIOUS
<1> QED BY <1>2, <1>3, <1>4, <1>5 DEF KeyOf, Keys

\* Producers and consumers are different threads.
LEMMA Kinds ==
  /\ Producers \subseteq Threads /\ Consumers \subseteq Threads
  /\ Producers \cap Consumers = {} /\ Threads = Producers \union Consumers
  BY DEF Producers, Consumers, Threads

-----------------------------------------------------------------------------
(* Flags, tickets and buckets. *)

\* A thread's ticket, its bucket and its round.
LEMMA BucketOf ==
  ASSUME TypeOK, NEW t \in Threads
  PROVE  /\ ticket[t] \in Nat /\ Bucket(t) \in Buckets /\ Round(t) \in Nat
         /\ flag[Bucket(t)] \in Nat
         /\ ticket[t] = QueueSize * Round(t) + Bucket(t)
         /\ EmptyForMe(t) <=> flag[Bucket(t)] = 2 * Round(t)
         /\ FullForMe(t) <=> flag[Bucket(t)] = 2 * Round(t) + 1
         /\ FullForMe(t) => /\ flag[Bucket(t)] % 2 = 1
                            /\ FullTicket(Bucket(t)) = ticket[t]
<1>1. ticket[t] \in Nat
  BY DEF TypeOK
<1>2. Bucket(t) \in Buckets /\ Round(t) \in Nat
      /\ ticket[t] = QueueSize * Round(t) + Bucket(t)
  BY <1>1, Division DEF Bucket, Round
<1>3. flag[Bucket(t)] \in Nat
  BY <1>2 DEF TypeOK
<1>4. /\ EmptyForMe(t) <=> flag[Bucket(t)] = 2 * Round(t)
      /\ FullForMe(t) <=> flag[Bucket(t)] = 2 * Round(t) + 1
  BY <1>2, <1>3, Parity DEF EmptyForMe, FullForMe
<1>5. FullForMe(t) => flag[Bucket(t)] % 2 = 1 /\ FullTicket(Bucket(t)) = ticket[t]
  BY <1>2 DEF FullForMe, FullTicket
<1> QED BY <1>1, <1>2, <1>3, <1>4, <1>5

\* The flags let one thread at a time use a bucket.
LEMMA Exclusive ==
  ASSUME TicketInv
  PROVE  BucketsExclusive
<1> SUFFICES ASSUME NEW t \in Inside, NEW u \in Inside, Bucket(t) = Bucket(u)
             PROVE  t = u
  BY DEF BucketsExclusive
<1>1. TypeOK /\ t \in Threads /\ u \in Threads
      /\ pc[t] \in {"access", "publish"} /\ pc[u] \in {"access", "publish"}
  BY DEF TicketInv, Inside
<1>2. CASE t \in Producers /\ u \in Producers
  <2>1. EmptyForMe(t) /\ EmptyForMe(u) /\ ticket[t] < rear
    BY <1>1, <1>2 DEF TicketInv, ProducerOK
  <2>2. Round(t) = Round(u)
    BY <2>1 DEF EmptyForMe
  <2>3. ticket[t] = ticket[u] /\ ticket[t] \in 0 .. rear - 1
    BY <1>1, <2>1, <2>2, BucketOf DEF TypeOK
  <2> QED BY <1>1, <1>2, <2>3 DEF TicketInv, Turns, Holds
<1>3. CASE t \in Consumers /\ u \in Consumers
  <2>1. FullForMe(t) /\ FullForMe(u) /\ ticket[t] < front
    BY <1>1, <1>3 DEF TicketInv, ConsumerOK
  <2>2. Round(t) = Round(u)
    BY <2>1 DEF FullForMe
  <2>3. ticket[t] = ticket[u] /\ ticket[t] \in 0 .. front - 1
    BY <1>1, <2>1, <2>2, BucketOf DEF TypeOK
  <2> QED BY <1>1, <1>3, <2>3 DEF TicketInv, Turns, Holds
<1>4. CASE t \in Producers /\ u \in Consumers
  BY <1>1, <1>4 DEF TicketInv, ProducerOK, ConsumerOK, EmptyForMe, FullForMe
<1>5. CASE t \in Consumers /\ u \in Producers
  BY <1>1, <1>5 DEF TicketInv, ProducerOK, ConsumerOK, EmptyForMe, FullForMe
<1> QED BY <1>1, <1>2, <1>3, <1>4, <1>5, Kinds

\* The increment of a flag passes one turn of one ticket, and no other.
LEMMA PassTurn ==
  ASSUME TypeOK, NEW t \in Threads, NEW c \in {0, 1},
         flag[Bucket(t)] = 2 * Round(t) + c,
         flag' = [flag EXCEPT ![Bucket(t)] = @ + 1],
         NEW m \in Nat, NEW d \in {0, 1}
  PROVE  Passed(m, d)' <=> Passed(m, d) \/ (d = c /\ m = ticket[t])
<1> DEFINE n == ticket[t]
<1>0. n = ticket[t] /\ n \in Nat /\ Bucket(t) = n % QueueSize /\ Round(t) = n \div QueueSize
  BY DEF TypeOK, Bucket, Round
<1> HIDE DEF n
<1>1. /\ m % QueueSize \in Buckets /\ m \div QueueSize \in Nat
      /\ m = QueueSize * (m \div QueueSize) + (m % QueueSize)
  BY Division
<1>2. /\ n % QueueSize \in Buckets /\ n \div QueueSize \in Nat
      /\ n = QueueSize * (n \div QueueSize) + (n % QueueSize)
  BY <1>0, Division
<1>3. flag[m % QueueSize] \in Nat
  BY <1>1 DEF TypeOK
<1>4. CASE m % QueueSize # n % QueueSize
  <2>1. flag'[m % QueueSize] = flag[m % QueueSize]
    BY <1>0, <1>1, <1>2, <1>4 DEF TypeOK
  <2> QED BY <1>0, <1>4, <2>1 DEF Passed
<1>5. CASE m % QueueSize = n % QueueSize
  <2>1. flag'[m % QueueSize] = flag[m % QueueSize] + 1
    BY <1>0, <1>1, <1>2, <1>5 DEF TypeOK
  <2>2. m = n <=> m \div QueueSize = n \div QueueSize
    BY <1>1, <1>2, <1>5
  <2>3. Passed(m, d)' <=> 2 * (n \div QueueSize) + c + 1 > 2 * (m \div QueueSize) + d
    BY <1>0, <1>3, <1>5, <2>1 DEF Passed
  <2>4. Passed(m, d) <=> 2 * (n \div QueueSize) + c > 2 * (m \div QueueSize) + d
    BY <1>0, <1>3, <1>5 DEF Passed
  <2>5. \A i, j \in Nat :
          2 * i + c + 1 > 2 * j + d <=> 2 * i + c > 2 * j + d \/ (d = c /\ j = i)
    OBVIOUS
  <2>6. 2 * (n \div QueueSize) + c + 1 > 2 * (m \div QueueSize) + d
          <=> 2 * (n \div QueueSize) + c > 2 * (m \div QueueSize) + d \/ (d = c /\ m = n)
    BY <1>1, <1>2, <2>2, <2>5
  <2> QED BY <1>0, <2>3, <2>4, <2>6
<1> QED BY <1>4, <1>5

\* A step that neither draws a ticket nor moves a flag keeps the turns.
LEMMA KeepTurns ==
  ASSUME NEW drawn \in Nat, NEW c, NEW threads, Turns(drawn, c, threads),
         flag' = flag,
         \A u \in threads : \A n \in Nat : Holds(u, n)' <=> Holds(u, n)
  PROVE  Turns(drawn, c, threads)'
<1>1. \A n \in Nat : Passed(n, c)' <=> Passed(n, c)
  BY DEF Passed
<1> QED BY <1>1 DEF Turns

\* Drawing the next ticket.
LEMMA DrawTurns ==
  ASSUME TypeOK, NEW drawn \in Nat, NEW c \in {0, 1}, NEW threads \in SUBSET Threads,
         Turns(drawn, c, threads),
         \A u \in threads : pc[u] # "call" => ticket[u] < drawn,
         NEW t \in threads, pc[t] = "call",
         flag' = flag, Goto(t, "wait"), ticket' = [ticket EXCEPT ![t] = drawn]
  PROVE  Turns(drawn + 1, c, threads)'
<1>1. \A u \in threads : ticket[u] \in Nat
  BY DEF TypeOK
<1>2. \A n \in Nat : Holds(t, n)' <=> n = drawn
  BY DEF Holds, Goto, TypeOK
<1>3. ASSUME NEW u \in threads \ {t}, NEW n \in Nat
      PROVE  /\ Holds(u, n)' <=> Holds(u, n)
             /\ Holds(u, n) => n < drawn
  BY DEF Holds, Goto, TypeOK
<1>4. \A n \in Nat : ~ Holds(t, n)
  BY DEF Holds
<1>5. \A n \in Nat : Passed(n, c)' <=> Passed(n, c)
  BY DEF Passed
<1>6. ASSUME NEW n \in 0 .. drawn
      PROVE  Passed(n, c)' <=> \A u \in threads : ~ Holds(u, n)'
  <2>1. CASE n = drawn
    <3>1. ~ Passed(n, c)
      BY <2>1 DEF Turns
    <3> QED BY <1>2, <1>5, <2>1, <3>1
  <2>2. CASE n \in 0 .. drawn - 1
    BY <1>2, <1>3, <1>4, <1>5, <2>2 DEF Turns
  <2> QED BY <2>1, <2>2
<1>7. ASSUME NEW n \in drawn + 1 .. drawn + QueueSize
      PROVE  ~ Passed(n, c)'
  <2>1. CASE n = drawn + QueueSize
    <3>1. ~ Passed(drawn, c)
      BY DEF Turns
    <3>2. drawn % QueueSize \in Buckets /\ drawn \div QueueSize \in Nat
      BY Division
    <3>3. flag[drawn % QueueSize] \in Nat
      BY <3>2 DEF TypeOK
    <3>5. n % QueueSize = drawn % QueueSize /\ n \div QueueSize = (drawn \div QueueSize) + 1
      BY <2>1, NextRound
    <3>6. flag[drawn % QueueSize] <= 2 * (drawn \div QueueSize) + c
      BY <3>1, <3>2, <3>3 DEF Passed
    <3>4. ~ Passed(n, c)
      BY <3>2, <3>3, <3>5, <3>6 DEF Passed
    <3> QED BY <1>5, <2>1, <3>4
  <2>2. CASE n \in drawn .. drawn + QueueSize - 1
    BY <1>5, <2>2 DEF Turns
  <2> QED BY <2>1, <2>2
<1>8. ASSUME NEW n \in 0 .. drawn, NEW u \in threads, NEW v \in threads,
             Holds(u, n)', Holds(v, n)'
      PROVE  u = v
  <2>1. CASE n = drawn
    <3>1. \A w \in threads \ {t} : ~ Holds(w, n)'
      BY <1>3, <2>1
    <3> QED BY <1>8, <3>1
  <2>2. CASE n \in 0 .. drawn - 1
    <3>1. u # t /\ v # t
      BY <1>2, <1>8, <2>2
    <3> QED BY <1>3, <1>8, <2>2, <3>1 DEF Turns
  <2> QED BY <2>1, <2>2
<1>9. drawn + 1 - 1 = drawn /\ drawn + 1 + QueueSize - 1 = drawn + QueueSize
  OBVIOUS
<1> QED BY <1>6, <1>7, <1>8, <1>9 DEF Turns

\* Incrementing the flag at the end of a call gives the ticket back.
LEMMA PassTurns ==
  ASSUME TypeOK, NEW drawn \in Nat, NEW c \in {0, 1}, NEW threads \in SUBSET Threads,
         Turns(drawn, c, threads),
         NEW t \in threads, pc[t] = "publish", ticket[t] < drawn,
         flag[Bucket(t)] = 2 * Round(t) + c,
         NEW place \in {"call", "verify"}, Goto(t, place),
         flag' = [flag EXCEPT ![Bucket(t)] = @ + 1], ticket' = ticket
  PROVE  Turns(drawn, c, threads)'
<1>1. ticket[t] \in 0 .. drawn - 1
  BY DEF TypeOK
<1>2. ASSUME NEW n \in Nat
      PROVE  Passed(n, c)' <=> Passed(n, c) \/ n = ticket[t]
  BY PassTurn
<1>3. \A n \in Nat : ~ Holds(t, n)'
  BY DEF Holds, Goto, TypeOK
<1>4. \A u \in threads \ {t} : \A n \in Nat : Holds(u, n)' <=> Holds(u, n)
  BY DEF Holds, Goto, TypeOK
<1>5. Holds(t, ticket[t]) /\ \A n \in Nat : n # ticket[t] => ~ Holds(t, n)
  BY DEF Holds
<1>6. \A u \in threads \ {t} : ~ Holds(u, ticket[t])
  BY <1>1, <1>5 DEF Turns
<1>7. ASSUME NEW n \in 0 .. drawn - 1
      PROVE  Passed(n, c)' <=> \A u \in threads : ~ Holds(u, n)'
  <2>1. CASE n = ticket[t]
    BY <1>2, <1>3, <1>4, <1>6, <2>1
  <2>2. CASE n # ticket[t]
    BY <1>2, <1>3, <1>4, <1>5, <2>2 DEF Turns
  <2> QED BY <2>1, <2>2
<1>8. ASSUME NEW n \in drawn .. drawn + QueueSize - 1
      PROVE  ~ Passed(n, c)'
  BY <1>1, <1>2 DEF Turns
<1>9. ASSUME NEW n \in 0 .. drawn - 1, NEW u \in threads, NEW v \in threads,
             Holds(u, n)', Holds(v, n)'
      PROVE  u = v
  <2>1. u # t /\ v # t
    BY <1>3, <1>9
  <2> QED BY <1>4, <1>9, <2>1 DEF Turns
<1> QED BY <1>7, <1>8, <1>9 DEF Turns

\* It passes no turn of the threads on the other side of the queue.
LEMMA OtherTurns ==
  ASSUME TypeOK, NEW drawn \in Nat, NEW c \in {0, 1}, NEW d \in {0, 1}, c # d,
         NEW threads, Turns(drawn, d, threads),
         NEW t \in Threads, flag[Bucket(t)] = 2 * Round(t) + c,
         flag' = [flag EXCEPT ![Bucket(t)] = @ + 1],
         \A u \in threads : \A n \in Nat : Holds(u, n)' <=> Holds(u, n)
  PROVE  Turns(drawn, d, threads)'
<1>1. ASSUME NEW n \in Nat
      PROVE  Passed(n, d)' <=> Passed(n, d)
  <2>1. Passed(n, d)' <=> Passed(n, d) \/ (d = c /\ n = ticket[t])
    BY PassTurn, ZenonT(60)
  <2> QED BY <2>1
<1> QED BY <1>1 DEF Turns

-----------------------------------------------------------------------------
(* What a step leaves alone. *)

\* A thread that does not take the step.
LEMMA OtherKeeps ==
  ASSUME TicketInv, NEW u \in Threads,
         pc'[u] = pc[u] /\ ticket'[u] = ticket[u] /\ works'[u] = works[u],
         u \in Consumers => ret_key'[u] = ret_key[u],
         u \in Inside =>
           flag'[Bucket(u)] = flag[Bucket(u)] /\ key'[Bucket(u)] = key[Bucket(u)],
         rear' \in Nat, front' \in Nat, rear <= rear', front <= front',
         \A n \in 1 .. rear : sent'[n] = sent[n]
  PROVE  /\ u \in Producers => ProducerOK(u)'
         /\ u \in Consumers => ConsumerOK(u)'
<1>1. rear \in Nat /\ front \in Nat /\ ticket[u] \in Nat
  BY DEF TicketInv, TypeOK
<1>2. Bucket(u)' = Bucket(u) /\ Round(u)' = Round(u) /\ KeyOf(u)' = KeyOf(u)
  BY DEF Bucket, Round, KeyOf
<1>3. ticket[u] < rear =>
        ticket'[u] < rear' /\ sent'[ticket'[u] + 1] = sent[ticket[u] + 1]
  <2>1. ticket[u] < rear => ticket[u] + 1 \in 1 .. rear
    BY <1>1
  <2> QED BY <1>1, <2>1
<1>4. pc[u] \in {"access", "publish"} =>
        /\ EmptyForMe(u)' <=> EmptyForMe(u)
        /\ FullForMe(u)' <=> FullForMe(u)
        /\ key'[Bucket(u)'] = key[Bucket(u)]
  BY <1>2 DEF EmptyForMe, FullForMe, Inside
<1>5. ASSUME u \in Producers PROVE ProducerOK(u)'
  <2>1. ProducerOK(u)
    BY <1>5 DEF TicketInv
  <2>2. pc[u] # "call" => /\ works'[u] < NumEnqueue /\ ticket'[u] < rear'
                          /\ sent'[ticket'[u] + 1] = KeyOf(u)'
    BY <1>2, <1>3, <2>1 DEF ProducerOK
  <2>3. pc[u] \in {"access", "publish"} => EmptyForMe(u)'
    BY <1>4, <2>1 DEF ProducerOK
  <2>4. pc[u] = "publish" => key'[Bucket(u)'] = KeyOf(u)'
    BY <1>2, <1>4, <2>1 DEF ProducerOK
  <2> QED BY <2>2, <2>3, <2>4 DEF ProducerOK
<1>6. ASSUME u \in Consumers PROVE ConsumerOK(u)'
  <2>1. ConsumerOK(u)
    BY <1>6 DEF TicketInv
  <2>2. pc[u] # "call" => works'[u] < NumEnqueue /\ ticket'[u] < front'
    BY <1>1, <2>1 DEF ConsumerOK
  <2>3. pc[u] \in {"access", "publish"} => FullForMe(u)'
    BY <1>4, <2>1 DEF ConsumerOK
  <2>4. GotKeyOfTicket(u)'
    BY <1>3, <1>6, <2>1 DEF ConsumerOK, GotKeyOfTicket
  <2> QED BY <2>2, <2>3, <2>4 DEF ConsumerOK
<1> QED BY <1>5, <1>6

\* A bucket that is not touched, or was empty and stays so.
LEMMA BucketKeeps ==
  ASSUME TicketInv, NEW b \in Buckets, flag'[b] = flag[b],
         flag[b] % 2 = 1 => key'[b] = key[b],
         rear' \in Nat, rear <= rear', \A n \in 1 .. rear : sent'[n] = sent[n]
  PROVE  BucketOK(b)'
<1> SUFFICES ASSUME flag[b] % 2 = 1 PROVE BucketOK(b)'
  BY DEF BucketOK
<1>1. FullTicket(b)' = FullTicket(b)
  BY DEF FullTicket
<1>2. FullTicket(b) < rear /\ key[b] = sent[FullTicket(b) + 1]
  BY DEF TicketInv, BucketOK
<1>3. FullTicket(b) \in Nat /\ rear \in Nat
  <2>1. flag[b] \in Nat /\ b \in Nat /\ rear \in Nat
    BY DEF TicketInv, TypeOK, Buckets
  <2>2. flag[b] \div 2 \in Nat
    BY <2>1
  <2> QED BY <2>1, <2>2 DEF FullTicket
<1>4. FullTicket(b) + 1 \in 1 .. rear
  BY <1>2, <1>3
<1> QED BY <1>1, <1>2, <1>3, <1>4 DEF BucketOK

\* A step that moves neither the counters nor a flag, and nobody between
\* holding a ticket and not holding one.
LEMMA TurnsKeep ==
  ASSUME TicketInv, flag' = flag, rear' = rear, front' = front,
         \A u \in Threads : \A n \in Nat : Holds(u, n)' <=> Holds(u, n)
  PROVE  Turns(rear, 0, Producers)' /\ Turns(front, 1, Consumers)'
<1>1. PICK r \in Nat : r = rear
  BY DEF TicketInv, TypeOK
<1>2. PICK f \in Nat : f = front
  BY DEF TicketInv, TypeOK
<1>3. Turns(r, 0, Producers) /\ Turns(f, 1, Consumers)
  BY <1>1, <1>2 DEF TicketInv
<1>4. Turns(r, 0, Producers)'
  BY <1>3, KeepTurns, Kinds
<1>5. Turns(f, 1, Consumers)'
  BY <1>3, KeepTurns, Kinds
<1> QED BY <1>1, <1>2, <1>4, <1>5 DEF Turns

\* The same, of a step of thread t that takes it from one place to another.
LEMMA PlacesKeep ==
  ASSUME TypeOK, NEW t \in Threads, NEW place, Goto(t, place), ticket' = ticket,
         pc[t] \in {"wait", "access", "publish"} <=> place \in {"wait", "access", "publish"}
  PROVE  \A u \in Threads : \A n \in Nat : Holds(u, n)' <=> Holds(u, n)
<1> SUFFICES ASSUME NEW u \in Threads, NEW n \in Nat PROVE Holds(u, n)' <=> Holds(u, n)
  OBVIOUS
<1>1. CASE u = t
  BY <1>1 DEF TypeOK, Goto, Holds
<1>2. CASE u # t
  BY <1>2 DEF TypeOK, Goto, Holds
<1> QED BY <1>1, <1>2

-----------------------------------------------------------------------------
(* enqueue() *)

LEMMA DrawRearInv ==
  ASSUME TicketInv, NEW t \in Producers, DrawRear(t)
  PROVE  TicketInv'
<1>1. TypeOK /\ t \in Threads /\ pc[t] = "call" /\ works[t] < NumEnqueue
      /\ rear = Len(sent) /\ rear \in Nat /\ front \in Nat /\ sent \in Seq(Keys)
  BY Kinds DEF TicketInv, TypeOK, DrawRear
<1>2. KeyOf(t) \in Keys
  BY <1>1, KeyOfIsKey
<1>3. sent' = Append(sent, KeyOf(t)) /\ rear' = rear + 1 /\ flag' = flag /\ key' = key
      /\ front' = front /\ works' = works /\ ret_key' = ret_key
      /\ ticket' = [ticket EXCEPT ![t] = rear] /\ Goto(t, "wait")
  BY DEF DrawRear
<1>4. sent' \in Seq(Keys) /\ Len(sent') = rear' /\ sent'[rear + 1] = KeyOf(t)
      /\ \A n \in 1 .. rear : sent'[n] = sent[n]
  BY <1>1, <1>2, <1>3
<1>5. TypeOK'
  BY <1>1, <1>3, <1>4 DEF TypeOK, DrawRear, Goto
<1>6. pc'[t] = "wait" /\ ticket'[t] = rear /\ works'[t] = works[t]
      /\ \A u \in Threads \ {t} :
           pc'[u] = pc[u] /\ ticket'[u] = ticket[u] /\ works'[u] = works[u]
  BY <1>1, <1>3 DEF TypeOK, Goto
<1>7. Turns(rear, 0, Producers)'
  <2>1. PICK r \in Nat : r = rear
    BY <1>1
  <2>2. \A u \in Producers : pc[u] # "call" => ticket[u] < r
    BY <2>1 DEF TicketInv, ProducerOK
  <2>3. Turns(r, 0, Producers)
    BY <2>1 DEF TicketInv
  <2>4. ticket' = [ticket EXCEPT ![t] = r]
    BY <1>3, <2>1
  <2>5. Turns(r + 1, 0, Producers)'
    BY <1>1, <1>3, <2>2, <2>3, <2>4, DrawTurns, Kinds
  <2> QED BY <1>3, <2>1, <2>5 DEF Turns
<1>8. Turns(front, 1, Consumers)'
  <2>1. PICK f \in Nat : f = front
    BY <1>1
  <2>2. Turns(f, 1, Consumers)
    BY <2>1 DEF TicketInv
  <2>3. \A u \in Consumers : \A n \in Nat : Holds(u, n)' <=> Holds(u, n)
    BY <1>6, Kinds DEF Holds
  <2>4. Turns(f, 1, Consumers)'
    BY <1>3, <2>2, <2>3, KeepTurns
  <2> QED BY <1>3, <2>1, <2>4 DEF Turns
<1>9. \A b \in Buckets : BucketOK(b)'
  BY <1>1, <1>3, <1>4, BucketKeeps
<1>10. ProducerOK(t)'
  BY <1>1, <1>3, <1>4, <1>6 DEF ProducerOK, KeyOf
<1>11. ASSUME NEW u \in Threads \ {t}
      PROVE  (u \in Producers => ProducerOK(u)') /\ (u \in Consumers => ConsumerOK(u)')
  BY <1>1, <1>3, <1>4, <1>6, OtherKeeps
<1> QED BY <1>4, <1>5, <1>7, <1>8, <1>9, <1>10, <1>11, Kinds DEF TicketInv

LEMMA AwaitEmptyInv ==
  ASSUME TicketInv, NEW t \in Producers, AwaitEmpty(t)
  PROVE  TicketInv'
<1>1. TypeOK /\ t \in Threads /\ pc[t] = "wait" /\ EmptyForMe(t) /\ Goto(t, "access")
      /\ rear \in Nat /\ front \in Nat
      /\ UNCHANGED <<key, flag, front, rear, ticket, works, ret_key, sent>>
  BY Kinds DEF TicketInv, TypeOK, AwaitEmpty
<1>2. TypeOK'
  BY <1>1 DEF TypeOK, AwaitEmpty, Goto
<1>3. pc'[t] = "access" /\ \A u \in Threads \ {t} : pc'[u] = pc[u]
  BY <1>1 DEF TypeOK, Goto
<1>4. Turns(rear, 0, Producers)' /\ Turns(front, 1, Consumers)'
  BY <1>1, PlacesKeep, TurnsKeep
<1>5. \A b \in Buckets : BucketOK(b)'
  BY <1>1, BucketKeeps
<1>6. ProducerOK(t)'
  <2>1. EmptyForMe(t)' /\ KeyOf(t)' = KeyOf(t)
    BY <1>1 DEF EmptyForMe, Bucket, Round, KeyOf
  <2> QED BY <1>1, <1>3, <2>1 DEF TicketInv, ProducerOK
<1>7. ASSUME NEW u \in Threads \ {t}
      PROVE  (u \in Producers => ProducerOK(u)') /\ (u \in Consumers => ConsumerOK(u)')
  BY <1>1, <1>3, OtherKeeps
<1> QED BY <1>1, <1>2, <1>4, <1>5, <1>6, <1>7, Kinds DEF TicketInv

LEMMA WriteInv ==
  ASSUME TicketInv, NEW t \in Producers, Write(t)
  PROVE  TicketInv'
<1>1. TypeOK /\ t \in Threads /\ pc[t] = "access" /\ Goto(t, "publish")
      /\ rear \in Nat /\ front \in Nat
      /\ key' = [key EXCEPT ![Bucket(t)] = KeyOf(t)]
      /\ UNCHANGED <<flag, front, rear, ticket, works, ret_key, sent>>
  BY Kinds DEF TicketInv, TypeOK, Write
<1>2. EmptyForMe(t) /\ works[t] < NumEnqueue /\ t \in Inside /\ Bucket(t) \in Buckets
  BY <1>1, BucketOf DEF TicketInv, ProducerOK, Inside
<1>3. TypeOK'
  <2>1. KeyOf(t) \in Keys
    BY <1>1, <1>2, KeyOfIsKey
  <2>2. key' \in [Buckets -> Keys \union {0}]
    BY <1>1, <1>2, <2>1 DEF TypeOK
  <2> QED BY <1>1, <2>2 DEF TypeOK, Write, Goto
<1>4. pc'[t] = "publish" /\ \A u \in Threads \ {t} : pc'[u] = pc[u]
  BY <1>1 DEF TypeOK, Goto
<1>5. Turns(rear, 0, Producers)' /\ Turns(front, 1, Consumers)'
  BY <1>1, PlacesKeep, TurnsKeep
<1>6. key'[Bucket(t)] = KeyOf(t) /\ \A b \in Buckets \ {Bucket(t)} : key'[b] = key[b]
  BY <1>1, <1>2 DEF TypeOK
<1>7. ASSUME NEW b \in Buckets PROVE BucketOK(b)'
  <2>1. flag[b] % 2 = 1 => key'[b] = key[b]
    <3>1. flag[Bucket(t)] % 2 # 1
      BY <1>2 DEF EmptyForMe
    <3> QED BY <1>6, <3>1
  <2> QED BY <1>1, <2>1, BucketKeeps
<1>8. ProducerOK(t)'
  <2>1. EmptyForMe(t)' /\ KeyOf(t)' = KeyOf(t) /\ Bucket(t)' = Bucket(t)
    BY <1>1, <1>2 DEF EmptyForMe, Bucket, Round, KeyOf
  <2> QED BY <1>1, <1>4, <1>6, <2>1 DEF TicketInv, ProducerOK
<1>9. \A u \in Inside \ {t} : Bucket(u) \in Buckets \ {Bucket(t)}
  BY <1>1, <1>2, BucketOf, Exclusive DEF BucketsExclusive, Inside
<1>10. ASSUME NEW u \in Threads \ {t}
      PROVE  (u \in Producers => ProducerOK(u)') /\ (u \in Consumers => ConsumerOK(u)')
  BY <1>1, <1>4, <1>6, <1>9, OtherKeeps
<1> QED BY <1>1, <1>3, <1>5, <1>7, <1>8, <1>10, Kinds DEF TicketInv

\* What the increment of the flag does to the buckets.
LEMMA FlagStep ==
  ASSUME TicketInv, NEW t \in Threads, pc[t] = "publish",
         flag' = [flag EXCEPT ![Bucket(t)] = @ + 1]
  PROVE  /\ flag' \in [Buckets -> Nat]
         /\ flag'[Bucket(t)] = flag[Bucket(t)] + 1
         /\ \A b \in Buckets \ {Bucket(t)} : flag'[b] = flag[b]
         /\ \A u \in Inside \ {t} : Bucket(u) \in Buckets \ {Bucket(t)}
<1>1. TypeOK /\ t \in Inside
  BY DEF TicketInv, Inside
<1>2. Bucket(t) \in Buckets /\ flag[Bucket(t)] \in Nat
  BY <1>1, BucketOf
<1>3. \A u \in Inside \ {t} : Bucket(u) \in Buckets \ {Bucket(t)}
  BY <1>1, BucketOf, Exclusive DEF BucketsExclusive, Inside
<1> QED BY <1>1, <1>2, <1>3 DEF TypeOK

LEMMA PublishInv ==
  ASSUME TicketInv, NEW t \in Producers, Publish(t)
  PROVE  TicketInv'
<1>1. TypeOK /\ t \in Threads /\ pc[t] = "publish" /\ Goto(t, "call")
      /\ rear \in Nat /\ front \in Nat
      /\ flag' = [flag EXCEPT ![Bucket(t)] = @ + 1]
      /\ works' = [works EXCEPT ![t] = @ + 1]
      /\ UNCHANGED <<key, front, rear, ticket, ret_key, sent>>
  BY Kinds DEF TicketInv, TypeOK, Publish
<1>2. /\ EmptyForMe(t) /\ works[t] < NumEnqueue /\ key[Bucket(t)] = KeyOf(t)
      /\ ticket[t] < rear /\ sent[ticket[t] + 1] = KeyOf(t)
  BY <1>1 DEF TicketInv, ProducerOK
<1>3. /\ ticket[t] \in Nat /\ Bucket(t) \in Buckets /\ Round(t) \in Nat
      /\ ticket[t] = QueueSize * Round(t) + Bucket(t)
      /\ flag[Bucket(t)] = 2 * Round(t)
  BY <1>1, <1>2, BucketOf
<1>4. /\ flag' \in [Buckets -> Nat]
      /\ flag'[Bucket(t)] = 2 * Round(t) + 1
      /\ \A b \in Buckets \ {Bucket(t)} : flag'[b] = flag[b]
      /\ \A u \in Inside \ {t} : Bucket(u) \in Buckets \ {Bucket(t)}
  BY <1>1, <1>3, FlagStep
<1>5. pc'[t] = "call" /\ \A u \in Threads \ {t} : pc'[u] = pc[u] /\ works'[u] = works[u]
  BY <1>1 DEF TypeOK, Goto
<1>6. TypeOK'
  <2>1. works[t] + 1 \in 0 .. NumEnqueue
    BY <1>1, <1>2 DEF TypeOK
  <2> QED BY <1>1, <1>4, <2>1 DEF TypeOK, Publish, Goto
<1>7. Turns(rear, 0, Producers)'
  <2>1. PICK r \in Nat : r = rear
    BY <1>1
  <2>2. Turns(r, 0, Producers) /\ ticket[t] < r /\ flag[Bucket(t)] = 2 * Round(t) + 0
    BY <1>2, <1>3, <2>1 DEF TicketInv
  <2>3. Turns(r, 0, Producers)'
    BY <1>1, <2>2, PassTurns, Kinds
  <2> QED BY <1>1, <2>1, <2>3 DEF Turns
<1>8. Turns(front, 1, Consumers)'
  <2>1. PICK f \in Nat : f = front
    BY <1>1
  <2>2. Turns(f, 1, Consumers) /\ flag[Bucket(t)] = 2 * Round(t) + 0
    BY <1>3, <2>1 DEF TicketInv
  <2>3. \A u \in Consumers : \A n \in Nat : Holds(u, n)' <=> Holds(u, n)
    BY <1>1, <1>5, Kinds DEF Holds
  <2>4. Turns(f, 1, Consumers)'
    BY <1>1, <2>2, <2>3, OtherTurns, 0 \in {0, 1}, 1 \in {0, 1}, 0 # 1
  <2> QED BY <1>1, <2>1, <2>4 DEF Turns
<1>9. ASSUME NEW b \in Buckets PROVE BucketOK(b)'
  <2>1. CASE b = Bucket(t)
    <3>1. (2 * Round(t) + 1) \div 2 = Round(t)
      BY <1>3
    <3>2. FullTicket(b)' = ticket[t]
      BY <1>3, <1>4, <2>1, <3>1 DEF FullTicket
    <3> QED BY <1>1, <1>2, <2>1, <3>2 DEF BucketOK
  <2>2. CASE b # Bucket(t)
    BY <1>1, <1>4, <2>2, BucketKeeps
  <2> QED BY <2>1, <2>2
<1>10. ProducerOK(t)'
  BY <1>5 DEF ProducerOK
<1>11. ASSUME NEW u \in Threads \ {t}
      PROVE  (u \in Producers => ProducerOK(u)') /\ (u \in Consumers => ConsumerOK(u)')
  BY <1>1, <1>4, <1>5, OtherKeeps
<1> QED BY <1>1, <1>6, <1>7, <1>8, <1>9, <1>10, <1>11, Kinds DEF TicketInv

-----------------------------------------------------------------------------
(* dequeue() and ConsumerFunc *)

LEMMA DrawFrontInv ==
  ASSUME TicketInv, NEW t \in Consumers, DrawFront(t)
  PROVE  TicketInv'
<1>1. TypeOK /\ t \in Threads /\ pc[t] = "call" /\ works[t] < NumEnqueue
      /\ rear \in Nat /\ front \in Nat /\ Goto(t, "wait")
      /\ ticket' = [ticket EXCEPT ![t] = front] /\ front' = front + 1
      /\ UNCHANGED <<key, flag, rear, works, ret_key, sent>>
  BY Kinds DEF TicketInv, TypeOK, DrawFront
<1>2. TypeOK'
  BY <1>1 DEF TypeOK, DrawFront, Goto
<1>3. pc'[t] = "wait" /\ ticket'[t] = front
      /\ \A u \in Threads \ {t} : pc'[u] = pc[u] /\ ticket'[u] = ticket[u]
  BY <1>1 DEF TypeOK, Goto
<1>4. Turns(front, 1, Consumers)'
  <2>1. PICK f \in Nat : f = front
    BY <1>1
  <2>2. \A u \in Consumers : pc[u] # "call" => ticket[u] < f
    BY <2>1 DEF TicketInv, ConsumerOK
  <2>3. Turns(f, 1, Consumers)
    BY <2>1 DEF TicketInv
  <2>4. ticket' = [ticket EXCEPT ![t] = f]
    BY <1>1, <2>1
  <2>5. Turns(f + 1, 1, Consumers)'
    BY <1>1, <2>2, <2>3, <2>4, DrawTurns, Kinds
  <2> QED BY <1>1, <2>1, <2>5 DEF Turns
<1>5. Turns(rear, 0, Producers)'
  <2>1. PICK r \in Nat : r = rear
    BY <1>1
  <2>2. Turns(r, 0, Producers)
    BY <2>1 DEF TicketInv
  <2>3. \A u \in Producers : \A n \in Nat : Holds(u, n)' <=> Holds(u, n)
    BY <1>3, Kinds DEF Holds
  <2>4. Turns(r, 0, Producers)'
    BY <1>1, <2>2, <2>3, KeepTurns
  <2> QED BY <1>1, <2>1, <2>4 DEF Turns
<1>6. \A b \in Buckets : BucketOK(b)'
  BY <1>1, BucketKeeps
<1>7. ConsumerOK(t)'
  BY <1>1, <1>3 DEF ConsumerOK, GotKeyOfTicket
<1>8. ASSUME NEW u \in Threads \ {t}
      PROVE  (u \in Producers => ProducerOK(u)') /\ (u \in Consumers => ConsumerOK(u)')
  BY <1>1, <1>3, OtherKeeps
<1> QED BY <1>1, <1>2, <1>4, <1>5, <1>6, <1>7, <1>8, Kinds DEF TicketInv

LEMMA AwaitFullInv ==
  ASSUME TicketInv, NEW t \in Consumers, AwaitFull(t)
  PROVE  TicketInv'
<1>1. TypeOK /\ t \in Threads /\ pc[t] = "wait" /\ FullForMe(t) /\ Goto(t, "access")
      /\ rear \in Nat /\ front \in Nat
      /\ UNCHANGED <<key, flag, front, rear, ticket, works, ret_key, sent>>
  BY Kinds DEF TicketInv, TypeOK, AwaitFull
<1>2. TypeOK'
  BY <1>1 DEF TypeOK, AwaitFull, Goto
<1>3. pc'[t] = "access" /\ \A u \in Threads \ {t} : pc'[u] = pc[u]
  BY <1>1 DEF TypeOK, Goto
<1>4. Turns(rear, 0, Producers)' /\ Turns(front, 1, Consumers)'
  BY <1>1, PlacesKeep, TurnsKeep
<1>5. \A b \in Buckets : BucketOK(b)'
  BY <1>1, BucketKeeps
<1>6. ConsumerOK(t)'
  <2>1. FullForMe(t)'
    BY <1>1 DEF FullForMe, Bucket, Round
  <2> QED BY <1>1, <1>3, <2>1 DEF TicketInv, ConsumerOK, GotKeyOfTicket
<1>7. ASSUME NEW u \in Threads \ {t}
      PROVE  (u \in Producers => ProducerOK(u)') /\ (u \in Consumers => ConsumerOK(u)')
  BY <1>1, <1>3, OtherKeeps
<1> QED BY <1>1, <1>2, <1>4, <1>5, <1>6, <1>7, Kinds DEF TicketInv

LEMMA ReadInv ==
  ASSUME TicketInv, NEW t \in Consumers, Read(t)
  PROVE  TicketInv'
<1>1. TypeOK /\ t \in Threads /\ pc[t] = "access" /\ Goto(t, "publish")
      /\ rear \in Nat /\ front \in Nat
      /\ ret_key' = [ret_key EXCEPT ![t] = key[Bucket(t)]]
      /\ UNCHANGED <<key, flag, front, rear, ticket, works, sent>>
  BY Kinds DEF TicketInv, TypeOK, Read
<1>2. FullForMe(t) /\ Bucket(t) \in Buckets
  BY <1>1, BucketOf DEF TicketInv, ConsumerOK
<1>3. ticket[t] < rear /\ key[Bucket(t)] = sent[ticket[t] + 1]
  <2>1. flag[Bucket(t)] % 2 = 1 /\ FullTicket(Bucket(t)) = ticket[t]
    BY <1>1, <1>2, BucketOf
  <2> QED BY <1>2, <2>1 DEF TicketInv, BucketOK
<1>4. /\ pc'[t] = "publish" /\ ret_key'[t] = key[Bucket(t)]
      /\ \A u \in Threads \ {t} : pc'[u] = pc[u]
      /\ \A u \in Consumers \ {t} : ret_key'[u] = ret_key[u]
  BY <1>1 DEF TypeOK, Goto
<1>5. TypeOK'
  <2>1. key[Bucket(t)] \in Keys \union {0}
    BY <1>1, <1>2 DEF TypeOK
  <2>2. ret_key' \in [Consumers -> Keys \union {0}]
    BY <1>1, <2>1 DEF TypeOK
  <2> QED BY <1>1, <2>2 DEF TypeOK, Read, Goto
<1>6. Turns(rear, 0, Producers)' /\ Turns(front, 1, Consumers)'
  BY <1>1, PlacesKeep, TurnsKeep
<1>7. \A b \in Buckets : BucketOK(b)'
  BY <1>1, BucketKeeps
<1>8. ConsumerOK(t)'
  <2>1. FullForMe(t)'
    BY <1>1, <1>2 DEF FullForMe, Bucket, Round
  <2> QED BY <1>1, <1>3, <1>4, <2>1 DEF TicketInv, ConsumerOK, GotKeyOfTicket
<1>9. ASSUME NEW u \in Threads \ {t}
      PROVE  (u \in Producers => ProducerOK(u)') /\ (u \in Consumers => ConsumerOK(u)')
  BY <1>1, <1>4, OtherKeeps
<1> QED BY <1>1, <1>5, <1>6, <1>7, <1>8, <1>9, Kinds DEF TicketInv

LEMMA HandOverInv ==
  ASSUME TicketInv, NEW t \in Consumers, HandOver(t)
  PROVE  TicketInv'
<1>1. TypeOK /\ t \in Threads /\ pc[t] = "publish" /\ Goto(t, "verify")
      /\ rear \in Nat /\ front \in Nat
      /\ flag' = [flag EXCEPT ![Bucket(t)] = @ + 1]
      /\ UNCHANGED <<key, front, rear, ticket, works, ret_key, sent>>
  BY Kinds DEF TicketInv, TypeOK, HandOver
<1>2. FullForMe(t) /\ ticket[t] < front
  BY <1>1 DEF TicketInv, ConsumerOK
<1>3. Bucket(t) \in Buckets /\ Round(t) \in Nat /\ flag[Bucket(t)] = 2 * Round(t) + 1
  BY <1>1, <1>2, BucketOf
<1>4. /\ flag' \in [Buckets -> Nat]
      /\ flag'[Bucket(t)] = flag[Bucket(t)] + 1
      /\ \A b \in Buckets \ {Bucket(t)} : flag'[b] = flag[b]
      /\ \A u \in Inside \ {t} : Bucket(u) \in Buckets \ {Bucket(t)}
  BY <1>1, <1>3, FlagStep
<1>5. pc'[t] = "verify" /\ \A u \in Threads \ {t} : pc'[u] = pc[u]
  BY <1>1 DEF TypeOK, Goto
<1>6. TypeOK'
  BY <1>1, <1>4 DEF TypeOK, HandOver, Goto
<1>7. Turns(front, 1, Consumers)'
  <2>1. PICK f \in Nat : f = front
    BY <1>1
  <2>2. Turns(f, 1, Consumers) /\ ticket[t] < f
    BY <1>2, <2>1 DEF TicketInv
  <2>3. Turns(f, 1, Consumers)'
    BY <1>1, <1>3, <2>2, PassTurns, Kinds
  <2> QED BY <1>1, <2>1, <2>3 DEF Turns
<1>8. Turns(rear, 0, Producers)'
  <2>1. PICK r \in Nat : r = rear
    BY <1>1
  <2>2. Turns(r, 0, Producers)
    BY <2>1 DEF TicketInv
  <2>3. \A u \in Producers : \A n \in Nat : Holds(u, n)' <=> Holds(u, n)
    BY <1>1, <1>5, Kinds DEF Holds
  <2>4. Turns(r, 0, Producers)'
    BY <1>1, <1>3, <2>2, <2>3, OtherTurns, 0 \in {0, 1}, 1 \in {0, 1}, 0 # 1
  <2> QED BY <1>1, <2>1, <2>4 DEF Turns
<1>9. ASSUME NEW b \in Buckets PROVE BucketOK(b)'
  <2>1. CASE b = Bucket(t)
    <3>1. flag'[b] = 2 * Round(t) + 2 /\ (2 * Round(t) + 2) % 2 # 1
      BY <1>3, <1>4, <2>1
    <3> QED BY <3>1 DEF BucketOK
  <2>2. CASE b # Bucket(t)
    BY <1>1, <1>4, <2>2, BucketKeeps
  <2> QED BY <2>1, <2>2
<1>10. ConsumerOK(t)'
  BY <1>1, <1>5 DEF TicketInv, ConsumerOK, GotKeyOfTicket
<1>11. ASSUME NEW u \in Threads \ {t}
      PROVE  (u \in Producers => ProducerOK(u)') /\ (u \in Consumers => ConsumerOK(u)')
  BY <1>1, <1>4, <1>5, OtherKeeps
<1> QED BY <1>1, <1>6, <1>7, <1>8, <1>9, <1>10, <1>11, Kinds DEF TicketInv

LEMMA VerifyInv ==
  ASSUME TicketInv, NEW t \in Consumers, Verify(t)
  PROVE  TicketInv'
<1>1. TypeOK /\ t \in Threads /\ pc[t] = "verify" /\ Goto(t, "call")
      /\ rear \in Nat /\ front \in Nat
      /\ works' = [works EXCEPT ![t] = @ + 1]
      /\ flag_verification' = flag_verification \union {ret_key[t]}
      /\ UNCHANGED <<key, flag, front, rear, ticket, ret_key, sent>>
  BY Kinds DEF TicketInv, TypeOK, Verify
<1>2. works[t] < NumEnqueue
  BY <1>1 DEF TicketInv, ConsumerOK
<1>3. pc'[t] = "call" /\ \A u \in Threads \ {t} : pc'[u] = pc[u] /\ works'[u] = works[u]
  BY <1>1 DEF TypeOK, Goto
<1>4. TypeOK'
  <2>1. works[t] + 1 \in 0 .. NumEnqueue
    BY <1>1, <1>2 DEF TypeOK
  <2>2. ret_key[t] \in Keys
    <3>1. ticket[t] < rear /\ ret_key[t] = sent[ticket[t] + 1] /\ rear = Len(sent)
      BY <1>1 DEF TicketInv, ConsumerOK, GotKeyOfTicket
    <3>2. ticket[t] + 1 \in 1 .. Len(sent) /\ sent \in Seq(Keys)
      BY <1>1, <3>1 DEF TypeOK
    <3> QED BY <3>1, <3>2
  <2> QED BY <1>1, <2>1, <2>2 DEF TypeOK, Verify, Goto
<1>5. Turns(rear, 0, Producers)' /\ Turns(front, 1, Consumers)'
  BY <1>1, PlacesKeep, TurnsKeep
<1>6. \A b \in Buckets : BucketOK(b)'
  BY <1>1, BucketKeeps
<1>7. ConsumerOK(t)'
  BY <1>3 DEF ConsumerOK, GotKeyOfTicket
<1>8. ASSUME NEW u \in Threads \ {t}
      PROVE  (u \in Producers => ProducerOK(u)') /\ (u \in Consumers => ConsumerOK(u)')
  BY <1>1, <1>3, OtherKeeps
<1> QED BY <1>1, <1>4, <1>5, <1>6, <1>7, <1>8, Kinds DEF TicketInv

-----------------------------------------------------------------------------
(* The theorems. *)

\* A step that changes no variable but main's verdict.
LEMMA QueueKeeps ==
  ASSUME TicketInv, TypeOK',
         UNCHANGED <<key, flag, front, rear, pc, ticket, works, ret_key, sent>>
  PROVE  TicketInv'
<1>1. rear \in Nat /\ front \in Nat
  BY DEF TicketInv, TypeOK
<1>2. \A u \in Threads : \A n \in Nat : Holds(u, n)' <=> Holds(u, n)
  BY DEF Holds
<1>3. Turns(rear, 0, Producers)' /\ Turns(front, 1, Consumers)'
  BY <1>2, TurnsKeep
<1>4. \A b \in Buckets : BucketOK(b)'
  BY <1>1, BucketKeeps
<1>5. ASSUME NEW u \in Threads
      PROVE  (u \in Producers => ProducerOK(u)') /\ (u \in Consumers => ConsumerOK(u)')
  BY <1>1, OtherKeeps
<1> QED BY <1>3, <1>4, <1>5, Kinds DEF TicketInv

LEMMA InitTicketInv == Init => TicketInv
<1> SUFFICES ASSUME Init PROVE TicketInv
  OBVIOUS
<1>1. TypeOK
  <2>1. 0 \in 0 .. NumEnqueue
    OBVIOUS
  <2> QED BY <2>1 DEF Init, TypeOK
<1>2. rear = Len(sent) /\ rear = 0 /\ front = 0
  BY DEF Init
<1>3. \A t \in Threads : \A n \in Nat : ~ Holds(t, n)
  BY DEF Init, Holds
<1>4. ASSUME NEW n \in Nat, NEW c \in {0, 1} PROVE ~ Passed(n, c)
  <2>1. n % QueueSize \in Buckets /\ n \div QueueSize \in Nat
    BY Division
  <2>2. flag[n % QueueSize] = 0
    BY <2>1 DEF Init
  <2> QED BY <2>1, <2>2 DEF Passed
<1>5. Turns(rear, 0, Producers) /\ Turns(front, 1, Consumers)
  BY <1>2, <1>4 DEF Turns
<1>6. \A b \in Buckets : BucketOK(b)
  BY DEF Init, BucketOK
<1>7. (\A t \in Producers : ProducerOK(t)) /\ \A t \in Consumers : ConsumerOK(t)
  BY Kinds DEF Init, ProducerOK, ConsumerOK, GotKeyOfTicket
<1> QED BY <1>1, <1>2, <1>5, <1>6, <1>7 DEF TicketInv

LEMMA NextTicketInv == TicketInv /\ [Next]_vars => TicketInv'
<1> SUFFICES ASSUME TicketInv, [Next]_vars PROVE TicketInv'
  OBVIOUS
<1>1. ASSUME NEW t \in Producers, Produce(t) PROVE TicketInv'
  BY <1>1, DrawRearInv, AwaitEmptyInv, WriteInv, PublishInv DEF Produce
<1>2. ASSUME NEW t \in Consumers, Consume(t) PROVE TicketInv'
  BY <1>2, DrawFrontInv, AwaitFullInv, ReadInv, HandOverInv, VerifyInv DEF Consume
<1>3. CASE Judge
  <2>1. TypeOK'
    BY <1>3 DEF Judge, TicketInv, TypeOK
  <2> QED BY <1>3, <2>1, QueueKeeps DEF Judge
<1>4. CASE UNCHANGED vars
  <2>1. TypeOK'
    BY <1>4 DEF vars, TicketInv, TypeOK
  <2> QED BY <1>4, <2>1, QueueKeeps DEF vars
<1> QED BY <1>1, <1>2, <1>3, <1>4 DEF Next, Terminating

\* The counters, the flags and the rounds of lab12's queue agree in every state,
\* for every number of threads, keys and buckets.
THEOREM QueueInvariant == Spec => []TicketInv
<1>1. Init => TicketInv
  BY InitTicketInv
<1>2. TicketInv /\ [Next]_vars => TicketInv'
  BY NextTicketInv
<1> QED BY <1>1, <1>2, PTL DEF Spec

\* No two threads use the key of a bucket at a time: the plain int is free of
\* data races although only the flag is atomic.
THEOREM BucketsNeverShared == Spec => []BucketsExclusive
<1>1. TicketInv => BucketsExclusive
  BY Exclusive
<1> QED BY <1>1, QueueInvariant, PTL

\* The n-th ticket of dequeue() gets the key of the n-th ticket of enqueue().
THEOREM QueueInOrder == Spec => []InTicketOrder
<1>1. TicketInv => InTicketOrder
  BY DEF TicketInv, ConsumerOK, InTicketOrder
<1> QED BY <1>1, QueueInvariant, PTL
=============================================================================
