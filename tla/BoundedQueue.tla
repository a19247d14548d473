------------------------------ MODULE BoundedQueue ------------------------------
(****************************************************************************)
(* lab12's bounded queue.  A thread draws a ticket, which gives it a bucket *)
(* and a round of that bucket; it spins until the bucket's flag says that   *)
(* its turn has come, uses the bucket and increments the flag.  In round r  *)
(* the flag is 2r while the bucket is empty and 2r + 1 while it is full.    *)
(*                                                                          *)
(* pc:  call      in the loop of ProducerFunc or ConsumerFunc               *)
(*      wait      has drawn a ticket                                        *)
(*      access    may write, or read, the bucket's key                      *)
(*      publish   before flag++                                             *)
(*      verify    a consumer that has a key to tick off                     *)
(****************************************************************************)
EXTENDS Integers, Sequences

CONSTANTS NumProducer, NumEnqueue, QueueSize

ASSUME NumProducerAssumption == NumProducer \in Nat
ASSUME NumEnqueueAssumption == NumEnqueue \in Nat
ASSUME QueueSizeAssumption == QueueSize \in Nat \ {0}

Producers == 0 .. NumProducer - 1
Consumers == NumProducer .. 2 * NumProducer - 1
Threads == Producers \union Consumers
Keys == 0 .. NumProducer * NumEnqueue - 1
Buckets == 0 .. QueueSize - 1

VARIABLES key, flag, front, rear,          \* the queue; key[b], flag[b]: bucket b
          pc, ticket, works, ret_key,      \* the threads
          flag_verification, verdict       \* the keys ticked off; main's output

\* History: the keys in the order of their tickets.
VARIABLE sent

vars == <<key, flag, front, rear, pc, ticket, works, ret_key,
          flag_verification, verdict, sent>>

TypeOK ==
    /\ key \in [Buckets -> Keys \union {0}]
    /\ flag \in [Buckets -> Nat]
    /\ front \in Nat /\ rear \in Nat
    /\ pc \in [Threads -> {"call", "wait", "access", "publish", "verify"}]
    /\ ticket \in [Threads -> Nat]
    /\ works \in [Threads -> 0 .. NumEnqueue]
    /\ ret_key \in [Consumers -> Keys \union {0}]
    /\ flag_verification \subseteq Keys
    /\ verdict \in {"none", "CORRECT!", "INCORRECT!"}
    /\ sent \in Seq(Keys)

Init ==
    /\ key = [b \in Buckets |-> 0]
    /\ flag = [b \in Buckets |-> 0]
    /\ front = 0 /\ rear = 0
    /\ pc = [t \in Threads |-> "call"]
    /\ ticket = [t \in Threads |-> 0]
    /\ works = [t \in Threads |-> 0]
    /\ ret_key = [t \in Consumers |-> 0]
    /\ flag_verification = {}
    /\ verdict = "none"
    /\ sent = <<>>

Goto(t, place) == pc' = [pc EXCEPT ![t] = place]

Bucket(t) == ticket[t] % QueueSize
Round(t) == ticket[t] \div QueueSize

\* ProducerFunc's key_enqueue
KeyOf(t) == NumEnqueue * t + works[t]

-----------------------------------------------------------------------------
(* enqueue() *)

DrawRear(t) ==
    /\ pc[t] = "call"
    /\ works[t] < NumEnqueue
    /\ ticket' = [ticket EXCEPT ![t] = rear]
    /\ rear' = rear + 1
    /\ sent' = Append(sent, KeyOf(t))
    /\ Goto(t, "wait")
    /\ UNCHANGED <<key, flag, front, works, ret_key, flag_verification, verdict>>

\* The loop reads the flag once and tests it twice.  A round that spins
\* changes nothing.
EmptyForMe(t) == flag[Bucket(t)] % 2 = 0 /\ flag[Bucket(t)] \div 2 = Round(t)

\* Fault: any round will do.
AwaitAnyEmpty(t) ==
    /\ pc[t] = "wait"
    /\ flag[Bucket(t)] % 2 = 0
    /\ Goto(t, "access")
    /\ UNCHANGED <<key, flag, front, rear, ticket, works, ret_key,
                   flag_verification, verdict, sent>>

AwaitEmpty(t) ==
    /\ pc[t] = "wait"
    /\ EmptyForMe(t)
    /\ Goto(t, "access")
    /\ UNCHANGED <<key, flag, front, rear, ticket, works, ret_key,
                   flag_verification, verdict, sent>>

Write(t) ==
    /\ pc[t] = "access"
    /\ key' = [key EXCEPT ![Bucket(t)] = KeyOf(t)]
    /\ Goto(t, "publish")
    /\ UNCHANGED <<flag, front, rear, ticket, works, ret_key,
                   flag_verification, verdict, sent>>

Publish(t) ==
    /\ pc[t] = "publish"
    /\ flag' = [flag EXCEPT ![Bucket(t)] = @ + 1]
    /\ works' = [works EXCEPT ![t] = @ + 1]
    /\ Goto(t, "call")
    /\ UNCHANGED <<key, front, rear, ticket, ret_key, flag_verification, verdict, sent>>

-----------------------------------------------------------------------------
(* dequeue() *)

DrawFront(t) ==
    /\ pc[t] = "call"
    /\ works[t] < NumEnqueue
    /\ ticket' = [ticket EXCEPT ![t] = front]
    /\ front' = front + 1
    /\ Goto(t, "wait")
    /\ UNCHANGED <<key, flag, rear, works, ret_key, flag_verification, verdict, sent>>

FullForMe(t) == flag[Bucket(t)] % 2 = 1 /\ flag[Bucket(t)] \div 2 = Round(t)

\* Fault: the flag was odd when it was read first, and of the round when it was
\* read again, so that in the end only the round has been tested.
AwaitRound(t) ==
    /\ pc[t] = "wait"
    /\ flag[Bucket(t)] \div 2 = Round(t)
    /\ Goto(t, "access")
    /\ UNCHANGED <<key, flag, front, rear, ticket, works, ret_key,
                   flag_verification, verdict, sent>>

AwaitFull(t) ==
    /\ pc[t] = "wait"
    /\ FullForMe(t)
    /\ Goto(t, "access")
    /\ UNCHANGED <<key, flag, front, rear, ticket, works, ret_key,
                   flag_verification, verdict, sent>>

Read(t) ==
    /\ pc[t] = "access"
    /\ ret_key' = [ret_key EXCEPT ![t] = key[Bucket(t)]]
    /\ Goto(t, "publish")
    /\ UNCHANGED <<key, flag, front, rear, ticket, works,
                   flag_verification, verdict, sent>>

\* Fault: the bucket is not handed over to the next round.
HandOverNothing(t) ==
    /\ pc[t] = "publish"
    /\ Goto(t, "verify")
    /\ UNCHANGED <<key, flag, front, rear, ticket, works, ret_key,
                   flag_verification, verdict, sent>>

HandOver(t) ==
    /\ pc[t] = "publish"
    /\ flag' = [flag EXCEPT ![Bucket(t)] = @ + 1]
    /\ Goto(t, "verify")
    /\ UNCHANGED <<key, front, rear, ticket, works, ret_key,
                   flag_verification, verdict, sent>>

-----------------------------------------------------------------------------
(* ConsumerFunc and main *)

Verify(t) ==
    /\ pc[t] = "verify"
    /\ flag_verification' = flag_verification \union {ret_key[t]}
    /\ works' = [works EXCEPT ![t] = @ + 1]
    /\ Goto(t, "call")
    /\ UNCHANGED <<key, flag, front, rear, ticket, ret_key, verdict, sent>>

AllDone == \A t \in Threads : pc[t] = "call" /\ works[t] = NumEnqueue

\* main has joined the threads
Judge ==
    /\ AllDone /\ verdict = "none"
    /\ verdict' = IF Keys \subseteq flag_verification THEN "CORRECT!" ELSE "INCORRECT!"
    /\ UNCHANGED <<key, flag, front, rear, pc, ticket, works, ret_key,
                   flag_verification, sent>>

Terminating == verdict # "none" /\ UNCHANGED vars

Produce(t) == DrawRear(t) \/ AwaitEmpty(t) \/ Write(t) \/ Publish(t)
Consume(t) == DrawFront(t) \/ AwaitFull(t) \/ Read(t) \/ HandOver(t) \/ Verify(t)

Next ==
    \/ \E t \in Producers : Produce(t)
    \/ \E t \in Consumers : Consume(t)
    \/ Judge
    \/ Terminating

Spec == Init /\ [][Next]_vars

\* A thread that can take a step has a processor again and again; main too.
Fairness ==
    /\ \A t \in Producers : WF_vars(Produce(t))
    /\ \A t \in Consumers : WF_vars(Consume(t))
    /\ WF_vars(Judge)

FairSpec == Spec /\ Fairness

-----------------------------------------------------------------------------
(* Properties. *)

\* The threads that may touch their bucket.
Inside == {t \in Threads : pc[t] \in {"access", "publish"}}

\* The flags keep the threads apart: the key of a bucket, a plain int, is never
\* used by two threads at a time, whatever rounds they are in.
BucketsExclusive == \A t, u \in Inside : Bucket(t) = Bucket(u) => t = u

GotKeyOfTicket(t) ==
    pc[t] \in {"publish", "verify"} =>
        ticket[t] < rear /\ ret_key[t] = sent[ticket[t] + 1]

\* The n-th ticket for dequeueing gets the key of the n-th ticket for
\* enqueueing, however long the threads in between take, and not a key of
\* another round of the bucket.
InTicketOrder == \A t \in Consumers : GotKeyOfTicket(t)

\* The flag of a bucket has passed the turn of a ticket exactly if the ticket
\* has been drawn and is no longer held, and no two threads hold one ticket.
Holds(t, n) == pc[t] \in {"wait", "access", "publish"} /\ ticket[t] = n
Passed(n, turn) == flag[n % QueueSize] > 2 * (n \div QueueSize) + turn

Turns(drawn, turn, threads) ==
    /\ \A n \in 0 .. drawn - 1 : Passed(n, turn) <=> \A t \in threads : ~ Holds(t, n)
    /\ \A n \in drawn .. drawn + QueueSize - 1 : ~ Passed(n, turn)
    /\ \A n \in 0 .. drawn - 1, t, u \in threads : Holds(t, n) /\ Holds(u, n) => t = u

\* A full bucket holds the key of its ticket.
FullTicket(b) == QueueSize * (flag[b] \div 2) + b

BucketOK(b) ==
    flag[b] % 2 = 1 => FullTicket(b) < rear /\ key[b] = sent[FullTicket(b) + 1]

ProducerOK(t) ==
    /\ pc[t] # "call" => /\ works[t] < NumEnqueue
                         /\ ticket[t] < rear /\ sent[ticket[t] + 1] = KeyOf(t)
    /\ pc[t] \in {"access", "publish"} => EmptyForMe(t)
    /\ pc[t] = "publish" => key[Bucket(t)] = KeyOf(t)

ConsumerOK(t) ==
    /\ pc[t] # "call" => works[t] < NumEnqueue /\ ticket[t] < front
    /\ pc[t] \in {"access", "publish"} => FullForMe(t)
    /\ GotKeyOfTicket(t)

\* The inductive invariant: the two counters, the flags and the rounds of the
\* threads agree, although no two of them are ever read together.
TicketInv ==
    /\ TypeOK /\ rear = Len(sent)
    /\ Turns(rear, 0, Producers) /\ Turns(front, 1, Consumers)
    /\ \A b \in Buckets : BucketOK(b)
    /\ \A t \in Producers : ProducerOK(t)
    /\ \A t \in Consumers : ConsumerOK(t)

\* Every enqueue and every dequeue returns and main finds every key ticked off.
AllDelivered == <>(verdict = "CORRECT!")
=============================================================================
