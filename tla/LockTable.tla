------------------------------ MODULE LockTable ------------------------------
(****************************************************************************)
(* The record lock table of project2: one FIFO queue of lock elements per   *)
(* record (RWLock::threadQueue), and per worker the tokens it holds (adj),  *)
(* in the order it asked for them.  A token is an iterator into a queue; it *)
(* is modelled by the record whose queue it points into, because a worker   *)
(* has at most one element in a queue (TokensMatchQueues).                  *)
(*                                                                          *)
(* The operations are called by the workers with the global mutex held, so  *)
(* each of them is one step.                                                *)
(****************************************************************************)
EXTENDS SequencesExt, Integers

CONSTANTS Workers, Records

ASSUME WorkersFinite == IsFiniteSet(Workers)

VARIABLES threadQueue, adj

lockTableVars == <<threadQueue, adj>>

LockElement == [tid : Workers, isReader : BOOLEAN, isBlocked : BOOLEAN]

LockTableTypeOK ==
    /\ threadQueue \in [Records -> Seq(LockElement)]
    /\ adj \in [Workers -> Seq(Records)]

LockTableInit ==
    /\ threadQueue = [r \in Records |-> <<>>]
    /\ adj = [t \in Workers |-> <<>>]

-----------------------------------------------------------------------------
(* Operators on one queue. *)

\* Where t's element is: the iterator of its token.
Position(q, t) == CHOOSE p \in DOMAIN q : q[p].tid = t

AddLock(q, t, isReader) ==
    Append(q, [tid |-> t, isReader |-> isReader, isBlocked |-> TRUE])

\* Fault: a reader passes behind a reader that still waits.
CanEnterBehindWaiting(q, p) ==
    ~q[p].isBlocked \/ p = 1 \/ (p > 1 /\ q[p].isReader /\ q[p - 1].isReader)

\* Fault: a writer passes behind a reader, too.
CanEnterBehindReader(q, p) ==
    ~q[p].isBlocked \/ p = 1 \/ (p > 1 /\ q[p - 1].isReader /\ ~q[p - 1].isBlocked)

\* The element at p may pass: it passed before, it is the first one, or it is
\* a reader right behind a reader that passed.
CanEnter(q, p) ==
    \/ ~q[p].isBlocked
    \/ p = 1
    \/ p > 1 /\ q[p].isReader /\ q[p - 1].isReader /\ ~q[p - 1].isBlocked

\* canEnter's side effect when it returns true.
Enter(q, p) == [q EXCEPT ![p].isBlocked = FALSE]

Unlock(q, t) == RemoveAt(q, Position(q, t))

-----------------------------------------------------------------------------
(* Deadlock detection.  From the worker in front of the requester, follow   *)
(* every token of a worker that is not the first in its queue to the worker *)
(* in front of it.  The search succeeds when it comes back to the requester *)
(* over at least one blocked element.  The set of visited workers is shared *)
(* by all branches, so it is returned with the answer.                      *)

\* Where the search is: at a token of a worker, having followed a blocked
\* element or not, with the workers visited so far.
SearchPlace == [worker : Workers, token : Nat \ {0}, blocked : BOOLEAN,
                visit : SUBSET Workers]

DetectCycle(queues, tokens, requester, start) ==
    LET search[s \in SearchPlace] ==
          IF s.token > Len(tokens[s.worker])
          THEN [found |-> FALSE, visit |-> s.visit]
          ELSE LET q == queues[tokens[s.worker][s.token]]
                   p == Position(q, s.worker)
                   front == q[p - 1].tid
                   blocked == s.blocked \/ q[p].isBlocked
                   branch ==
                     IF p = 1 \/ front \in s.visit
                     THEN [found |-> FALSE, visit |-> s.visit]
                     ELSE IF front = requester
                     THEN [found |-> blocked, visit |-> s.visit]
                     ELSE search[[worker |-> front, token |-> 1, blocked |-> blocked,
                                  visit |-> s.visit \union {front}]]
               IN  IF branch.found THEN branch
                   ELSE search[[s EXCEPT !.token = @ + 1, !.visit = branch.visit]]
    IN  /\ start # requester
        /\ search[[worker |-> start, token |-> 1, blocked |-> FALSE,
                    visit |-> {start}]].found

\* Fault: the search starts at the head of the queue, not at the predecessor.
HasCycleFromHead(queues, tokens, t, r) ==
    /\ ~CanEnter(queues[r], Len(queues[r]))
    /\ DetectCycle(queues, tokens, t, queues[r][1].tid)

\* Fault: no deadlock detection.
HasNoCycle(queues, tokens, t, r) == FALSE

\* Called for the element t just appended to the queue of r.
HasCycle(queues, tokens, t, r) ==
    LET last == Len(queues[r])
    IN  /\ ~CanEnter(queues[r], last)
        /\ DetectCycle(queues, tokens, t, queues[r][last - 1].tid)

-----------------------------------------------------------------------------
(* Operations.  rwlock has three outcomes before its first wait: the lock   *)
(* is granted at once, the wait would close a cycle, or t starts to wait.   *)

Requested(t, r, isReader) ==
    [threadQueue EXCEPT ![r] = AddLock(@, t, isReader)]

TokensWith(t, r) == [adj EXCEPT ![t] = Append(@, r)]

Grant(t, r, isReader) ==
    LET queues == Requested(t, r, isReader)
        last == Len(queues[r])
    IN  /\ CanEnter(queues[r], last)
        /\ threadQueue' = [queues EXCEPT ![r] = Enter(@, last)]
        /\ adj' = TokensWith(t, r)

Refuse(t, r, isReader) ==
    /\ HasCycle(Requested(t, r, isReader), TokensWith(t, r), t, r)
    /\ threadQueue' = Requested(t, r, isReader)
    /\ adj' = TokensWith(t, r)

StartWaiting(t, r, isReader) ==
    LET queues == Requested(t, r, isReader)
    IN  /\ ~CanEnter(queues[r], Len(queues[r]))
        /\ ~HasCycle(queues, TokensWith(t, r), t, r)
        /\ threadQueue' = queues
        /\ adj' = TokensWith(t, r)

\* One evaluation of the condition of rwlock's wait loop.
CanPass(t, r) == CanEnter(threadQueue[r], Position(threadQueue[r], t))

Pass(t, r) ==
    /\ CanPass(t, r)
    /\ threadQueue' =
         [threadQueue EXCEPT ![r] = Enter(@, Position(@, t))]
    /\ UNCHANGED adj

\* Fault: the tokens of a finished transaction are not cleared.
UnlockAllKeepsTokens(t) ==
    /\ threadQueue' = [r \in Records |-> IF r \in ToSet(adj[t])
                                         THEN Unlock(threadQueue[r], t)
                                         ELSE threadQueue[r]]
    /\ UNCHANGED adj

\* Fault: the tokens are cleared, the elements stay in the queues.
UnlockAllKeepsElements(t) ==
    UNCHANGED threadQueue /\ adj' = [adj EXCEPT ![t] = <<>>]

UnlockAll(t) ==
    /\ threadQueue' = [r \in Records |-> IF r \in ToSet(adj[t])
                                         THEN Unlock(threadQueue[r], t)
                                         ELSE threadQueue[r]]
    /\ adj' = [adj EXCEPT ![t] = <<>>]

-----------------------------------------------------------------------------
(* Invariants of the table. *)

Tids(q) == {q[p].tid : p \in DOMAIN q}

DistinctTids(q) == \A m, n \in DOMAIN q : q[m].tid = q[n].tid => m = n

\* What the queue q says of worker t.
Passed(q, t) == \E p \in DOMAIN q : q[p].tid = t /\ ~q[p].isBlocked
Writes(q, t) == \E p \in DOMAIN q : q[p].tid = t /\ ~q[p].isReader

\* The passed elements are a prefix, and two of them are both readers.
Exclusive(q) ==
    \A m, n \in DOMAIN q :
        (m < n /\ ~q[n].isBlocked) =>
            ~q[m].isBlocked /\ q[m].isReader /\ q[n].isReader

\* In every queue a writer that passed is alone, and a reader passed with
\* readers only, whatever order the waiting workers polled canEnter in.
HoldersExclude == \A r \in Records : Exclusive(threadQueue[r])

\* Tokens and queue elements correspond one to one: no token dangles, no
\* element is left behind, and no worker queues behind itself (the case that
\* hasCycle marks with "this situation never occurs").
TokensMatchQueues ==
    /\ \A t \in Workers : \A m, n \in DOMAIN adj[t] :
         adj[t][m] = adj[t][n] => m = n
    /\ \A r \in Records :
         /\ DistinctTids(threadQueue[r])
         /\ \A t \in Workers : r \in ToSet(adj[t]) <=> t \in Tids(threadQueue[r])
=============================================================================
