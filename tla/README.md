# Verification project for 2019_ITE4065 (multicore programming)

The repository holds four course projects and a dozen lab programs in C++.
Almost all of them are about threads: locks, queues, lists, snapshots and
barriers. This directory models their algorithms in TLA+, checks them with TLC
on small instances, and proves theorems about them with TLAPS.

How to run, in this directory:

    tlc -workers 2 -config txn_locks.cfg MCTransactionWorkers.tla
    tlapm TransactionProofs.tla

`PROJECT.json` lists the runs, the source lines every definition stands for,
the hazards with the properties that cover them, and for every property a
faulty variant of a definition (the operators marked `Fault:`) that breaks it.

## 1. Inventory

| Component | State | Operations | Hard because | What makes it correct |
|---|---|---|---|---|
| **project2** lock table (`locktable.cpp`) | per record a FIFO list of elements (tid, reader, blocked); per worker a list of tokens | `rdLock`, `wrLock`, `canEnter`, `hasCycle`/`detectCycle`, `unlockAll` | waits by polling with the global mutex released in between; tokens are list iterators; the deadlock search walks all queues | exclusion, no dangling token, no undetected deadlock, waits end |
| **project2** workers (`worker.cpp`, `globalstate.cpp`) | global mutex, commit counter; per worker the before-images, the log | `workTransaction`: 3 locks, 3 reads, 2 updates, commit or rollback | records are accessed outside the mutex; aborts at any lock; the counter overruns E | data-race freedom, serialisability in commit-id order, rollback, termination |
| **project2** database | `int64_t` records, all 100 at first | `get`, `set` | arithmetic wraps | values stay in range |
| **project2** validator | merged log, own records | read, sort, replay, compare | must agree with the workers' order | accepts every complete run |
| **project2** start-up | `threadStatus`, thread-specific key | constructor, `work`, `join` | unsynchronised handshake | each thread is initialised before it runs |
| **project3** snapshot | an array of stamped values, each with an embedded snapshot | `collect`, `scan`, `update` | wait-free: scans overlap updates, snapshots are borrowed | every scan returns a state the registers had |
| **project3** workers | `threadStatus` 0..3 | start, work, terminate | volatile handshake | every worker terminates |
| **project4** pool initialisation (`patchfile`) | three events, an atomic counter, per-thread lists | init, reset, end; the worker loop; list merge | events are swapped while slow workers still read them | every task is executed by every worker, nothing is used after it is freed |
| **project1** external sort | partitions, file buffers, a heap | sort, k-way merge, buffered output | buffer layout at boundaries | output is the sorted input |
| **project1** radix sort | an array, bucket pointers | in-place permutation by byte | early `break`, in-place cycles | sorted permutation |
| lab10 spin locks | tail pointer, nodes | `lock`, `unlock` | nodes are recycled | mutual exclusion, FIFO |
| lab11 list sets | linked nodes, mutexes or marks | `add`, `remove`, `contains` | traversals without or between locks, freed nodes | linearisable set |
| lab12 bounded queue | tickets, per-bucket flag and key | `enqueue`, `dequeue` | flags of several rounds | every key delivered once |
| lab13 unbounded queue | linked nodes, head, tail | `enqueue`, `dequeue` | two CASes per enqueue | every key delivered once |
| lab04/06 prime workers | condition variable, per-thread results | rounds of work | waits without predicate | each round counts each number once |
| other labs | - | fork/join, Boost.Asio timers and pools, single-statement race demonstrations | behaviour is the library's or trivial | - |

Interactions inside project2: `main` creates the workers and joins them; the
workers share the global mutex, the lock table (only touched with the mutex
held), the records (only touched under record locks) and the commit counter;
each writes a log file of its own, which the validator, a separate program,
reads after they have ended. The other projects and labs are separate programs.

## 2. Plan

The order follows the weight of the behaviour.

1. project2's engine: `LockTable`, `Database`, `TransactionWorkers`; the
   abstract `SerialDatabase`; `Validator`; the refinement. **Done.** Proofs of
   its safety properties and of the refinement. **Done.**
2. project3's `Snapshot`, with its worker threads and `main`. **Done.**
3. lab10's `CLHLock`, the abstract `FIFOLock`, and the proofs. **Done.**
4. lab12's `BoundedQueue`, and lab13's `UnboundedQueue` against the abstract
   `FIFOQueue`. **Done.**
5. lab11's four lists against the abstract `SetObject`. **Done.**
6. project4's `InitPool`. **Done.**
7. The thread start-up of project2 (project3's is part of `Snapshot`).
8. lab06's prime workers; project1's radix sort, buffered output and merge, as
   functions checked over bounded inputs.

Proved (section 6): the safety properties of project2's lock table and of
two-phase locking, and that its deadlock detection misses no deadlock; the safety
of the CLH lock and of the two queues, with the refinements
of `FIFOLock` and `FIFOQueue`; that every snapshot of project3 is a state of the
array; that each of the four lists is a set, that the lock-free one loses no
insertion and the others leave no pointer to a freed node; that project2's
transactions are serial and the validator accepts their logs; that project4
initialises or undoes its first instance whatever the schedule, and all instances
as long as the swap of its events overtakes no thread.

## 3. Modules

| Module | What it is |
|---|---|
| `LockTable` | `RWLock` and `LockTable`. `threadQueue[r]` is the list of record r, `adj[t]` the tokens of worker t. A token's iterator is modelled by the record it points into; `Position` finds the element. |
| `Database` | Record values, `int64_t` wrap-around, and the two formulas of a transaction. |
| `TransactionWorkers` | The workers. `pc` is the place in `workTransaction` (the header of the module lists the places), `stage` the lock being asked for. |
| `SerialDatabase` | Abstract: transactions run one after the other, and are logged in that order. |
| `Validator` | The validator program as operators on the log files. |
| `TransactionRefinement` | The refinement mapping from the workers to `SerialDatabase`, and the validator applied to their logs. |
| `MCTransactionWorkers` | Symmetry for TLC. |
| `Snapshot` | project3: the snapshot object, the worker threads that update it, and `main`. |
| `CLHLock` | lab10's CLH lock and the program around it. |
| `FIFOLock` | Abstract: a lock that is granted in the order it is asked for. |
| `BoundedQueue` | lab12: tickets and flags, producers, consumers, and `main`. |
| `UnboundedQueue` | lab13: the linked queue with its compare-and-swaps, producers, consumers, and `main`. |
| `FIFOQueue` | Abstract: keys are put and taken in one order, each once. |
| `ListHeap` | lab11: nodes, `malloc`, the calls a thread makes (`ThreadFunc`), and the list as `main` reads it. |
| `ListMutex` | lab11: the mutexes, and the parts that `add`, `remove` and `contains` have in common in the three programs with mutexes. |
| `CoarseList`, `FineList`, `OptimisticList` | lab11: each of the three locking disciplines. |
| `LockedLists` | The three against one specification; `program` says which one runs. |
| `LockFreeList` | lab11: the list with marked pointers. |
| `SetCalls`, `SetObject` | Abstract: a linearizable set, and the record of a pending call. |
| `InitPool` | project4: the pool of threads that initialises the buffer pools, and the main thread. |
| `TransactionProofs` | The invariant of project2's lock table and workers, that of the log files and of what is not committed, the theorems that follow from them, the refinement of `SerialDatabase`, and the deadlock detection. |
| `SnapshotProofs`, `CLHLockProofs`, `BoundedQueueProofs`, `UnboundedQueueProofs`, `LockedListsProofs`, `InitPoolProofs` | Lemmas and theorems about the component each is named after. |
| `LockFreeListProofs` | The same for `LockFreeList`; its first part is about the linked list of all of lab11's programs (the way from head to tail, and what linking and unlinking a node do to it) and is used by `LockedListsProofs` as well. |

### project2

**Steps.** Everything the code does between two points where another thread
can interfere is one action: a call into the lock table happens with the mutex
held and is one step together with the `unlock()` that follows it, and taking
the mutex is a step of its own (`EnterRequest`, `Relock`, `EnterCommit`).
`readRecord` and `updateRecord` run without the mutex and are one step each;
that no two of them conflict is a property (`NoDataRace`), not an assumption:
while it holds, a finer interleaving of their instructions shows nothing else.
A rollback runs with the mutex held but writes records one by one, so each
write is a step. `Commit` writes the log line before the mutex is released,
as the code does.

**Correspondence to the calls.** `rwlock` has three outcomes: granted before
any wait (`LockGranted`), refused (`LockRefused`; the element stays queued
until the rollback's `unlockAll`), or waiting (`LockWaits`, then `Relock` and
`PollPasses` or `PollFails` until it passes). `canEnter` clears the blocked flag
when it returns true, also when it is called by `hasCycle`; `Grant` and `Pass`
include that.

**Abstractions.** The random pick is a free choice among the triples that leave
the `do-while` loop. A worker holds at most one element in a queue (proved:
`TokensMatchQueues`), so an iterator is determined by its queue. `deadlockCnt`
is only printed at the end and saturates at `DeadlockCap`; the value is not
read by any step. Log files are sequences of entries. VERBOSE output is left
out. The two steps of a `pthread_mutex_lock` that blocks (trying, getting) are
one.

### project3

**Steps.** Every `atomic_load` of a register in `collect` and every
`atomic_store` in `update` is one step; what `scan` computes from its own
copies afterwards touches nothing shared and is part of the step that reads the
last register: `FirstCollect`, `Retry`, `Borrow` or `ReturnValues`. The load of
the thread's own register in `update` is part of `Store`, since nobody else
writes it. `threadStatus` is read and written one access per step.

**State.** `old`, `fresh` and `moved` are the locals of a scan (`oldCopy`, the
part of the current `collect` read so far, `moved`), emptied when it returns.
`log`, `began` and `collects` are history and no guard of the program reads
them, except through the bound: `log` holds every state of the array, and
`BeginUpdate` admits `MaxUpdates` updates in all.

**Abstractions.** The random values are only stored, so a value is the number
of the update that stored it, which makes all values of a register distinct (a
coincidence of two random values would only make more states equal). Reference
counts, `delete` and the stamp's 32 bits are left out: a stamp overflows after
2^31 updates by one thread. `main`'s sleep of a minute is any time.

### lab10

**Steps.** The store to the node, the exchange with `tail`, each test of the
spin loop, the load and the store of `cnt_global++`, and `unlock` (whose second
assignment is to a local pointer) are one step each. `queue` is history: the
threads past their exchange, in its order.

**Memory.** Each access to a node is taken as an access to memory in program
order. That is what `__sync_lock_test_and_set` (on x86 a full barrier) and
`__sync_synchronize` are there for; only the spin loop itself has no protection
against a compiler that reads the node once.

### lab11

**Steps.** Walking one node further, taking one mutex, and one compare-and-swap
are one step each. So are the two assignments that link a node: the coarse and
the hand-over-hand program write `prev->next` before `node->next`, which only
the locks hide; the optimistic one writes them in the other order, so that a
walker without locks never sees the node without its `next`. Releasing the two
mutexes of a call is one step (between the two releases nothing is read or
written), and freeing the removed node is one of its own. In `list_find`, reading
`curr->next` and what is decided from that one value are a step.

**State.** `local[t]` holds the pointers and the place of thread t, `live` the
nodes that are allocated; `malloc` returns the lowest free node, so nodes are
used again as soon as they can be. `marked` is the top bit of `next`: pointer and
mark are compared and written together. `call[t]` is history: whether the key of
the pending call has been in the set and out of it since the call began, and
whether the call has changed that. The abstract `SetObject` is linearizability in
that form: one change at most, and an answer that was true during the call.
(Each change is visible in `members` at once, and a call that changes nothing
may be placed wherever its answer was true; so this is the usual definition.)

**The lock-free list's remove.** Its loop has no way out after a successful
mark (section 8), so it goes on until it does not find the key and answers
false. `SetObject` has the constant `Repeats` for that: a remove may take its key
out several times and answers no. With `Repeats` the list is shown to be a set
nevertheless, and that it loses no insertion.

**Abstractions.** The workload file is a free choice of calls; the result file
is the abstract set. Integer keys are 1..`MaxKey` between the sentinels. Memory
is sequentially consistent; the walks without locks read plain fields that
others write, which the C++ standard calls a data race, and which on x86 an
unoptimised build does as written.

### lab12 and lab13

**Steps.** One access to shared memory each: drawing a ticket (an atomic
addition), the read of the flag that ends the spinning, the write or read of the
key, `flag++` (only the thread whose turn it is writes the flag, which is
`BucketsExclusive`, so its read and its write are one step); in lab13 each load
and each compare-and-swap. In `Help` the load of `curr->next` and the
compare-and-swap that follows are one step: the field has been set and
never changes again.

**State.** A key is enqueued once, so in lab13 a node is named by its key. `sent`,
`linked` and `taken` are history: the keys in the order of their tickets, of
their links, of their removals. `verdict` is what `main` prints.

**Abstractions.** A node's `next` is null when it is allocated: the constructor
does not set it, but the program frees nothing and so gets zeroed memory. A
ticket is 64 bits wide and a flag 32; neither overflows in the 40 million
operations of the program.

### project4

**Steps.** `my_atomic_add32`, `os_event_set`, `os_event_reset`, entering
`os_event_wait`, leaving it, and each statement of `buf_pool_thread_reset` are
one step each; so is initialising one chunk. `Count` and `Signal` are the two
halves of `if (my_atomic_add32(...) == ...) os_event_set(...)`. `Merge` and `Undo`
are what the main thread does alone with the threads' results.

**The events.** `os_event` is InnoDB's and not in the repository. It is modelled
from its use: a waiter passes if the event is set when it comes or is set while
it waits, even if the event is reset before the waiter runs. A worker reads
`curr_task` or `next_task` when it enters its wait.

**Overtaking.** A worker counts itself, and only then reads `next_task`; the last
count wakes the main thread, which goes on at once, merges or undoes, and swaps
and resets the events. Nothing makes it wait for the workers to come to their
next wait, and the model does not either. The history variable `overtaken`
records that a swap has found a worker anywhere but in a wait; no action reads
it. What is said of an overtaken pool is what the model shows to go wrong
(section 8); the properties of run `pool` and the theorems say what holds up to
that step. Until then the threads and the main thread never touch the same data
at once, so that steps as long as `Merge` or `Undo` lose nothing; afterwards the
model shows some of the outcomes only.

**The freed task.** `buf_pool_thread_end` frees `bpi_task` when all have counted
themselves out; a worker that has still to compare its count with
`bpi_task->n_threads` (line 178) then finds anything there, so that the
comparison comes out either way (`IsLast`).

**Abstractions.** A chunk is its instance and its number there; of its blocks and latches only the chunk's
entry in the thread's and the pool's lists is left. A chunk may fail at any time.
`n_threads`, the number of processors, is a constant. `n_executions` is not told
apart beyond `n_threads`, nor `made`, how often a chunk has been initialised,
beyond `Often`, twice.

## 4. Runs

| Run | Instance | Shows |
|---|---|---|
| `txn_locks` | 3 workers, 3 records, E = 1, values in -4..3 | the safety of the lock table and of two-phase locking |
| `txn_serial` | 2 workers, 3 records, E = 2, values in -8..7 | refinement of `SerialDatabase`, its inductive invariant, and that the validator accepts |
| `txn_live` | 2 workers, 3 records, E = 1, fair | every wait ends; conditional termination |
| `snapshot` | 3 threads, 4 updates, fair | what scans return, that they end, start-up and shutdown |
| `clh` | 3 threads, 2 rounds each, fair | exclusion, first come first served, recycling of the nodes, lockout-freedom |
| `lists_locked` | 2 threads, 2 calls each, 2 keys, 4 nodes, each of 3 programs, fair | linearizable sets, no dangling pointer, every call returns |
| `list_lockfree` | 2 threads, 2 calls each, 2 keys, fair | a set, no lost insertion, the inductive invariant, every call returns |
| `list_lockfree_reports` | the same; expected to fail | a remove that removed its key returns false |
| `queue_bounded` | 2 producers of 3 keys, 2 consumers, 2 buckets, fair | exclusion by flags, order of tickets, everything delivered |
| `queue_unbounded` | 2 producers of 2 keys, 2 consumers, fair | refinement of `FIFOQueue`, everything delivered |
| `pool` | 3 threads, 3 instances, up to 4 chunks, fair; each schedule up to the first overtaking | the first instance complete or undone; the invariant of the rounds and of the data; nothing but an overtaking makes the function hang |
| `pool_slow` | 2 threads, 2 instances; expected to fail | a slow worker waits for the wrong event |

`HoldersExclude`, `TokensMatchQueues`, `NoDataRace`, `ReadsRemainCurrent` and
`NoUndetectedDeadlock` are invariants of `txn_locks`; of these, `SerialInv`, the
inductive invariant checked by `txn_serial`, has `HoldersExclude`,
`TokensMatchQueues` and `ReadsRemainCurrent` as parts, and the type invariant
`TypeOK`. Deadlock checking is on everywhere but in `pool`, where the program really may
stop once a thread has been overtaken (elsewhere the only state without a step of a worker
is the one where all have ended, where `Terminating` stutters as the joined
process does).

**Bounds.** Three records are the least the program works with (each
transaction uses all three, so contention is the greatest possible). Three
workers give queues with a writer between readers, cycles through two and
through three workers, and requests behind a cycle the requester is not part of.
E = 1 lets a worker commit, others overrun and roll back; what happens
before the counter reaches E does not depend on E. An instance with four
workers and E = 0 (every transaction overruns) was explored once as well,
without an error; it is too slow to keep. E = 2 with two workers gives the
refinement two dependent commits, one after an abort. The value range is small
so that sums do wrap.

In `snapshot` three threads and four updates let a scan see one register change
twice, which is what it takes to borrow, or a different register each time, and
leave an update by a third thread to interfere with the scan that is borrowed.
A borrowed result that is borrowed once more would take five updates; but
`SnapshotsReal` is a statement about every embedded snapshot, wherever it came
from, so a longer chain of borrowings copies what it already covers. In `clh` two rounds let a
thread queue up with a node it has taken over, and three threads let that node
be one that a third thread announced itself in.

In `lists_locked` and `list_lockfree` two keys give a node in front of, at, and
behind the place of a call; two calls each let a node be removed and its memory or
its key come back while the other thread is in the middle of one call. All
operations and keys are tried. Three calls of each thread under locks (2.2
million states) were explored once, without an error.

In `queue_bounded` six keys and two buckets take each bucket through three
rounds, so a thread may come a round early; a round number other than the own
or the next does not arise, because tickets are drawn in order. `queue_unbounded`
has two helpers for one lagging tail and two consumers for one head;
instances with three keys each (0.9 million states) and with three producers and
consumers (0.4 million) were explored once, without an error. In `pool` the
three instances use each of the two swapped events again, and the chunks are
fewer than, equal to, and more than the threads. Its constraint `UpToOvertaking` has
TLC go on from no state in which a thread has been overtaken. That hides no
violation: `FirstInstance` speaks of the first round, which does not come again
after the first swap, `PoolInv` says of such a state that the types hold, and
`ReturnsUnlessOvertaken` is fulfilled. (That the types hold for ever, and
`FirstInstance`, is proved without a constraint; with two threads, two instances and two
chunks all 2.4 million states were explored once without it, and without an
error.)

What the properties of the lists and queues say: `LockedInv` and `LockFreeInv`, the
list is always a way to the tail with increasing keys; with mutexes, a thread
that writes `prev->next` has locked two nodes that are listed side by side;
without, no insertion is lost (`MarkInv`, the first part of `LockFreeInv`); and
every answer has a reason; `NoneDangling`, no thread has a pointer to a node that has been
freed; `ImplementsSet`, linearizability; `TicketInv` and `UnboundedQueue`'s
`ListInv`, the inductive invariants; `BucketsExclusive` and `InTicketOrder`, the
flags order the rounds; `ImplementsFIFOQueue`, the instants at which a call takes
effect. Of the pool: `PoolInv`, until a thread is overtaken every wait is for the
event that comes next, the main thread touches the threads' lists only while no
thread works on them, and they hold the chunks a thread has initialised;
`FirstInstance`, on every schedule `buf_pool_init_instance` leaves the first
instance with all its chunks or with none; `ReturnsUnlessOvertaken`, only an
overtaken thread makes the function hang. None of the three says that no thread is
overtaken, which is false (`WaitsForNextTask`, in `pool_slow`).

What the properties of `snapshot` say: `SnapshotsReal`, a scan returns a state
the whole array had at one instant; `CleanCollectIsCurrent`, one that agrees
twice had it since the scan began; `BorrowsOverlap`, a borrowed one comes from
an update that stored since the scan began; `WaitFree`, at most N + 1 collects;
`UpdatesCounted` and `MainExits`, the life cycle of the threads; `SnapshotInv` is
the inductive invariant behind the first five. A stronger
statement is *not* true of the code: a borrowed result need not be a state the
array had since the scan began. `scan` copies the snapshot of the older of the
two values (`snapshot.cpp:50`), and the update that stored that value may have
scanned before this scan began; with three threads and four updates TLC finds
such a scan in a few seconds. (The newer value's update began after the older
one's store, so its snapshot would be recent enough.) Nothing in the repository promises more than the properties above,
so this is noted here and no run claims it.

## 5. Fairness and liveness

In project2 `Fairness` is strong fairness of each worker's next step. A worker is disabled
only in front of the mutex, so this says two things: a runnable thread is
scheduled again, and a mutex that is released again and again is not denied to
one thread for ever. The second is not promised by `pthread_mutex_lock`; it is
assumed because a polling worker calls `pthread_yield` between releasing and
taking the mutex, and without it the program really may starve a worker.

`WaitEnds`: a worker in `rwlock`'s wait loop gets its lock. No assumption on
deadlocks is needed: a queue is FIFO, and every element in front leaves by a
commit or by an abort. `WorkersTerminate` is conditional: if from some point on
no transaction is sacrificed to a deadlock, the E commits happen and everyone
ends. Unconditional termination is not a property of the code: two workers can
pick conflicting triples and abort alternately for ever, and only chance (which
TLA+ fairness does not express) ends that.

The lists, the queues and the pool, too, need only weak fairness of each thread.
A thread in front of a mutex is disabled while another holds it; weak fairness
suffices because each thread makes finitely many calls, so that at some time
nobody else holds it. For the same reason the compare-and-swap loops end: one
fails only when another has succeeded, and there are finitely many to succeed.
A queue's consumer that finds it empty spins until a producer, which has a
processor too, has put a key. Of the pool, `ReturnsUnlessOvertaken` claims the
end of `main` and of every worker only for the behaviours in which no worker is
overtaken; weak fairness gives no more, as section 8 shows.

project3 and lab10 need no more than weak fairness of each thread (and of
`main`): nothing there blocks but spinning and `join`, so a thread that can
take a step can take it until it does, and the operating system schedules it.
`MainExits` and `LockoutFree` rest on that alone. `LockoutFree` is of a thread
that spins, that is, past its exchange on `tail`; that a thread which has
announced itself gets there needs only its own next step.

## 6. Proofs

Assumed: `HalfRange` is a positive natural number, `DefaultValue` lies in the
value range, E and `DeadlockCap` are natural numbers, `NoThread` is no worker.
`Records` is an arbitrary set. `Workers` is a finite one (the program starts
`num_threads` workers), which only the proofs about deadlocks use, and for
`LogsAccepted` it has a member.

### project2

`TransactionProofs` proves `Spec => []LockInv`, and from it the theorems
`TypeCorrect`, `LocksExclude`, `TokensExact`, `RaceFree` and `ReadsStable`.

*Why the invariant is what it is.* `NoDataRace` speaks of the worker's place in
its transaction; the lock table knows nothing of it. `LockInv` connects the two:

- `MutexInv`: the mutex is owned by exactly the worker inside a critical
  section, so a rollback, a poll and a lock request never overlap;
- `ProgressInv`: a worker's tokens are a prefix of its pick, as long as its
  stage says, and so are the records it has read; record i is never marked
  updated;
- `ElementsInv`: the element of its n-th record is a reader exactly for n = 1,
  and has passed once the record has been or is being read;
- `HoldersExclude` (passed elements form a prefix, and two of them are both
  readers) and `TokensMatchQueues` are inductive together with `TypeOK`;
- `ReadsRemainCurrent` follows for a step that writes record r because the
  writer's element has passed, so by `HoldersExclude` no other worker's element
  in that queue has, and by `ElementsInv` nobody else has read r.

The first part of `TransactionProofs` states what each operation of the table
does to a queue (`AddLockQueue`, `EnterQueue`, `UnlockQueue`) and to the table
(`AskTable`, `GrantTable`, `PassTable`, `UnlockAllTable`); the second has one
lemma per action and combines them in `NextLockInv`.

The third part proves `Spec => []SerialInv` (`SerialInvAlways`), and from it the
refinement `TransactionsSerial` and that the validator accepts (`LogsAccepted`).
The latter needs the one further assumption that there is a worker: without one
nothing is logged, and the validator misses the E entries.

*Why it holds.* The committed database is not a variable of the program: a
record that an active transaction has overwritten counts with its before-image,
every other one as it stands (`Committed`; in the proofs `Reverted`, which says
the same without choosing an image, since no two images are of one record,
`ImagesApart`). Then an update is invisible, because what it overwrites was the
committed value and goes into the image; so is each step of a rollback, and so
is its end, because `UpdatesOK` says that the records in front of `undo` hold
their old values again. At a commit `UpdatesOK` says that records j and k hold
what the transaction logs, and `ImageIsCommitted` that all three values it has
read are the committed ones: so the commit is one transaction of
`SerialDatabase` (`CommitIsSerial`). That the order of the ids is an order of
execution rests on `ReadsRemainCurrent`: nobody has changed record i since it was
read, although it was read two lock waits ago. `LogsInv` says that the files hold
each id of 1..min(currentOrder, E) once, and `ReplayInv` that replaying them comes
to `Committed` over the logged values. The replay is a recursive function, whose
equation is shown for the function at hand by an induction on a set of numbers
(`Successors`, `ReplayFacts`). `IdsOK` gives the end: a worker ends only when the
counter has passed E, so that then all ids up to E have been logged, and the
lines of the files can be counted (`LinesCounted`).

The last part proves `Spec => []NoUndetectedDeadlock` (`DeadlocksDetected`): the
search that `rwlock` makes once, when a wait begins, is enough. Assumed is that
there are finitely many workers (`WorkersFinite`), which is what ends the search.
The invariant is `DeadlockInv`: `LockInv`, `NoUndetectedDeadlock` itself, and
`RefusedLast`, by which nobody queues behind a request that was refused.

*Why it holds.* A worker waits for others as its queue says (`Behind`). A step
other than `LockWaits` makes nobody wait for more, which is shown queue by queue
(`BehindAdded`, `BehindEntered`, `BehindUnlocked`; the last needs `RefusedLast`: a
blocked element that left the middle of a queue could put a reader behind
another). So a deadlock can only arise when t starts to wait, behind P, and t is
part of it. That the search found nothing means that the workers V it has visited
are closed: whoever is right in front of one of V is of V, or is t, reached over
no blocked element (`NoCycleFound`, `VisitedBehind`). Now a group S of workers
that wait for each other would give an older deadlock: everybody in front of t is
of V (`VisitedInFront`), so t waits for one of V and S. One of V and S that waits
for nobody of V and S can only do so past t, in a queue where t has passed; then
it waits for P as well, which is not of S and has passed there as a reader beside t
(`VisitedWaits`). A worker reads only one record (`ReadsOneRecord`), so P is a
writer in t's queue and waits there itself, for the one of V and S that t waits
for: V and S with P added were in a deadlock before the step. This is where it
matters that transactions lock i for reading and j, k for writing; that all
branches of the search share one set of visited workers does no harm, because a
worker first reached over no blocked element is P or reads beside P (the set Z
of `NoCycleFound`).

`detectCycle` is modelled by a recursive function whose arguments are records.
That such a function satisfies its equation cannot be had from the library's
theorems on recursion, so `SearchExists` builds it: one round of the search
(`Round`) is iterated as often as the measure `Left` says (unvisited workers, then
tokens left), and the rounds agree from there on (`RoundAgrees`). `RoundSound` and
`RoundComplete` say of each round what it visits.

Only model-checked: liveness (`WaitEnds`, `WorkersTerminate`).

### project3

Assumed: N is a positive natural number, `MaxUpdates` a natural number.
`SnapshotProofs` proves `Spec => []SnapshotInv` (`SnapshotInvariant`), and from it
`SnapshotsAreReal`, `CleanCollectsAreCurrent`, `BorrowsAreFresh`,
`ScansAreWaitFree` and `AllUpdatesCounted`. `SnapshotInv` is `ScanInv`, about the
object, and `SumInv`, about what main adds up.

*Why the invariant is what it is.* A scan that finds two equal collects returns
a state that the array had between them, but nothing in the program names the
instant. So `ScanOK` says that there is one: while a scan is under way there is
an n, not before the scan began, such that the registers read in the first of
the two collects were not ahead of state n, and those read in the second are
not behind it (`Between`). It is chosen when the first of the two collects
ends, as the state of that moment, and stays a witness during the second. The
values of a register increase with the states (`LogInv`), so where the two
collects agree the copy is state n itself (`CleanSound`). For the
borrowed result the embedded snapshot of every stored value is a state
(`RegisterOK`), and a register in `moved` has been stored since the scan began
(`MovedOK`), so that the value borrowed from, which came after another one, was
stored since. `MovedOK` also counts: every collect but the first adds a
register that was not in `moved`, and the own register stands still
(`CopiesOK`), so there are no more than N + 1 collects.

*The sum.* The updates stored so far are a set, the n-th of thread t being
`<<t, n>>` (`Updates`), and there is one more state of the array than updates;
`numUpdates` is at every time the number of updates of the threads that main has
joined (`SumInv`). `Join` adds those of one more thread (`OneMore`), which has
ended, so that its counter is the stamp of its register (`RegisterOK`: a thread
between its store and its count is one behind), and stores nothing any more. At
the end all threads are joined.

Only model-checked: `MainExits`.

### lab10

Assumed: `NumThread` and `NumWork` are natural numbers, no more.
`CLHLockProofs` proves `Spec => []CLHInv` (`CLHInvariant`), and from it
`CLHExcludes`, `CLHRecycles`, `CLHCounts` and the refinement `CLHImplementsFIFO`.
`CLHInv` is `LockInv`, about the lock, and `CountInv`, about what it protects.

*Why the invariant is what it is.* Mutual exclusion says nothing of cells, so
it is far from inductive. A thread gets in when the cell it spins on is 0, so
one must know whose cell that is (`CellsRecycled`: the cell of the one before it
in `queue`, or the free cell for the first), when a cell is 1 (`FlagInv`:
exactly while its owner is between its announcement and its unlock; the free
cell is 0), and that the queue holds the threads past their exchange once each
(`QueueInv`). Then only the first of the queue can see a 0 (`EnterFirst`), which
is `FirstInv`, and with it both exclusion and the order of entry. `Unlock` is
the interesting step: the leaving thread's cell becomes the free one, which the
second of the queue spins on, and the cell that was free becomes the leaving
thread's own; so nobody's cell is ever one that another spins on.

*The count.* `CountExact` speaks of the end only; on the way `cnt_global` is the
number of increments stored so far. `Stored` is the set of them, the n-th of
thread t being `<<t, n>>`, and `CountInv` says that `cnt_global` is its
cardinality and that what a thread between its load and its store has loaded
is still there. `Store` then adds one pair and one to the counter
(`StoreCounts`); that no other thread is between its load and its store, and so
made stale by it, is `FirstInv`. At the end the set is `Threads \X 1 .. NumWork`.

Only model-checked: `LockoutFree`.

### lab12

Assumed: `NumProducer` and `NumEnqueue` are natural numbers, `QueueSize` is a
positive one. `BoundedQueueProofs` proves `Spec => []TicketInv`
(`QueueInvariant`), and from it `BucketsNeverShared` and `QueueInOrder`.

*Why the invariant is what it is.* A thread is let in by the flag of its bucket
alone, so the flag must tell the rounds apart although threads of several rounds
wait for it. `Turns` says that the flag has passed the turn of a ticket exactly
if the ticket has been drawn and given back: a ticket's flag value is then
reached once, by the increment of the ticket's only holder (`PassTurn`: an
increment passes one turn of one ticket). Two threads inside a bucket would
have the same flag value, hence the same parity and round, hence the same
ticket (`Exclusive`). The key follows from `BucketOK`: an odd flag names the
ticket whose key the bucket holds, and only the thread inside overwrites it. A
new ticket has not been passed because the one `QueueSize` before it has not
been passed by more than one round (`NextRound`).

The flags are natural numbers in the proofs as in the model; in the code they are
`int`s, which would overflow after 2^30 rounds of one bucket (section 3).

Only model-checked: `AllDelivered`.

### lab13

Assumed: `NumProducer` and `NumEnqueue` are natural numbers, no more.
`UnboundedQueueProofs` proves `Spec => []ListInv` (`QueueInvariant`), and from it
that the queue implements `FIFOQueue` (`QueueImplementsFIFO`).

*Why the invariant is what it is.* The code moves tail with a compare-and-swap
that may fail, and nobody looks at its result; a consumer never looks at tail.
So one must show that tail does not fall behind for good (`TailInv`): a producer
links its node only behind a node that tail points to or has passed
(`UpToTail`), and that node's next was null, so it is the last; hence tail had
caught up before the link, and it lags by one at most afterwards, while that
producer has its own swing before it. Either the swing or the help of another
producer ends the lag, and whichever comes second fails, because tail never
returns to a node it has passed (`OrderInv`: no node is in the list twice). The
keys of the producers are disjoint intervals (`KeysOfProducers`), which is why a
key that is about to be linked is new (`NodeOfNew`). The refinement follows:
`Link` is the abstract `Put`, and `Take` the abstract `Take`, because head has
not moved since the consumer read it and so its next is the oldest key not
taken. Every other step stutters.

Only model-checked: `AllDelivered`.

### lab11

Assumed: `MaxKey`, `NumWork` and `HeapSize` are natural numbers; `Threads` is an
arbitrary set, and `Free` is not in it. `LockFreeListProofs` proves
`Spec => []LockFreeInv` (`LockFreeInvariant`), and from it `NoInsertionIsLost` and
the refinement `ListIsASet`. `LockedListsProofs` proves `Spec => []LockedInv`
(`LockedInvariant`) for the three programs with mutexes at once, and from it
`NothingDangles` and the refinement `LockedListIsASet`.

*The list.* `Listed` is the nodes that a walk from head visits, which `ListHeap`
defines by a recursion on the number of steps. The first part of
`LockFreeListProofs`, which speaks of `ListHeap` alone (`LockedListsProofs` takes it
from there by an `INSTANCE`), shows what the proofs need of it: it is the least set with head that is closed under next
(`ListedLeast`), tail is in it if every visited node leads on with a larger key,
since a walk with increasing keys cannot go on for ever (`TailListed`, by
counting: `Counting`), its keys are ordered (`ListedOrdered`), and linking or
unlinking one node adds or removes just that node (`ListedInsert`,
`ListedRemove`). The inductions are on sets of natural numbers
(`LeastNatural`).

*Why the invariant is what it is, without locks.* A thread's `prev` and `curr` may
both have been taken out when it uses them. So the invariant cannot place them in the list;
it says that a node that was ever linked still leads to tail with increasing
keys (`LinkedOK`), and that a node that is taken out was marked before. Then the
compare-and-swap on an unmarked `prev` is one on a node of the list, and its
expected value says that `curr` follows it; with `WalkOK`, the keys of the two
enclose the key, so the key is absent at a link and present at a mark, which are
the abstract `Change`. `AddersOK` says that a node about to be linked is known to
nobody else. What remains is that the answers without a change have been true.
For `list_find` it is enough to record it when it looks at a node that is not
marked (`WalkOK`). `list_contains` walks over marked nodes to a node that may
have been out for long: `SeekOK` says that unless the key has been seen out of
the set, a set of nodes leads from the walker to the unmarked node with the key
(`Reaches`). Linking a node in between adds it to that set, marking the node
with the key is the moment at which it is out.

*Why the invariant is what it is, with mutexes.* The write of `prev->next` is right
if `prev` is listed and `curr` follows it (`SecureOK`), for then the two enclose the
key, and the key is in the set exactly if `curr` has it (`Ready`). Each program
has its own reason. The coarse-grained one holds the only mutex from the
beginning. Hand over hand, `curr` is secure before its mutex is taken, because
whoever would link behind `prev`, or take `prev` or `curr` out, holds the mutex of
`prev` at that time (`LocksOK`, `Exclusive`). The optimistic program may lock two
nodes that are long out of the list; `ValidateOK` says of its second walk that
either `prev` is listed, or a set of nodes that is closed under `next` holds the
walker and not `prev`, so that it will not meet it. The set is chosen when the
walk begins (`LocksStep`): what is listed then. A link behind one of its nodes
adds the new node to it, an unlink leaves it closed, and `prev` itself cannot be
taken out any more, since its mutex is held. That the answers are right then
follows as without locks, and easier: the truth is seen while it cannot change.

*No dangling pointer.* `Known` is the nodes that a thread may come to: those that
are listed, and in the optimistic program, which frees nothing, all that ever
were. Every pointer of a thread leads to a known node or to one of its own
(`PointersOK`, `Own`: the node it has not linked yet, the one it has taken out and
will free), and nobody's own node is another's (`OwnApart`). The step that makes
this hard is `Unlink`: `curr` becomes one's own, so no other thread may have a
pointer to it. Those with mutexes are at a node whose mutex they hold, except
that a thread hand over hand waits for the mutex of its `curr` while it holds that
of the node before; that node is not `prev`, so its `curr` is not taken out.

Only model-checked: `JoinsReturn`, of both.

### project4

Assumed: `NumThreads`, `NumInstances` and `MaxChunks` are positive natural numbers;
nothing of the schedule. `InitPoolProofs` proves `Spec => []PoolInv` (`PoolInvariant`),
and from it `PoolFirstInstance` and `PoolAllOrNothing`.

*What needs no condition.* The types hold in every state, and in the first round,
which no swap has preceded, nobody can have been overtaken (`FirstRoundKept`). So
what follows holds of the first instance whatever the schedule, up to the first
swap: that is `FirstInstance`. Everything else in `PoolInv` has the condition that
no swap has overtaken a thread, and so has `PoolAllOrNothing`. The condition cannot
be dropped: without it the code breaks both (section 8).

*The rounds.* A thread is either waiting for the event to
come or has been let go by the event of this round, and nothing in its own
place, `waiting`, tells which. So `RoundsInv` follows
the events through a round:
`EventsInv` says which are set at each place of the main thread and that a
thread only ever waits for `EventToCome`; `CountInv`, that `n_executions` is the
number of threads that have counted themselves (`Counted`: past the count, or
waiting again), so that `end_task`, which only the thread that saw
`NumThreads - 1` sets, is set when all have (`EndMeansAll`). Then, when the main
thread wakes, all have counted themselves, and each is in its next wait or on its
way there (`RoundOver`). That is `PlaceInv`. Only the swap needs more: if it
overtakes nobody, all are in their waits, and for the event that it makes the
current one (`SwapInv`); every other step keeps `RoundsInv` unconditionally.

*The chunks.* `DataInv` says what the lists hold. A thread has
initialised the first `Got` of the chunks dealt to it, and its lists have these
and no others (`ThreadsInv`); the instances before the present one are complete, the
present one has the chunks that the threads have, and after an error there is none
(`InstancesInv`). The first chunk of a thread is defined by recursion, so the
proof first shows that the recursion has a solution, by giving it in closed
form, and then that every solution is that one, by an induction on a set of
numbers (`Counting`, `FirstChunkFacts`). The same is done for the merged list
(`MergedFacts`) and for the sum over the threads, which the community modules
define by recursion over a set (`SumFacts`). Then the chunks dealt to different
threads are disjoint, and together they are `1 .. pool_chunks` (`DealtFacts`). When
the main thread wakes, `RoundsInv` says that every thread is past its loop. If no one
has set `task_error`, each has all its chunks and `Merge` makes the instance
complete; if one has, `Undo` takes back what each has, and that is everything
the instance has. So an instance that is complete is `Whole`, and one that is not is
`Bare` (`WholeOrBare`), after the first round as when the function returns.

Only model-checked: `ReturnsUnlessOvertaken`.

## 7. Not modelled

- project1: the external sort and the radix sort; sequential, planned as
  functions over bounded inputs.
- project2's start-up handshake (`threadStatus`, `setThreadId`).
- project4: the plumbing of the new parameters through InnoDB, and its scripts.
- lab10's test-and-set locks (one flag), lab12's queue under one mutex,
  lab11's template with empty operations.
- lab04's workers wait on a condition variable without holding its mutex, which
  POSIX leaves undefined; lab06's are planned.
- The fork-and-join programs, the Boost.Asio exercises, and the demonstrations
  of a race, a mutex or an uninitialised read.

`PROJECT.json` gives the reason or the plan for each.

## 8. Findings and observations

- `list_lockfree_reports`: the loop of lab11's `list_remove` (`lockfree.cpp:113`) has no
  `break` after a successful mark. It searches again, may remove the key once
  more if another thread has added it meanwhile, and always returns false; the
  lines after the loop, with the comment "이 CAS가 실패해도 상관이 없다" and
  `return true`, are never reached.
- `pool_slow`: project4's workers read `next_task` (`patchfile:175`, under the
  comment "wait for next task") after counting themselves finished. One that is
  late reads it after the swap and waits for the event after the next; the next
  task is never completed, and the main thread waits for ever. If it reads it
  between the swap and the reset (219-220), the event is still set; it passes and
  does its chunks again. So the promise of `AllOrNothing`, true until a thread is
  overtaken, is not true of all schedules: with two threads, two instances and two
  chunks and no constraint TLC finds a chunk that fails and an instance that is
  undone, a worker that passes the event that way and initialises a chunk of it once
  more, and a function that returns `DB_ERROR` and leaves that chunk. The late
  worker is the one defect behind both, so only `WaitsForNextTask` has a run.
- project4: a worker that has counted itself out reads `bpi_task->n_threads` for the
  comparison (`patchfile:178`) after `buf_pool_thread_end` may have freed
  `bpi_task` (238).
- lab11's optimistic list does not free removed nodes (`optimistic.cpp:127`, commented
  out); the mutant of `NoneDangling` shows that it must not.
- project2: with R < 3 the pick loop never ends; `main` prints E as the number
  of records (`main.cpp:23`).
