-------------------------- MODULE TransactionWorkers --------------------------
(****************************************************************************)
(* project2: N worker threads that run transactions over R records until E  *)
(* of them have committed.  A transaction picks three distinct records i,   *)
(* j, k, read-locks i, write-locks j and k, and sets                        *)
(*     Rj := Rj + Ri + 1        Rk := Rk - Ri                               *)
(* under strict two-phase locking.  The lock table is touched only with the *)
(* global mutex held; the records are read and written without the mutex,   *)
(* except by a rollback.                                                    *)
(*                                                                          *)
(* pc is the place in workTransaction:                                      *)
(*   begin     before prepare() and the random pick                         *)
(*   enter     before GlobalState::lock() of the current stage              *)
(*   request   mutex held, before rdLock / wrLock                           *)
(*   yield     in rwlock's wait loop, mutex released                        *)
(*   poll      in rwlock's wait loop, mutex taken again                     *)
(*   read      lock granted, before readRecord                              *)
(*   update    before updateRecord                                          *)
(*   finish    before GlobalState::lock() of the commit phase               *)
(*   commit    mutex held, before getNextOrder                              *)
(*   rollback  mutex held, in the loop of rollback()                        *)
(*   deadlock  back in doWork, before incDeadlockCnt                        *)
(*   done      doWork left its loop                                         *)
(* stage is the lock request a transaction is at: 1 for i, 2 for j, 3 for k.*)
(****************************************************************************)
EXTENDS LockTable, Database

CONSTANTS LastOrder,     \* E, the last commit id
          NoThread,      \* the owner of a free mutex
          DeadlockCap    \* deadlockCnt is only printed: it saturates here

ASSUME LastOrderAssumption == LastOrder \in Nat
ASSUME NoThreadAssumption == NoThread \notin Workers
ASSUME DeadlockCapAssumption == DeadlockCap \in Nat

VARIABLES mutex, currentOrder, deadlockCnt,          \* GlobalState
          db,                                        \* Database::records
          pc, stage, pick, records, commitId, undo,  \* one WorkerThread
          clog                                       \* its log file

globalVars == <<mutex, currentOrder, deadlockCnt>>
workerVars == <<pc, stage, pick, records, commitId, undo, clog>>
vars == <<lockTableVars, globalVars, db, workerVars>>

Stage == 1 .. 3

Places == {"begin", "enter", "request", "yield", "poll", "read", "update",
           "finish", "commit", "rollback", "deadlock", "done"}

BeforeImage == [index : Records, value : RecordValue, isUpdated : BOOLEAN]

LogEntry == [commitId : 1 .. LastOrder, i : Records, j : Records, k : Records,
             vi : RecordValue, vj : RecordValue, vk : RecordValue]

\* The picks that leave the do-while loop.
Picks == {p \in Records \X Records \X Records :
            p[1] # p[2] /\ p[2] # p[3] /\ p[3] # p[1]}

WorkersTypeOK ==
    /\ mutex \in Workers \union {NoThread}
    /\ currentOrder \in Nat
    /\ deadlockCnt \in 0 .. DeadlockCap
    /\ db \in [Records -> RecordValue]
    /\ pc \in [Workers -> Places]
    /\ stage \in [Workers -> Stage]
    /\ pick \in [Workers -> Picks \union {<<>>}]
    /\ records \in [Workers -> Seq(BeforeImage)]
    /\ commitId \in [Workers -> Nat]
    /\ undo \in [Workers -> Nat \ {0}]
    /\ clog \in [Workers -> Seq(LogEntry)]

TypeOK == LockTableTypeOK /\ WorkersTypeOK

Init ==
    /\ LockTableInit
    /\ mutex = NoThread
    /\ currentOrder = 0
    /\ deadlockCnt = 0
    /\ db = NewDatabase(Records)
    /\ pc = [t \in Workers |-> "begin"]
    /\ stage = [t \in Workers |-> 1]
    /\ pick = [t \in Workers |-> <<>>]
    /\ records = [t \in Workers |-> <<>>]
    /\ commitId = [t \in Workers |-> 0]
    /\ undo = [t \in Workers |-> 1]
    /\ clog = [t \in Workers |-> <<>>]

-----------------------------------------------------------------------------
(* Helpers. *)

Goto(t, place) == pc' = [pc EXCEPT ![t] = place]

\* The record that t locks, reads or updates in its current stage.
Target(t) == pick[t][stage[t]]

WantsReadLock(t) == stage[t] = 1

\* GlobalState::lock() and GlobalState::unlock()
Acquire(t) == mutex = NoThread /\ mutex' = t
Release(t) == mutex' = NoThread

\* The local copies ri, rj, rk: what readRecord returned, then the new value.
ri(t) == records[t][1].value
rj(t) == NewJ(ri(t), records[t][2].value)
\* Fault: Rk is reduced by the new value of Rj.
rkFromJ(t) == NewK(rj(t), records[t][3].value)

rk(t) == NewK(ri(t), records[t][3].value)

\* workTransaction returns and its locals are gone.  records is a member of
\* the thread object and stays as it is until the next prepare().
Return(t, place) ==
    /\ Goto(t, place)
    /\ pick' = [pick EXCEPT ![t] = <<>>]
    /\ stage' = [stage EXCEPT ![t] = 1]
    /\ commitId' = [commitId EXCEPT ![t] = 0]
    /\ undo' = [undo EXCEPT ![t] = 1]

NewValue(t) == IF stage[t] = 2 THEN rj(t) ELSE rk(t)

-----------------------------------------------------------------------------
(* Steps of a worker. *)

\* Fault: prepare() does not clear the records of the previous transaction.
BeginUnprepared(t) ==
    /\ pc[t] = "begin"
    /\ \E p \in Picks : pick' = [pick EXCEPT ![t] = p]
    /\ Goto(t, "enter")
    /\ UNCHANGED <<lockTableVars, globalVars, db, stage, records, commitId, undo, clog>>

\* prepare() and the random pick of i, j, k
Begin(t) ==
    /\ pc[t] = "begin"
    /\ records' = [records EXCEPT ![t] = <<>>]
    /\ \E p \in Picks : pick' = [pick EXCEPT ![t] = p]
    /\ Goto(t, "enter")
    /\ UNCHANGED <<lockTableVars, globalVars, db, stage, commitId, undo, clog>>

EnterRequest(t) ==
    /\ pc[t] = "enter"
    /\ Acquire(t)
    /\ Goto(t, "request")
    /\ UNCHANGED <<lockTableVars, currentOrder, deadlockCnt, db, stage, pick,
                   records, commitId, undo, clog>>

\* rdLock or wrLock returns ACQUIRED at once
LockGranted(t) ==
    /\ pc[t] = "request"
    /\ Grant(t, Target(t), WantsReadLock(t))
    /\ Release(t)
    /\ Goto(t, "read")
    /\ UNCHANGED <<currentOrder, deadlockCnt, db, stage, pick, records,
                   commitId, undo, clog>>

\* it returns DEADLOCK_DETECTED; the mutex stays held through the rollback
LockRefused(t) ==
    /\ pc[t] = "request"
    /\ Refuse(t, Target(t), WantsReadLock(t))
    /\ Goto(t, "rollback")
    /\ UNCHANGED <<globalVars, db, stage, pick, records, commitId, undo, clog>>

\* it enters the wait loop
LockWaits(t) ==
    /\ pc[t] = "request"
    /\ StartWaiting(t, Target(t), WantsReadLock(t))
    /\ Release(t)
    /\ Goto(t, "yield")
    /\ UNCHANGED <<currentOrder, deadlockCnt, db, stage, pick, records,
                   commitId, undo, clog>>

Relock(t) ==
    /\ pc[t] = "yield"
    /\ Acquire(t)
    /\ Goto(t, "poll")
    /\ UNCHANGED <<lockTableVars, currentOrder, deadlockCnt, db, stage, pick,
                   records, commitId, undo, clog>>

PollPasses(t) ==
    /\ pc[t] = "poll"
    /\ Pass(t, Target(t))
    /\ Release(t)
    /\ Goto(t, "read")
    /\ UNCHANGED <<currentOrder, deadlockCnt, db, stage, pick, records,
                   commitId, undo, clog>>

PollFails(t) ==
    /\ pc[t] = "poll"
    /\ ~CanPass(t, Target(t))
    /\ Release(t)
    /\ Goto(t, "yield")
    /\ UNCHANGED <<lockTableVars, currentOrder, deadlockCnt, db, stage, pick,
                   records, commitId, undo, clog>>

ReadRecord(t) ==
    /\ pc[t] = "read"
    /\ records' = [records EXCEPT ![t] =
                     Append(@, [index |-> Target(t), value |-> db[Target(t)],
                                isUpdated |-> FALSE])]
    /\ IF stage[t] = 1
       THEN stage' = [stage EXCEPT ![t] = 2] /\ Goto(t, "enter")
       ELSE Goto(t, "update") /\ UNCHANGED stage
    /\ UNCHANGED <<lockTableVars, globalVars, db, pick, commitId, undo, clog>>

\* readRecord has put the record at place stage[t] of records
UpdateRecord(t) ==
    /\ pc[t] = "update"
    /\ records' = [records EXCEPT ![t][stage[t]].isUpdated = TRUE]
    /\ db' = [db EXCEPT ![Target(t)] = NewValue(t)]
    /\ IF stage[t] = 2
       THEN stage' = [stage EXCEPT ![t] = 3] /\ Goto(t, "enter")
       ELSE Goto(t, "finish") /\ UNCHANGED stage
    /\ UNCHANGED <<lockTableVars, globalVars, pick, commitId, undo, clog>>

EnterCommit(t) ==
    /\ pc[t] = "finish"
    /\ Acquire(t)
    /\ Goto(t, "commit")
    /\ UNCHANGED <<lockTableVars, currentOrder, deadlockCnt, db, stage, pick,
                   records, commitId, undo, clog>>

\* commitId <= E: release the locks, then append to the log
Commit(t) ==
    /\ pc[t] = "commit"
    /\ currentOrder + 1 <= LastOrder
    /\ currentOrder' = currentOrder + 1
    /\ UnlockAll(t)
    /\ clog' = [clog EXCEPT ![t] = Append(@,
                  [commitId |-> currentOrder + 1,
                   i |-> pick[t][1], j |-> pick[t][2], k |-> pick[t][3],
                   vi |-> ri(t), vj |-> rj(t), vk |-> rk(t)])]
    /\ Release(t)
    /\ Return(t, "begin")
    /\ UNCHANGED <<deadlockCnt, db, records>>

\* commitId > E: the transaction is one too many
OverrunCommit(t) ==
    /\ pc[t] = "commit"
    /\ currentOrder + 1 > LastOrder
    /\ currentOrder' = currentOrder + 1
    /\ commitId' = [commitId EXCEPT ![t] = currentOrder + 1]
    /\ Goto(t, "rollback")
    /\ UNCHANGED <<lockTableVars, mutex, deadlockCnt, db, stage, pick, records,
                   undo, clog>>

\* one round of the loop in rollback()
UndoUpdate(t) ==
    /\ pc[t] = "rollback"
    /\ undo[t] <= Len(records[t])
    /\ LET image == records[t][undo[t]]
       IN  IF image.isUpdated
           THEN db' = [db EXCEPT ![image.index] = image.value]
           ELSE UNCHANGED db
    /\ undo' = [undo EXCEPT ![t] = @ + 1]
    /\ UNCHANGED <<lockTableVars, globalVars, pc, stage, pick, records,
                   commitId, clog>>

\* Fault: the loop of rollback() ends one record early.
EndRollbackEarly(t) ==
    /\ pc[t] = "rollback"
    /\ undo[t] >= Len(records[t])
    /\ UnlockAll(t)
    /\ Release(t)
    /\ Return(t, IF commitId[t] > LastOrder THEN "done" ELSE "deadlock")
    /\ UNCHANGED <<currentOrder, deadlockCnt, db, records, clog>>

\* rollback() is over: unlockAll(), then the mutex; the worker ends if its
\* commit id was beyond E and retries otherwise
EndRollback(t) ==
    /\ pc[t] = "rollback"
    /\ undo[t] > Len(records[t])
    /\ UnlockAll(t)
    /\ Release(t)
    /\ Return(t, IF commitId[t] > LastOrder THEN "done" ELSE "deadlock")
    /\ UNCHANGED <<currentOrder, deadlockCnt, db, records, clog>>

\* incDeadlockCnt() in doWork
CountDeadlock(t) ==
    /\ pc[t] = "deadlock"
    /\ deadlockCnt' = IF deadlockCnt < DeadlockCap THEN deadlockCnt + 1
                      ELSE deadlockCnt
    /\ Goto(t, "begin")
    /\ UNCHANGED <<lockTableVars, mutex, currentOrder, db, stage, pick,
                   records, commitId, undo, clog>>

\* main has joined every worker
AllDone == \A t \in Workers : pc[t] = "done"

Terminating == AllDone /\ UNCHANGED vars

Step(t) ==
    \/ Begin(t) \/ EnterRequest(t)
    \/ LockGranted(t) \/ LockRefused(t) \/ LockWaits(t)
    \/ Relock(t) \/ PollPasses(t) \/ PollFails(t)
    \/ ReadRecord(t) \/ UpdateRecord(t)
    \/ EnterCommit(t) \/ Commit(t) \/ OverrunCommit(t)
    \/ UndoUpdate(t) \/ EndRollback(t) \/ CountDeadlock(t)

Next == (\E t \in Workers : Step(t)) \/ Terminating

Spec == Init /\ [][Next]_vars

\* Fairness: a thread that can run is scheduled again, and the mutex, given up
\* infinitely often, is not denied to a thread for ever.  (The second half is
\* an assumption on the scheduler: pthread_mutex_lock promises no order, but a
\* polling worker yields between unlock and lock.)  A worker is disabled only
\* at an Acquire, so strong fairness of its steps says both.
Fairness == \A t \in Workers : SF_vars(Step(t))

FairSpec == Spec /\ Fairness

-----------------------------------------------------------------------------
(* Properties. *)

\* The accesses to db that t may make in its next step.
Access(t) ==
    CASE pc[t] = "read"   -> {[record |-> Target(t), isWrite |-> FALSE]}
      [] pc[t] = "update" -> {[record |-> Target(t), isWrite |-> TRUE]}
      [] pc[t] = "rollback" ->
            {[record |-> records[t][n].index, isWrite |-> TRUE] :
                n \in {m \in DOMAIN records[t] :
                         m >= undo[t] /\ records[t][m].isUpdated}}
      [] OTHER -> {}

\* Database::get and set are called without the mutex, and by a rollback with
\* it, on plain int64_t fields: two workers are never about to touch one
\* record when one of them writes it.
NoDataRace ==
    \A t, u \in Workers : t # u =>
        \A a \in Access(t), b \in Access(u) :
            a.record = b.record => ~a.isWrite /\ ~b.isWrite

\* Between prepare() and unlockAll() of workTransaction.
Active(t) == pc[t] \notin {"begin", "deadlock", "done"}

ReadsCurrent(t) ==
    \A n \in DOMAIN records[t] :
        ~records[t][n].isUpdated => db[records[t][n].index] = records[t][n].value

\* Strict two-phase locking at work: what an active transaction has read and
\* not updated is still what the database holds (no dirty and no stale read:
\* ri is used for the last time long after it was read).
ReadsRemainCurrent == \A t \in Workers : Active(t) => ReadsCurrent(t)

\* t waits, and not merely for its next poll, until u moves: a writer for
\* everyone in front of it, a reader for the one right in front of it.
WaitsFor(t, u) ==
    /\ pc[t] \in {"yield", "poll"}
    /\ ~CanPass(t, Target(t))
    /\ LET q == threadQueue[Target(t)]
           p == Position(q, t)
       IN  \E m \in 1 .. p - 1 :
             q[m].tid = u /\ (m = p - 1 \/ ~q[p].isReader)

\* hasCycle misses no deadlock: no group of workers each of which waits for
\* another of the group, which would poll in rwlock for ever.
NoUndetectedDeadlock ==
    \A S \in (SUBSET Workers) \ {{}} :
        \E t \in S : \A u \in S : ~WaitsFor(t, u)

\* A wait in rwlock ends: the lock is granted in the end.
WaitEnds == \A t \in Workers : pc[t] = "yield" ~> pc[t] = "read"

\* If transactions are sacrificed to deadlocks only finitely often, the E
\* commits are made and every worker ends.
WorkersTerminate ==
    <>[](\A t \in Workers : pc[t] # "deadlock") => <>AllDone
-----------------------------------------------------------------------------
(* The inductive invariant behind the safety properties: how the place of a *)
(* worker determines what it holds, what it has read, and who owns the      *)
(* mutex.                                                                   *)

\* The mutex is owned by the one worker inside a critical section.
MutexInv ==
    \A t \in Workers :
        mutex = t <=> pc[t] \in {"request", "poll", "commit", "rollback"}

\* The tokens of a worker are those of the first records of its pick, as many
\* as it has asked for; the records it has read are a prefix of them.  The
\* first one, read-locked, is never updated.
Progress(t) ==
    /\ IF Active(t) THEN pick[t] \in Picks ELSE adj[t] = <<>> /\ stage[t] = 1
    /\ pc[t] \in {"enter", "request"} => Len(adj[t]) = stage[t] - 1
    /\ pc[t] \in {"yield", "poll", "read", "update", "finish", "commit", "rollback"} =>
         Len(adj[t]) = stage[t]
    /\ pc[t] \in {"enter", "request", "yield", "poll", "read"} =>
         Len(records[t]) = stage[t] - 1
    /\ pc[t] \in {"update", "finish", "commit"} => Len(records[t]) = stage[t]
    /\ pc[t] = "rollback" => Len(records[t]) \in {stage[t] - 1, stage[t]}
    /\ pc[t] = "update" => stage[t] # 1
    /\ pc[t] \in {"finish", "commit"} => stage[t] = 3
    /\ \A n \in DOMAIN adj[t] : adj[t][n] = pick[t][n]
    /\ Active(t) => \A n \in DOMAIN records[t] :
                      /\ records[t][n].index = pick[t][n]
                      /\ records[t][n].isUpdated => n # 1

ProgressInv == \A t \in Workers : Progress(t)

\* In the queue of its n-th record a worker has a reader element iff n is 1,
\* and the element has passed once the record is being or has been read.
Elements(t) ==
    \A n \in DOMAIN adj[t] :
        LET q == threadQueue[adj[t][n]]
        IN  /\ Writes(q, t) <=> n # 1
            /\ (n <= Len(records[t]) \/ pc[t] = "read") => Passed(q, t)

ElementsInv == \A t \in Workers : Elements(t)

LockInv ==
    /\ TypeOK
    /\ HoldersExclude
    /\ TokensMatchQueues
    /\ MutexInv
    /\ ProgressInv
    /\ ElementsInv
    /\ ReadsRemainCurrent

\* Nobody queues behind an element that was refused, because its worker keeps
\* the mutex until the element is gone.
RefusedLast ==
    \A t \in Workers : pc[t] = "rollback" =>
        \A r \in Records : \A p \in DOMAIN threadQueue[r] :
            threadQueue[r][p].tid = t /\ threadQueue[r][p].isBlocked =>
                p = Len(threadQueue[r])

\* The inductive invariant behind the deadlock detection.
DeadlockInv == LockInv /\ RefusedLast /\ NoUndetectedDeadlock
=============================================================================
