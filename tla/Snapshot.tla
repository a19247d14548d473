------------------------------- MODULE Snapshot -------------------------------
(****************************************************************************)
(* project3: N threads update a snapshot object for as long as main lets    *)
(* them.  Thread t owns registers[t], a stamped value with the result of a  *)
(* scan embedded in it.  A register is read and written by one atomic       *)
(* access, and each access is a step.                                       *)
(*                                                                          *)
(* pc is the place of a thread:                                             *)
(*   unborn    not created yet                                              *)
(*   entry     before threadStatus = 1                                      *)
(*   spin      in the loop of entryPoint                                    *)
(*   check     before the test of doWork's loop                             *)
(*   scan      inside scan()                                                *)
(*   store     scan() has returned, before the store of update()            *)
(*   count     before ++numExecutions                                       *)
(*   ended     the thread function has returned                             *)
(* and <<mainDoes, mainIndex>> is the place of main.                        *)
(****************************************************************************)
EXTENDS Integers, FiniteSets, SequencesExt

CONSTANTS N,            \* the number of threads, and of registers
          MaxUpdates    \* bound of the model: updates of all threads

ASSUME NAssumption == N \in Nat \ {0}
ASSUME MaxUpdatesAssumption == MaxUpdates \in Nat

Threads == 1 .. N

VARIABLES registers,                      \* Snapshot
          pc, old, fresh, moved, result,  \* locals of update() and scan()
          threadStatus, numExecutions,    \* WorkerThread
          mainDoes, mainIndex, numUpdates \* main()

\* History: every state of the array so far; where in it the scan of a thread
\* began; how many collects the scan has finished.
VARIABLES log, began, collects

scanVars == <<old, fresh, moved, began, collects>>
workerVars == <<threadStatus, numExecutions>>
mainVars == <<mainDoes, mainIndex, numUpdates>>
vars == <<registers, pc, result, scanVars, workerVars, mainVars, log>>

\* What rand() returns is only stored and compared with nothing: a value is
\* the number of the update that stored it, which tells any two apart.
Value == 0 .. MaxUpdates

NoSnap == <<>>     \* the null pointer
Snap == [Threads -> Value]

StampedValue == [stamp : Nat, value : Value, snap : Snap \union {NoSnap}]

TypeOK ==
    /\ registers \in [Threads -> StampedValue]
    /\ pc \in [Threads -> {"unborn", "entry", "spin", "check", "scan", "store",
                           "count", "ended"}]
    /\ old \in [Threads -> Seq(StampedValue)]
    /\ fresh \in [Threads -> Seq(StampedValue)]
    /\ \A t \in Threads : Len(old[t]) \in {0, N} /\ Len(fresh[t]) \in 0 .. N - 1
    /\ moved \in [Threads -> SUBSET Threads]
    /\ result \in [Threads -> Snap \union {NoSnap}]
    /\ threadStatus \in [Threads -> 0 .. 3]
    /\ numExecutions \in [Threads -> 0 .. MaxUpdates]
    /\ mainDoes \in {"create", "await", "work", "terminate", "join", "exit"}
    /\ mainIndex \in Threads
    /\ numUpdates \in Nat
    /\ log \in Seq(Snap) \ {<<>>}
    /\ began \in [Threads -> Nat \ {0}]
    /\ collects \in [Threads -> Nat]

Values(copy) == [i \in Threads |-> copy[i].value]

\* Fault: scan() does not clear its flags, and they are set.
MovedUninitialised == Threads

NotMoved == {}

Init ==
    /\ registers = [t \in Threads |-> [stamp |-> 0, value |-> 0, snap |-> NoSnap]]
    /\ pc = [t \in Threads |-> "unborn"]
    /\ old = [t \in Threads |-> <<>>]
    /\ fresh = [t \in Threads |-> <<>>]
    /\ moved = [t \in Threads |-> NotMoved]
    /\ result = [t \in Threads |-> NoSnap]
    /\ threadStatus = [t \in Threads |-> 0]
    /\ numExecutions = [t \in Threads |-> 0]
    /\ mainDoes = "create"
    /\ mainIndex = 1
    /\ numUpdates = 0
    /\ log = <<Values(registers)>>
    /\ began = [t \in Threads |-> 1]
    /\ collects = [t \in Threads |-> 0]

Goto(t, place) == pc' = [pc EXCEPT ![t] = place]

-----------------------------------------------------------------------------
(* scan() *)

\* The copy of collect(), with the register read in this step.
Copy(t) == Append(fresh[t], registers[Len(fresh[t]) + 1])

\* A read of collect() that is not its last.
Collect(t) ==
    /\ pc[t] = "scan"
    /\ Len(fresh[t]) < N - 1
    /\ fresh' = [fresh EXCEPT ![t] = Copy(t)]
    /\ UNCHANGED <<registers, pc, result, old, moved, began, collects, workerVars,
                   mainVars, log>>

\* The last read of collect() takes with it what scan() does next.
LastRead(t) == pc[t] = "scan" /\ Len(fresh[t]) = N - 1

\* Fault: the last register is not compared.
ChangedButLast(t) == {i \in 1 .. N - 1 : old[t][i].stamp # Copy(t)[i].stamp}

\* The registers whose stamps differ between the two copies.
Changed(t) == {i \in Threads : old[t][i].stamp # Copy(t)[i].stamp}

\* Both copies are there, and they differ first at i.
DiffersFirstAt(t, i) ==
    /\ LastRead(t)
    /\ old[t] # <<>>
    /\ i \in Changed(t)
    /\ \A h \in Changed(t) : i <= h

Agrees(t) == LastRead(t) /\ old[t] # <<>> /\ Changed(t) = {}

\* The copy becomes oldCopy, and the next collect begins.
Recollect(t) ==
    /\ old' = [old EXCEPT ![t] = Copy(t)]
    /\ fresh' = [fresh EXCEPT ![t] = <<>>]
    /\ collects' = [collects EXCEPT ![t] = @ + 1]
    /\ UNCHANGED <<registers, pc, result, began, workerVars, mainVars, log>>

FirstCollect(t) ==
    LastRead(t) /\ old[t] = <<>> /\ Recollect(t) /\ UNCHANGED moved

\* Fault: a change is not remembered.
RetryForgets(t, i) ==
    DiffersFirstAt(t, i) /\ i \notin moved[t] /\ Recollect(t) /\ UNCHANGED moved

\* i changed for the first time
Retry(t, i) ==
    /\ DiffersFirstAt(t, i)
    /\ i \notin moved[t]
    /\ moved' = [moved EXCEPT ![t] = @ \union {i}]
    /\ Recollect(t)

\* The locals of scan() are gone.
ReturnFromScan(t, snap) ==
    /\ result' = [result EXCEPT ![t] = snap]
    /\ old' = [old EXCEPT ![t] = <<>>]
    /\ fresh' = [fresh EXCEPT ![t] = <<>>]
    /\ moved' = [moved EXCEPT ![t] = NotMoved]
    /\ collects' = [collects EXCEPT ![t] = 0]
    /\ Goto(t, "store")
    /\ UNCHANGED <<registers, began, workerVars, mainVars, log>>

\* i changed for the second time: copy the snapshot of the older value
Borrow(t, i) ==
    /\ DiffersFirstAt(t, i)
    /\ i \in moved[t]
    /\ ReturnFromScan(t, old[t][i].snap)

\* a clean double collect
ReturnValues(t) == Agrees(t) /\ ReturnFromScan(t, Values(Copy(t)))

-----------------------------------------------------------------------------
(* update() and the worker thread *)

\* Fault: the stamp stays as it is.
StoreUnstamped(t) ==
    /\ pc[t] = "store"
    /\ registers' = [registers EXCEPT ![t].value = numExecutions[t] + 1,
                                      ![t].snap = result[t]]
    /\ log' = Append(log, Values(registers'))
    /\ result' = [result EXCEPT ![t] = NoSnap]
    /\ Goto(t, "count")
    /\ UNCHANGED <<scanVars, workerVars, mainVars>>

\* Only t stores to registers[t], so its load there is no step of its own.
Store(t) ==
    /\ pc[t] = "store"
    /\ registers' = [registers EXCEPT ![t] =
                       [stamp |-> @.stamp + 1, value |-> numExecutions[t] + 1,
                        snap |-> result[t]]]
    /\ log' = Append(log, Values(registers'))
    /\ result' = [result EXCEPT ![t] = NoSnap]
    /\ Goto(t, "count")
    /\ UNCHANGED <<scanVars, workerVars, mainVars>>

Count(t) ==
    /\ pc[t] = "count"
    /\ numExecutions' = [numExecutions EXCEPT ![t] = @ + 1]
    /\ Goto(t, "check")
    /\ UNCHANGED <<registers, result, scanVars, threadStatus, mainVars, log>>

Entry(t) ==
    /\ pc[t] = "entry"
    /\ threadStatus' = [threadStatus EXCEPT ![t] = 1]
    /\ Goto(t, "spin")
    /\ UNCHANGED <<registers, result, scanVars, numExecutions, mainVars, log>>

StartWork(t) ==
    /\ pc[t] = "spin"
    /\ threadStatus[t] # 1
    /\ Goto(t, "check")
    /\ UNCHANGED <<registers, result, scanVars, workerVars, mainVars, log>>

UnderWay == {t \in Threads : pc[t] \in {"scan", "store"}}

\* doWork goes on: update() begins with a scan
BeginUpdate(t) ==
    /\ pc[t] = "check"
    /\ threadStatus[t] = 2
    /\ Len(log) + Cardinality(UnderWay) <= MaxUpdates
    /\ began' = [began EXCEPT ![t] = Len(log)]
    /\ Goto(t, "scan")
    /\ UNCHANGED <<registers, result, old, fresh, moved, collects, workerVars,
                   mainVars, log>>

EndWork(t) ==
    /\ pc[t] = "check"
    /\ threadStatus[t] # 2
    /\ Goto(t, "ended")
    /\ UNCHANGED <<registers, result, scanVars, workerVars, mainVars, log>>

ThreadStep(t) ==
    \/ Entry(t) \/ StartWork(t) \/ BeginUpdate(t) \/ EndWork(t)
    \/ Collect(t) \/ FirstCollect(t) \/ ReturnValues(t)
    \/ \E i \in Threads : Retry(t, i) \/ Borrow(t, i)
    \/ Store(t) \/ Count(t)

-----------------------------------------------------------------------------
(* main() *)

\* Fault: main's loops go one too far.
AdvanceTooFar(here, next) ==
    IF mainIndex <= N THEN mainDoes' = here /\ mainIndex' = mainIndex + 1
                      ELSE mainDoes' = next /\ mainIndex' = 1

\* main goes on with the next thread, or begins the next phase with the first.
Advance(here, next) ==
    IF mainIndex < N THEN mainDoes' = here /\ mainIndex' = mainIndex + 1
                     ELSE mainDoes' = next /\ mainIndex' = 1

Create ==
    /\ mainDoes = "create"
    /\ Goto(mainIndex, "entry")
    /\ mainDoes' = "await"
    /\ UNCHANGED <<registers, result, scanVars, workerVars, mainIndex, numUpdates, log>>

\* Fault: the constructor does not wait for the thread.
AwaitNothing ==
    /\ mainDoes = "await"
    /\ Advance("create", "work")
    /\ UNCHANGED <<registers, pc, result, scanVars, workerVars, numUpdates, log>>

\* the end of the constructor
Await ==
    /\ mainDoes = "await"
    /\ threadStatus[mainIndex] # 0
    /\ Advance("create", "work")
    /\ UNCHANGED <<registers, pc, result, scanVars, workerVars, numUpdates, log>>

Work ==
    /\ mainDoes = "work"
    /\ threadStatus' = [threadStatus EXCEPT ![mainIndex] = 2]
    /\ Advance("work", "terminate")
    /\ UNCHANGED <<registers, pc, result, scanVars, numExecutions, numUpdates, log>>

\* after the sleep, or after the previous thread has been joined
Terminate ==
    /\ mainDoes = "terminate"
    /\ threadStatus' = [threadStatus EXCEPT ![mainIndex] = 3]
    /\ mainDoes' = "join"
    /\ UNCHANGED <<registers, pc, result, scanVars, numExecutions, mainIndex,
                   numUpdates, log>>

\* Fault: the thread is not joined.
JoinNothing ==
    /\ mainDoes = "join"
    /\ numUpdates' = numUpdates + numExecutions[mainIndex]
    /\ Advance("terminate", "exit")
    /\ UNCHANGED <<registers, pc, result, scanVars, workerVars, log>>

Join ==
    /\ mainDoes = "join"
    /\ pc[mainIndex] = "ended"
    /\ numUpdates' = numUpdates + numExecutions[mainIndex]
    /\ Advance("terminate", "exit")
    /\ UNCHANGED <<registers, pc, result, scanVars, workerVars, log>>

MainStep == Create \/ Await \/ Work \/ Terminate \/ Join

Exited == mainDoes = "exit" /\ UNCHANGED vars

Next == (\E t \in Threads : ThreadStep(t)) \/ MainStep \/ Exited

Spec == Init /\ [][Next]_vars

\* Every thread and main are scheduled again and again; nothing in project3
\* blocks but the spinning on threadStatus and the join.
Fairness == WF_vars(MainStep) /\ \A t \in Threads : WF_vars(ThreadStep(t))

FairSpec == Spec /\ Fairness

-----------------------------------------------------------------------------
(* Properties. *)

\* Every result of scan(), whether it is about to be stored or is embedded in
\* a register, is a state that the whole array had at one instant, although
\* scan() reads the registers one by one and may borrow its result.
SnapshotsReal ==
    \A t \in Threads :
        {result[t], registers[t].snap} \ {NoSnap} \subseteq ToSet(log)

\* When two collects agree in every stamp, the values of the second are a
\* state that the array had since this scan began.
CleanCollectIsCurrent ==
    \A t \in Threads : Agrees(t) =>
        \E n \in began[t] .. Len(log) : log[n] = Values(Copy(t))

\* A borrowed snapshot is that of an update that stored after this scan began;
\* in particular it exists, the null snap of an initial value is never copied.
\* (That update may have scanned long before, though: the borrowed snapshot
\* need not be a state that the array had since this scan began.)
BorrowsOverlap ==
    \A t, i \in Threads :
        DiffersFirstAt(t, i) /\ i \in moved[t] =>
            /\ old[t][i].snap # NoSnap
            /\ log[began[t]][i] < old[t][i].value

\* scan() is wait-free: however often the others update, it ends with its
\* (N + 1)st collect at the latest, since its own register stands still.
WaitFree == \A t \in Threads : collects[t] <= N

\* A value that register i has, or had and a scan has copied: one with a stamp
\* has a snapshot, and that is a state the array had.
StoredIn(i, stamped) ==
    /\ stamped.stamp = stamped.value /\ stamped.value <= registers[i].value
    /\ stamped.snap = NoSnap <=> stamped.value = 0
    /\ stamped.snap \in ToSet(log) \union {NoSnap}

\* The log ends with the array as it is, and no register ever goes back.
LogInv ==
    /\ log[Len(log)] = Values(registers)
    /\ \A m, n \in 1 .. Len(log) : m <= n => \A i \in Threads : log[m][i] <= log[n][i]
    /\ Len(log) + Cardinality(UnderWay) <= MaxUpdates + 1

RegisterOK(t) ==
    /\ StoredIn(t, registers[t])
    /\ registers[t].value = numExecutions[t] + (IF pc[t] = "count" THEN 1 ELSE 0)
    /\ registers[t].value < Len(log)

\* The n-th state of the array lies between the collects of t: the registers
\* had come so far at least when fresh read them, and old had not read more.
Between(t, n) ==
    /\ \A i \in 1 .. Len(fresh[t]) : log[n][i] <= fresh[t][i].value
    /\ \A i \in 1 .. Len(old[t]) :
         log[began[t]][i] <= old[t][i].value /\ old[t][i].value <= log[n][i]

\* The copies of a scan, and those of its own register, which stands still.
CopiesOK(t) ==
    /\ \A i \in 1 .. Len(old[t]) : StoredIn(i, old[t][i])
    /\ \A i \in 1 .. Len(fresh[t]) : StoredIn(i, fresh[t][i])
    /\ t \in 1 .. Len(old[t]) => old[t][t].value = registers[t].value
    /\ t \in 1 .. Len(fresh[t]) => fresh[t][t].value = registers[t].value

\* The registers in moved have moved since the scan began, one per collect but
\* the first.
MovedOK(t) ==
    /\ t \notin moved[t]
    /\ \A i \in moved[t] : old[t] # <<>> /\ log[began[t]][i] < old[t][i].value
    /\ collects[t] = Cardinality(moved[t]) + (IF old[t] = <<>> THEN 0 ELSE 1)

ScanOK(t) ==
    /\ pc[t] = "scan" => \E n \in began[t] .. Len(log) : Between(t, n)
    /\ pc[t] # "scan" => old[t] = <<>> /\ fresh[t] = <<>> /\ moved[t] = {}
    /\ CopiesOK(t) /\ MovedOK(t)
    /\ result[t] = NoSnap <=> pc[t] # "store"
    /\ result[t] \in ToSet(log) \union {NoSnap}

\* A thread that main has not created yet has not begun.
UnbornInv ==
    /\ mainDoes = "create" => \A t \in mainIndex .. N : pc[t] = "unborn"
    /\ mainDoes = "await" => \A t \in mainIndex + 1 .. N : pc[t] = "unborn"

ScanInv ==
    /\ TypeOK /\ LogInv /\ UnbornInv
    /\ \A t \in Threads : RegisterOK(t) /\ ScanOK(t)

\* The updates that the threads of S have stored: the n-th of t is <<t, n>>.
Updates(S) == {u \in S \X (1 .. MaxUpdates) : u[2] <= registers[u[1]].value}

\* The threads that main has joined.
Joined == {t \in Threads : \/ mainDoes \in {"terminate", "join"} /\ t < mainIndex
                           \/ mainDoes = "exit"}

\* Each update is one more state of the array, and main has added up those of
\* the threads that have ended for it.
SumInv ==
    /\ Len(log) = Cardinality(Updates(Threads)) + 1
    /\ \A t \in Joined : pc[t] = "ended"
    /\ numUpdates = Cardinality(Updates(Joined))

\* The inductive invariant.
SnapshotInv == ScanInv /\ SumInv

\* What main prints is the number of all updates: no update is under way or
\* uncounted when the counters are summed up.
UpdatesCounted == mainDoes = "exit" => numUpdates = Len(log) - 1

\* main gets through: every constructor returns, and every thread ends when it
\* is told to.
MainExits == <>(mainDoes = "exit")
=============================================================================
