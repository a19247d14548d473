-------------------------------- MODULE InitPool --------------------------------
(****************************************************************************)
(* project4's patch of InnoDB: the chunks of every buffer-pool instance are *)
(* initialised by a pool of threads.  For each instance the main thread     *)
(* deals out the chunks, sets the event curr_task and waits for end_task,   *)
(* which the last thread to count itself in n_executions sets.  A thread    *)
(* that has counted itself waits for next_task; the main thread swaps the   *)
(* two events between instances, whether or not the thread has come to its  *)
(* wait.                                                                    *)
(*                                                                          *)
(* A thread the swap has overtaken reads the wrong event, and then anything *)
(* the program has: it may hang, work again at a task that is over, or work *)
(* while the main thread deals out the next one.  The history variable      *)
(* overtaken records that it has happened.  Until it has, threads and main  *)
(* thread never touch the same data at once; afterwards they may, and the   *)
(* model, whose steps are whole loop bodies, shows some of what comes of    *)
(* it: enough to see that the promises are broken, and none is claimed.     *)
(*                                                                          *)
(* pc of a thread:  start   before the first wait                           *)
(*                  waiting in os_event_wait                                *)
(*                  chunk   in the loop over its chunks                     *)
(*                  count, signal   the two halves of counting itself, and  *)
(*                          setting end_task if it is the last              *)
(*                  next    before it reads next_task                       *)
(*                  countout, signalout   the same after the loop           *)
(*                  exited                                                  *)
(****************************************************************************)
EXTENDS Integers, Sequences, FiniteSets, Functions

CONSTANTS
    NumThreads,       \* n_threads: the processors of the machine
    NumInstances,     \* n_instances
    MaxChunks         \* bound: an instance has 1 .. MaxChunks chunks

ASSUME NumThreadsAssumption == NumThreads \in Nat \ {0}
ASSUME NumInstancesAssumption == NumInstances \in Nat \ {0}
ASSUME MaxChunksAssumption == MaxChunks \in Nat \ {0}

Workers == 1 .. NumThreads
Main == 0
Instances == 1 .. NumInstances
Chunks == 1 .. MaxChunks      \* <<n, c>> is chunk c of instance n
Events == {"A", "B", "end_task"}
Often == 2                    \* bound: made does not tell more often apart

VARIABLES
    isset, waiters,                        \* the events
    curr_task, next_task, n_executions, bpi_finished, task_error,   \* bpi_task
    buf_pool,                              \* its instance, where chunk_ptr points
    n_chunks, chunk_ptr, init_n_chunks,    \* thread_info
    free, rw_locks,                        \* thread_info's lists, of chunks
    pc, i, chunk, old,                     \* the threads
    mpc, instance, result,                 \* the main thread
    pool_chunks,                           \* buf_pool->n_chunks
    made,                                  \* how often a chunk is initialised
    pool_free, curr_size, rw_lock_list,    \* the pools' lists, the global list
    overtaken                              \* history: a swap has overtaken a thread

events == <<isset, waiters>>
task == <<curr_task, next_task, n_executions, bpi_finished, task_error,
          buf_pool>>
info == <<n_chunks, chunk_ptr, init_n_chunks, free, rw_locks>>
threads == <<pc, i, chunk, old>>
main == <<mpc, instance, result, pool_chunks>>
pools == <<made, pool_free, curr_size, rw_lock_list>>
vars == <<events, task, info, threads, main, pools, overtaken>>

\* The types of what the threads and the main thread synchronise with.  (What
\* they compute is the matter of DataInv.)
TypeOK ==
    /\ isset \in [Events -> BOOLEAN]
    /\ waiters \in [Events -> SUBSET (Workers \union {Main})]
    /\ {curr_task, next_task} = {"A", "B"}
    /\ n_executions \in 0 .. NumThreads
    /\ bpi_finished \in BOOLEAN
    /\ pc \in [Workers -> {"start", "waiting", "chunk", "count", "signal", "next",
                           "countout", "signalout", "exited"}]
    /\ old \in [Workers -> 0 .. NumThreads]
    /\ mpc \in {"prepare", "set", "await", "awaiting", "zero", "swap", "resetnext",
                "resetend", "end", "setlast", "awaitlast", "awaitinglast", "returned"}
    /\ instance \in Instances
    /\ overtaken \in BOOLEAN

\* buf_pool_thread_init has created the events and the threads.
Init ==
    /\ isset = [e \in Events |-> FALSE]
    /\ waiters = [e \in Events |-> {}]
    /\ curr_task = "A" /\ next_task = "B"
    /\ n_executions = 0
    /\ bpi_finished = FALSE /\ task_error = FALSE
    /\ buf_pool = 1
    /\ n_chunks = [w \in Workers |-> 0]
    /\ chunk_ptr = [w \in Workers |-> 1]
    /\ init_n_chunks = [w \in Workers |-> 0]
    /\ free = [w \in Workers |-> <<>>]
    /\ rw_locks = [w \in Workers |-> {}]
    /\ pc = [w \in Workers |-> "start"]
    /\ i = [w \in Workers |-> 0]
    /\ chunk = [w \in Workers |-> <<1, 1>>]
    /\ old = [w \in Workers |-> 0]
    /\ mpc = "prepare" /\ instance = 1 /\ result = "DB_SUCCESS"
    /\ pool_chunks \in Chunks
    /\ made = [n \in Instances |-> [c \in Chunks |-> 0]]
    /\ pool_free = [n \in Instances |-> <<>>]
    /\ curr_size = [n \in Instances |-> 0]
    /\ rw_lock_list = {}
    /\ overtaken = FALSE

Goto(w, place) == pc' = [pc EXCEPT ![w] = place]

-----------------------------------------------------------------------------
(* os_event: a waiter passes if the event is set when it comes, or is set   *)
(* while it waits, even if the event is reset before the waiter runs.       *)

EnterWait(t, e) ==
    waiters' = IF isset[e] THEN waiters ELSE [waiters EXCEPT ![e] = @ \union {t}]
Woken(t) == \A e \in Events : t \notin waiters[e]

SetEvent(e) ==
    /\ isset' = [isset EXCEPT ![e] = TRUE]
    /\ waiters' = [waiters EXCEPT ![e] = {}]
ResetEvent(e) == isset' = [isset EXCEPT ![e] = FALSE]

-----------------------------------------------------------------------------
(* buf_chunk_init_thread *)

FirstWait(w) ==
    /\ pc[w] = "start"
    /\ EnterWait(w, curr_task)
    /\ Goto(w, "waiting")
    /\ UNCHANGED <<isset, task, info, i, chunk, old, main, pools, overtaken>>

StartTask(w) ==
    /\ pc[w] = "waiting" /\ Woken(w)
    /\ ~ bpi_finished
    /\ i' = [i EXCEPT ![w] = 0]
    /\ chunk' = [chunk EXCEPT ![w] = <<buf_pool, chunk_ptr[w]>>]
    /\ free' = [free EXCEPT ![w] = <<>>]
    /\ rw_locks' = [rw_locks EXCEPT ![w] = {}]
    /\ Goto(w, "chunk")
    /\ UNCHANGED <<events, task, n_chunks, chunk_ptr, init_n_chunks, old, main, pools,
                   overtaken>>

InitChunk(w) ==
    LET n == chunk[w][1]  c == chunk[w][2] IN
    /\ pc[w] = "chunk"
    /\ i[w] < n_chunks[w]
    /\ made' = [made EXCEPT ![n][c] = IF @ < Often THEN @ + 1 ELSE @]
    /\ free' = [free EXCEPT ![w] = Append(@, chunk[w])]
    /\ rw_locks' = [rw_locks EXCEPT ![w] = @ \union {chunk[w]}]
    /\ i' = [i EXCEPT ![w] = @ + 1]
    /\ chunk' = [chunk EXCEPT ![w] = <<n, c + 1>>]
    /\ UNCHANGED <<events, task, n_chunks, chunk_ptr, init_n_chunks, pc, old, main,
                   pool_free, curr_size, rw_lock_list, overtaken>>

\* The thread leaves the loop over its chunks.
LeaveChunks(w, initialised) ==
    /\ init_n_chunks' = [init_n_chunks EXCEPT ![w] = initialised]
    /\ Goto(w, "count")
    /\ UNCHANGED <<events, curr_task, next_task, n_executions, bpi_finished, buf_pool,
                   n_chunks, chunk_ptr, free, rw_locks, i, chunk, old, main, pools,
                   overtaken>>

\* Fault: the thread does not note how many chunks it had before the one that
\* failed.
InitChunkFailsUnnoted(w) ==
    /\ pc[w] = "chunk"
    /\ i[w] < n_chunks[w]
    /\ task_error' = TRUE
    /\ LeaveChunks(w, init_n_chunks[w])

InitChunkFails(w) ==
    /\ pc[w] = "chunk"
    /\ i[w] < n_chunks[w]
    /\ task_error' = TRUE
    /\ LeaveChunks(w, i[w])

\* n_chunks is read again for every chunk: a thread overtaken in the loop may
\* find it changed
EndChunks(w) ==
    /\ pc[w] = "chunk"
    /\ i[w] >= n_chunks[w]
    /\ LeaveChunks(w, i[w])
    /\ UNCHANGED task_error

\* my_atomic_add32 returns the value before the addition.  Only NumThreads - 1
\* matters, so the counter saturates at NumThreads.
Count(w, from, to) ==
    /\ pc[w] = from
    /\ n_executions' = IF n_executions < NumThreads THEN n_executions + 1
                       ELSE n_executions
    /\ old' = [old EXCEPT ![w] = n_executions]
    /\ Goto(w, to)
    /\ UNCHANGED <<events, curr_task, next_task, bpi_finished, task_error, buf_pool,
                   info, i, chunk, main, pools, overtaken>>

\* The thread reads bpi_task->n_threads after it has counted itself: when
\* bpi_task is freed, it may find anything there.
IsLast(w) == IF mpc = "returned" THEN BOOLEAN ELSE {old[w] = NumThreads - 1}

Signal(w, from, to) ==
    /\ pc[w] = from
    /\ \E last \in IsLast(w) :
         IF last THEN SetEvent("end_task") ELSE UNCHANGED events
    /\ Goto(w, to)
    /\ UNCHANGED <<task, info, i, chunk, old, main, pools, overtaken>>

CountTask(w) == Count(w, "count", "signal")
SignalTask(w) == Signal(w, "signal", "next")

WaitNext(w) ==
    /\ pc[w] = "next"
    /\ EnterWait(w, next_task)
    /\ Goto(w, "waiting")
    /\ UNCHANGED <<isset, task, info, i, chunk, old, main, pools, overtaken>>

LeaveLoop(w) ==
    /\ pc[w] = "waiting" /\ Woken(w)
    /\ bpi_finished
    /\ Goto(w, "countout")
    /\ UNCHANGED <<events, task, info, i, chunk, old, main, pools, overtaken>>

CountOut(w) == Count(w, "countout", "signalout")
SignalOut(w) == Signal(w, "signalout", "exited")

-----------------------------------------------------------------------------
(* buf_pool_init_instance.  What it reads of a chunk is which thread's list *)
(* it is in.                                                                *)

MainGoto(place) == mpc' = place

Share(w) == (pool_chunks \div NumThreads)
    + (IF w - 1 < pool_chunks % NumThreads THEN 1 ELSE 0)

FirstChunk[w \in Workers] == IF w = 1 THEN 1 ELSE FirstChunk[w - 1] + Share(w - 1)

Prepare ==
    /\ mpc = "prepare"
    /\ buf_pool' = instance
    /\ n_chunks' = [w \in Workers |-> Share(w)]
    /\ chunk_ptr' = [w \in Workers |-> FirstChunk[w]]
    /\ MainGoto("set")
    /\ UNCHANGED <<events, curr_task, next_task, n_executions, bpi_finished, task_error,
                   init_n_chunks, free, rw_locks, threads, instance, result,
                   pool_chunks, pools, overtaken>>

SetTask ==
    /\ mpc = "set"
    /\ SetEvent(curr_task)
    /\ MainGoto("await")
    /\ UNCHANGED <<task, info, threads, instance, result, pool_chunks, pools, overtaken>>

AwaitEnd(from, to) ==
    /\ mpc = from
    /\ EnterWait(Main, "end_task")
    /\ MainGoto(to)
    /\ UNCHANGED <<isset, task, info, threads, instance, result, pool_chunks, pools,
                   overtaken>>

AwaitTask == AwaitEnd("await", "awaiting")

\* UT_LIST_MERGE of the threads' lists, in their order, into the pool's list.
Merged[w \in 0 .. NumThreads] == IF w = 0 THEN <<>> ELSE Merged[w - 1] \o free[w]

Merge ==
    /\ mpc = "awaiting" /\ Woken(Main)
    /\ ~ task_error
    /\ pool_free' = [pool_free EXCEPT ![instance] = @ \o Merged[NumThreads]]
    /\ rw_lock_list' = rw_lock_list \union UNION {rw_locks[w] : w \in Workers}
    /\ free' = [w \in Workers |-> <<>>]
    /\ rw_locks' = [w \in Workers |-> {}]
    /\ curr_size' = [curr_size EXCEPT ![instance] = @ + FoldFunction(+, 0, i)]
    /\ MainGoto("zero")
    /\ UNCHANGED <<events, task, n_chunks, chunk_ptr, init_n_chunks, threads,
                   instance, result, pool_chunks, made, overtaken>>

\* The chunks the threads have initialised in this task.
Initialised == {instance} \X
    UNION {chunk_ptr[w] .. chunk_ptr[w] + init_n_chunks[w] - 1 : w \in Workers}

\* Everything this instance and, by buf_pool_free, the earlier ones have.
Undo ==
    /\ mpc = "awaiting" /\ Woken(Main)
    /\ task_error
    /\ made' = [n \in Instances |-> [c \in Chunks |->
                  IF n < instance THEN 0
                  ELSE IF <<n, c>> \in Initialised /\ made[n][c] > 0 THEN made[n][c] - 1
                  ELSE made[n][c]]]
    /\ rw_locks' = [w \in Workers |-> rw_locks[w] \ Initialised]
    /\ rw_lock_list' = {l \in rw_lock_list : l[1] >= instance}
    /\ pool_free' = [n \in Instances |-> IF n < instance THEN <<>> ELSE pool_free[n]]
    /\ curr_size' = [n \in Instances |-> IF n < instance THEN 0 ELSE curr_size[n]]
    /\ result' = "DB_ERROR"
    /\ MainGoto("zero")
    /\ UNCHANGED <<events, task, n_chunks, chunk_ptr, init_n_chunks, free, threads,
                   instance, pool_chunks, overtaken>>

-----------------------------------------------------------------------------
(* buf_pool_thread_reset *)

\* Fault: the counter goes on from the last task.
ZeroNothing ==
    /\ mpc = "zero"
    /\ MainGoto("swap")
    /\ UNCHANGED <<events, task, info, threads, instance, result, pool_chunks, pools,
                   overtaken>>

ZeroExecutions ==
    /\ mpc = "zero"
    /\ n_executions' = 0
    /\ MainGoto("swap")
    /\ UNCHANGED <<events, curr_task, next_task, bpi_finished, task_error, buf_pool,
                   info, threads, instance, result, pool_chunks, pools, overtaken>>

SwapTasks ==
    /\ mpc = "swap"
    /\ curr_task' = next_task /\ next_task' = curr_task
    /\ overtaken' = (overtaken \/ \E w \in Workers : pc[w] # "waiting")
    /\ MainGoto("resetnext")
    /\ UNCHANGED <<events, n_executions, bpi_finished, task_error, buf_pool,
                   info, threads, instance, result, pool_chunks, pools>>

\* Fault: the event of the last task stays set.
ResetNothing ==
    /\ mpc = "resetnext"
    /\ MainGoto("resetend")
    /\ UNCHANGED <<events, task, info, threads, instance, result, pool_chunks, pools,
                   overtaken>>

ResetNext ==
    /\ mpc = "resetnext"
    /\ ResetEvent(next_task)
    /\ MainGoto("resetend")
    /\ UNCHANGED <<waiters, task, info, threads, instance, result, pool_chunks, pools,
                   overtaken>>

\* buf_pool_init goes on to the next instance, or to buf_pool_thread_end
ResetEnd ==
    /\ mpc = "resetend"
    /\ ResetEvent("end_task")
    /\ IF result = "DB_ERROR" \/ instance = NumInstances
       THEN MainGoto("end") /\ UNCHANGED instance
       ELSE MainGoto("prepare") /\ instance' = instance + 1
    /\ UNCHANGED <<waiters, task, info, threads, result, pool_chunks, pools, overtaken>>

-----------------------------------------------------------------------------
(* buf_pool_thread_end *)

Finish ==
    /\ mpc = "end"
    /\ bpi_finished' = TRUE
    /\ MainGoto("setlast")
    /\ UNCHANGED <<events, curr_task, next_task, n_executions, task_error, buf_pool,
                   info, threads, instance, result, pool_chunks, pools, overtaken>>

SetLast ==
    /\ mpc = "setlast"
    /\ SetEvent(curr_task)
    /\ MainGoto("awaitlast")
    /\ UNCHANGED <<task, info, threads, instance, result, pool_chunks, pools, overtaken>>

AwaitLast == AwaitEnd("awaitlast", "awaitinglast")

\* the events and bpi_task are freed
Return ==
    /\ mpc = "awaitinglast" /\ Woken(Main)
    /\ MainGoto("returned")
    /\ UNCHANGED <<events, task, info, threads, instance, result, pool_chunks, pools,
                   overtaken>>

Terminating ==
    /\ mpc = "returned" /\ \A w \in Workers : pc[w] = "exited"
    /\ UNCHANGED vars

-----------------------------------------------------------------------------
Work(w) ==
    \/ FirstWait(w) \/ StartTask(w) \/ InitChunk(w) \/ InitChunkFails(w) \/ EndChunks(w)
    \/ CountTask(w) \/ SignalTask(w) \/ WaitNext(w)
    \/ LeaveLoop(w) \/ CountOut(w) \/ SignalOut(w)

MainStep ==
    \/ Prepare \/ SetTask \/ AwaitTask \/ Merge \/ Undo
    \/ ZeroExecutions \/ SwapTasks \/ ResetNext \/ ResetEnd
    \/ Finish \/ SetLast \/ AwaitLast \/ Return

Next == (\E w \in Workers : Work(w)) \/ MainStep \/ Terminating

Spec == Init /\ [][Next]_vars

\* A thread that can take a step has a processor again and again; main too.
Fairness == (\A w \in Workers : WF_vars(Work(w))) /\ WF_vars(MainStep)

FairSpec == Spec /\ Fairness

-----------------------------------------------------------------------------
(* Properties. *)

\* The event the main thread sets next.
EventToCome ==
    IF mpc \in {"prepare", "set", "resetnext", "resetend", "end", "setlast"}
    THEN curr_task ELSE next_task

\* A thread waits for the next task: for the event that will be set next, not
\* for the one after it.
WaitsForNextTask ==
    \A w \in Workers : \A e \in Events : w \in waiters[e] => e = EventToCome

\* The main thread has set the event of a round and not swapped it away yet.
Running == mpc \in {"await", "awaiting", "awaitlast", "awaitinglast", "returned"}

EventsInv ==
    /\ \A w \in Workers : \A e \in Events :
         w \in waiters[e] => pc[w] = "waiting" /\ e = EventToCome
    /\ isset[curr_task] <=> Running \/ mpc \in {"zero", "swap"}
    /\ isset[next_task] <=> mpc = "resetnext"
    /\ isset["end_task"] => mpc \notin {"prepare", "set", "end", "setlast"}
    /\ \A e \in Events : Main \in waiters[e] => e = "end_task"
    /\ mpc \in {"awaiting", "awaitinglast"} =>
         Main \in waiters["end_task"] \/ isset["end_task"]

\* The threads that have counted themselves in the round under way.
Counted == {w \in Workers : \/ pc[w] \in {"signal", "next", "signalout", "exited"}
                            \/ \E e \in Events : w \in waiters[e]}

CountInv ==
    /\ Running =>
         /\ n_executions = Cardinality(Counted)
         /\ isset["end_task"] => n_executions = NumThreads
         /\ \A w \in Workers :
              pc[w] \in {"signal", "signalout"} => old[w] < n_executions
    /\ ~ Running /\ mpc # "zero" => n_executions = 0

\* When a round is over, every thread has counted itself, and waits for the event
\* to come or is on its way there; from the swap on it waits for that event (in
\* the first round it may be on its way to its first wait).  When bpi_task is
\* freed, every thread has counted itself out.
PlaceInv ==
    /\ bpi_finished <=> mpc \in {"setlast", "awaitlast", "awaitinglast", "returned"}
    /\ mpc \in {"await", "awaiting"} => \A w \in Workers :
         pc[w] \in {"start", "waiting", "chunk", "count", "signal", "next"}
    /\ mpc \in {"awaitlast", "awaitinglast", "returned"} => \A w \in Workers :
         /\ pc[w] \in {"waiting", "countout", "signalout", "exited"}
         /\ \A e \in Events : w \notin waiters[e]
    /\ ~ Running => \A w \in Workers :
         \/ w \in waiters[EventToCome]
         \/ mpc \in {"zero", "swap"} /\ pc[w] \in {"signal", "next"}
         \/ mpc \in {"prepare", "set"} /\ pc[w] = "start"
    /\ mpc = "returned" => \A w \in Workers : pc[w] \in {"signalout", "exited"}

\* The invariant of the rounds, as long as no thread has been overtaken.
RoundsInv == EventsInv /\ CountInv /\ PlaceInv

\* The types of what the threads and the main thread compute.
DataTypes ==
    /\ task_error \in BOOLEAN
    /\ pool_chunks \in Chunks
    /\ result \in {"DB_SUCCESS", "DB_ERROR"}
    /\ n_chunks \in [Workers -> Nat] /\ chunk_ptr \in [Workers -> Nat]
    /\ init_n_chunks \in [Workers -> Nat] /\ i \in [Workers -> Nat]
    /\ chunk \in [Workers -> Instances \X Nat]
    /\ free \in [Workers -> Seq(Instances \X Nat)]
    /\ rw_locks \in [Workers -> SUBSET (Instances \X Nat)]
    /\ made \in [Instances -> [Chunks -> 0 .. Often]]
    /\ pool_free \in [Instances -> Seq(Instances \X Nat)]
    /\ curr_size \in [Instances -> Nat]

\* The main thread has set the event and not merged yet.
Initialising == mpc \in {"await", "awaiting"}

\* A thread has left its loop over the chunks of this task, or is yet to enter it.
Done(w) == w \in Counted \/ pc[w] = "count"
Fresh(w) == ~ Initialising \/ ~ (pc[w] = "chunk" \/ Done(w))

\* What a thread has initialised in this task.
Got(w) == IF Fresh(w) THEN 0 ELSE i[w]
Mine(w) == FirstChunk[w] .. FirstChunk[w] + Got(w) - 1

\* The threads initialise the chunks dealt to them, from the first on.
ThreadsInv ==
    /\ mpc \in {"set", "await", "awaiting"} =>
         /\ buf_pool = instance
         /\ \A w \in Workers : n_chunks[w] = Share(w) /\ chunk_ptr[w] = FirstChunk[w]
    /\ \A w \in Workers :
         pc[w] = "chunk" => chunk[w] = <<instance, FirstChunk[w] + i[w]>>
    /\ \A w \in Workers : Got(w) <= Share(w)
    /\ result = "DB_SUCCESS" => \A w \in Workers :
         /\ free[w] = [k \in 1 .. Got(w) |-> <<instance, FirstChunk[w] + k - 1>>]
         /\ rw_locks[w] = {instance} \X Mine(w)
    /\ Initialising => \A w \in Workers : Done(w) =>
         init_n_chunks[w] = i[w] /\ (task_error \/ i[w] = Share(w))

\* An instance that has all its chunks.
Complete(n) ==
    /\ pool_free[n] = [c \in 1 .. pool_chunks |-> <<n, c>>]
    /\ curr_size[n] = pool_chunks
    /\ \A c \in Chunks : made[n][c] = (IF c <= pool_chunks THEN 1 ELSE 0)

\* The instances that are complete: those before the present one, and that one
\* from the merge on; none after an error.
BeforeMerge == mpc \in {"prepare", "set", "await", "awaiting"}
Built ==
    IF result = "DB_ERROR" THEN {}
    ELSE IF BeforeMerge THEN 1 .. instance - 1
    ELSE 1 .. instance

\* The instances are initialised one after the other; an error undoes them all.
InstancesInv ==
    /\ result = "DB_ERROR" => task_error /\ ~ BeforeMerge
    /\ task_error => result = "DB_ERROR" \/ Initialising
    /\ bpi_finished \/ mpc = "end" => result = "DB_ERROR" \/ instance = NumInstances
    /\ \A n \in Built : Complete(n)
    /\ \A n \in Instances \ Built :
         /\ pool_free[n] = <<>> /\ curr_size[n] = 0
         /\ \A c \in Chunks : made[n][c] =
              IF n = instance /\ \E w \in Workers : c \in Mine(w) THEN 1 ELSE 0
    /\ rw_lock_list = Built \X (1 .. pool_chunks)

DataInv == DataTypes /\ ThreadsInv /\ InstancesInv

\* The main thread is in the first round of all, which no swap has preceded.
FirstRound == instance = 1 /\ (BeforeMerge \/ mpc \in {"zero", "swap"})

\* The inductive invariant: in every state the types, and that nothing can be
\* overtaken in the first round; until a thread is overtaken, the rounds stay in
\* step and the threads and the main thread compute what they should.
PoolInv ==
    /\ TypeOK
    /\ FirstRound => ~ overtaken
    /\ ~ overtaken => RoundsInv /\ DataInv

\* Instance n has all its chunks, each initialised once, in the pool's list in
\* the order of memory and with its locks in the global list.
Whole(n) == Complete(n) /\ \A c \in Chunks : <<n, c>> \in rw_lock_list <=> c <= pool_chunks

\* Nothing of instance n is initialised.
Bare(n) ==
    /\ \A c \in Chunks : made[n][c] = 0 /\ <<n, c>> \notin rw_lock_list
    /\ pool_free[n] = <<>> /\ curr_size[n] = 0

\* Whatever the schedule: when buf_pool_init_instance returns for the first
\* instance, that instance has all its chunks, or, if one could not be had,
\* nothing is left of those that the threads had initialised; and it stays so
\* until the events are swapped.
FirstInstance ==
    FirstRound /\ ~ BeforeMerge => IF result = "DB_SUCCESS" THEN Whole(1) ELSE Bare(1)

\* The function initialises all instances or, if a chunk could not be had,
\* returns an error and leaves nothing initialised.  (True as long as no thread
\* is overtaken.)
AllOrNothing ==
    mpc = "returned" => \A n \in Instances :
        IF result = "DB_SUCCESS" THEN Whole(n) ELSE Bare(n)

\* The initialisation of the buffer pools returns, unless a swap overtakes a
\* thread on its way to its next wait: nothing else makes it hang.
ReturnsUnlessOvertaken == <>(overtaken \/ mpc = "returned")

\* For TLC, which need not go on from a state where a thread has been overtaken:
\* no property above says anything of the states that follow.
UpToOvertaking == ~ overtaken
=============================================================================
