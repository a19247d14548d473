---------------------------- MODULE InitPoolProofs ----------------------------
(****************************************************************************)
(* project4's pool, for any number of threads, instances and chunks: the    *)
(* first instance is initialised or undone whatever the schedule, and until *)
(* a swap of the events overtakes a thread, no wait is for a wrong event    *)
(* and all instances are initialised, or none.                              *)
(****************************************************************************)
EXTENDS InitPool, FiniteSetTheorems, WellFoundedInduction, TLAPS

USE NumThreadsAssumption, NumInstancesAssumption

-----------------------------------------------------------------------------
(* What the types say, and who has been counted. *)

\* The three events are different, and no thread is the main thread.
LEMMA EventFacts ==
  ASSUME TypeOK
  PROVE  /\ curr_task \in Events /\ next_task \in Events
         /\ curr_task # next_task /\ curr_task # "end_task" /\ next_task # "end_task"
         /\ \A e \in Events : e \in {curr_task, next_task, "end_task"}
         /\ EventToCome \in {curr_task, next_task}
         /\ Main \notin Workers
<1>1. {curr_task, next_task} = {"A", "B"}
  BY DEF TypeOK
<1>2. \/ curr_task = "A" /\ next_task = "B"
      \/ curr_task = "B" /\ next_task = "A"
  BY <1>1
<1>3. EventToCome \in {curr_task, next_task}
  BY DEF EventToCome
<1>4. Main \notin Workers
  BY DEF Main, Workers
<1> QED
  BY <1>2, <1>3, <1>4 DEF Events

\* At most all threads have been counted; if as many as there are, all of them.
LEMMA CountedFacts ==
  /\ IsFiniteSet(Counted) /\ Cardinality(Counted) \in Nat
  /\ Cardinality(Counted) <= NumThreads
  /\ Cardinality(Counted) = NumThreads => Counted = Workers
<1>1. IsFiniteSet(Workers) /\ Cardinality(Workers) = NumThreads
  BY FS_Interval DEF Workers
<1>2. Counted \subseteq Workers
  BY DEF Counted
<1>3. IsFiniteSet(Counted) /\ Cardinality(Counted) <= Cardinality(Workers)
      /\ (Cardinality(Counted) = Cardinality(Workers) => Counted = Workers)
  BY <1>1, <1>2, FS_Subset
<1>4. Cardinality(Counted) \in Nat
  BY <1>3, FS_CardinalityType
<1> QED
  BY <1>1, <1>3, <1>4

-----------------------------------------------------------------------------
(* What holds whatever the schedule. *)

\* In the beginning the types hold and no thread has been overtaken.
LEMMA InitTypes == Init => TypeOK /\ ~ overtaken
<1> SUFFICES ASSUME Init PROVE TypeOK /\ ~ overtaken
  OBVIOUS
<1>1. /\ isset \in [Events -> BOOLEAN]
      /\ waiters \in [Events -> SUBSET (Workers \union {Main})]
  BY DEF Init
<1>2. 0 \in 0 .. NumThreads /\ 1 \in Instances
  BY DEF Instances
<1>3. /\ pc \in [Workers -> {"start", "waiting", "chunk", "count", "signal", "next",
                           "countout", "signalout", "exited"}]
      /\ old \in [Workers -> 0 .. NumThreads]
  BY <1>2 DEF Init
<1> QED
  BY <1>1, <1>2, <1>3 DEF Init, TypeOK

\* A step of a thread keeps the types, and leaves the main thread where it is.
LEMMA WorkTypes ==
  ASSUME TypeOK, NEW w \in Workers, Work(w)
  PROVE  TypeOK' /\ UNCHANGED <<mpc, instance, overtaken>>
<1>1. UNCHANGED <<mpc, instance, overtaken, curr_task, next_task, bpi_finished>>
  BY DEF Work, FirstWait, StartTask, InitChunk, InitChunkFails, EndChunks, LeaveChunks,
     CountTask, CountOut, Count, SignalTask, SignalOut, Signal, WaitNext, LeaveLoop, main,
     task
<1>2. pc' \in [Workers -> {"start", "waiting", "chunk", "count", "signal", "next",
                           "countout", "signalout", "exited"}]
  <2>1. \/ UNCHANGED pc
        \/ \E to \in {"start", "waiting", "chunk", "count", "signal", "next", "countout",
                      "signalout", "exited"} : pc' = [pc EXCEPT ![w] = to]
    BY DEF Work, FirstWait, StartTask, InitChunk, InitChunkFails, EndChunks, LeaveChunks,
       CountTask, CountOut, Count, SignalTask, SignalOut, Signal, WaitNext, LeaveLoop, Goto
  <2> QED
    BY <2>1 DEF TypeOK
<1>3. n_executions' \in 0 .. NumThreads /\ old' \in [Workers -> 0 .. NumThreads]
  <2>1. \/ UNCHANGED <<n_executions, old>>
        \/ /\ n_executions' = IF n_executions < NumThreads THEN n_executions + 1
                              ELSE n_executions
           /\ old' = [old EXCEPT ![w] = n_executions]
    BY DEF Work, FirstWait, StartTask, InitChunk, InitChunkFails, EndChunks, LeaveChunks,
       CountTask, CountOut, Count, SignalTask, SignalOut, Signal, WaitNext, LeaveLoop, task
  <2> QED
    BY <2>1 DEF TypeOK
<1>4. /\ isset' \in [Events -> BOOLEAN]
      /\ waiters' \in [Events -> SUBSET (Workers \union {Main})]
  <2>1. \/ UNCHANGED <<isset, waiters>>
        \/ SetEvent("end_task")
        \/ UNCHANGED isset /\ \E e \in {curr_task, next_task} : EnterWait(w, e)
    BY DEF Work, FirstWait, StartTask, InitChunk, InitChunkFails, EndChunks, LeaveChunks,
       CountTask, CountOut, Count, SignalTask, SignalOut, Signal, WaitNext, LeaveLoop, events
  <2>2. CASE SetEvent("end_task")
    BY <2>2 DEF SetEvent, TypeOK
  <2>3. CASE UNCHANGED isset /\ \E e \in {curr_task, next_task} : EnterWait(w, e)
    <3>1. PICK e \in {curr_task, next_task} : EnterWait(w, e)
      BY <2>3
    <3>2. \/ waiters' = waiters
          \/ waiters' = [waiters EXCEPT ![e] = @ \union {w}]
      BY <3>1 DEF EnterWait
    <3> QED
      BY <2>3, <3>2 DEF TypeOK
  <2> QED
    BY <2>1, <2>2, <2>3 DEF TypeOK
<1> QED
  BY <1>1, <1>2, <1>3, <1>4 DEF TypeOK

\* Nor does a step of the main thread break the types.
LEMMA MainTypes ==
  ASSUME TypeOK, MainStep
  PROVE  TypeOK'
<1>1. UNCHANGED <<pc, old>>
  BY DEF MainStep, Prepare, SetTask, AwaitTask, AwaitEnd, Merge, Undo, ZeroExecutions,
     SwapTasks, ResetNext, ResetEnd, Finish, SetLast, AwaitLast, Return, threads
<1>2. {curr_task', next_task'} = {"A", "B"} /\ n_executions' \in 0 .. NumThreads
      /\ bpi_finished' \in BOOLEAN
  <2>1. \/ UNCHANGED <<curr_task, next_task>>
        \/ curr_task' = next_task /\ next_task' = curr_task
    BY DEF MainStep, Prepare, SetTask, AwaitTask, AwaitEnd, Merge, Undo, ZeroExecutions,
       SwapTasks, ResetNext, ResetEnd, Finish, SetLast, AwaitLast, Return, task
  <2>2. /\ UNCHANGED n_executions \/ n_executions' = 0
        /\ bpi_finished' \in {bpi_finished, TRUE}
    BY DEF MainStep, Prepare, SetTask, AwaitTask, AwaitEnd, Merge, Undo, ZeroExecutions,
       SwapTasks, ResetNext, ResetEnd, Finish, SetLast, AwaitLast, Return, task
  <2>3. 0 \in 0 .. NumThreads
    OBVIOUS
  <2>4. {curr_task', next_task'} = {curr_task, next_task}
    BY <2>1
  <2> QED
    BY <2>2, <2>3, <2>4 DEF TypeOK
<1>3. mpc' \in {"prepare", "set", "await", "awaiting", "zero", "swap", "resetnext",
                "resetend", "end", "setlast", "awaitlast", "awaitinglast", "returned"}
  BY DEF MainStep, Prepare, SetTask, AwaitTask, AwaitEnd, Merge, Undo, ZeroExecutions,
     SwapTasks, ResetNext, ResetEnd, Finish, SetLast, AwaitLast, Return, MainGoto
<1>4. instance' \in Instances
  <2>1. \/ UNCHANGED instance
        \/ instance # NumInstances /\ instance' = instance + 1
    BY DEF MainStep, Prepare, SetTask, AwaitTask, AwaitEnd, Merge, Undo, ZeroExecutions,
       SwapTasks, ResetNext, ResetEnd, Finish, SetLast, AwaitLast, Return
  <2> QED
    BY <2>1 DEF TypeOK, Instances
<1>5. overtaken' \in BOOLEAN
  <2>1. overtaken' = overtaken \/ overtaken' \in BOOLEAN
    BY DEF MainStep, Prepare, SetTask, AwaitTask, AwaitEnd, Merge, Undo, ZeroExecutions,
       SwapTasks, ResetNext, ResetEnd, Finish, SetLast, AwaitLast, Return
  <2> QED
    BY <2>1 DEF TypeOK
<1>6. /\ isset' \in [Events -> BOOLEAN]
      /\ waiters' \in [Events -> SUBSET (Workers \union {Main})]
  <2>1. \/ UNCHANGED <<isset, waiters>>
        \/ SetEvent(curr_task)
        \/ UNCHANGED waiters /\ \E e \in {next_task, "end_task"} : ResetEvent(e)
        \/ UNCHANGED isset /\ EnterWait(Main, "end_task")
    BY DEF MainStep, Prepare, SetTask, AwaitTask, AwaitEnd, Merge, Undo, ZeroExecutions,
       SwapTasks, ResetNext, ResetEnd, Finish, SetLast, AwaitLast, Return, events
  <2>2. CASE SetEvent(curr_task)
    BY <2>2 DEF SetEvent, TypeOK
  <2>3. CASE UNCHANGED waiters /\ \E e \in {next_task, "end_task"} : ResetEvent(e)
    BY <2>3 DEF ResetEvent, TypeOK
  <2>4. CASE UNCHANGED isset /\ EnterWait(Main, "end_task")
    BY <2>4 DEF EnterWait, TypeOK
  <2> QED
    BY <2>1, <2>2, <2>3, <2>4 DEF TypeOK
<1> QED
  BY <1>1, <1>2, <1>3, <1>4, <1>5, <1>6 DEF TypeOK

\* Every step keeps the types.
LEMMA TypesKept ==
  ASSUME TypeOK, [Next]_vars
  PROVE  TypeOK'
<1>1. CASE UNCHANGED vars
  BY <1>1 DEF TypeOK, vars, events, task, threads, main
<1> QED
  BY <1>1, WorkTypes, MainTypes DEF Next, Terminating

\* The first round comes before the first swap, and never again.
LEMMA FirstRoundKept ==
  ASSUME TypeOK, FirstRound => ~ overtaken, [Next]_vars
  PROVE  /\ FirstRound' => ~ overtaken'
         /\ overtaken => overtaken'
<1>1. ASSUME NEW w \in Workers, Work(w) PROVE UNCHANGED <<mpc, instance, overtaken>>
  BY <1>1, WorkTypes
<1>2. ASSUME MainStep, ~ SwapTasks
      PROVE  UNCHANGED overtaken /\ (FirstRound' => FirstRound)
  <2>1. UNCHANGED overtaken
    BY <1>2 DEF MainStep, Prepare, SetTask, AwaitTask, AwaitEnd, Merge, Undo,
       ZeroExecutions, ResetNext, ResetEnd, Finish, SetLast, AwaitLast, Return
  <2>2. CASE ResetEnd
    <3>1. instance \in Nat \ {0}
      BY DEF TypeOK, Instances
    <3> QED
      BY <2>1, <2>2, <3>1 DEF ResetEnd, MainGoto, FirstRound, BeforeMerge
  <2>3. CASE ~ ResetEnd
    BY <1>2, <2>1, <2>3 DEF MainStep, Prepare, SetTask, AwaitTask, AwaitEnd, Merge, Undo,
       ZeroExecutions, ResetNext, Finish, SetLast, AwaitLast, Return, MainGoto, FirstRound,
       BeforeMerge
  <2> QED
    BY <2>2, <2>3
<1>3. CASE SwapTasks
  BY <1>3 DEF SwapTasks, MainGoto, FirstRound, BeforeMerge
<1>4. CASE UNCHANGED vars
  BY <1>4 DEF vars, main, FirstRound, BeforeMerge
<1> QED
  BY <1>1, <1>2, <1>3, <1>4 DEF Next, Terminating, FirstRound, BeforeMerge

-----------------------------------------------------------------------------
(* The rounds, as long as no thread is overtaken. *)


\* When end_task is set in a round, all have been counted.
LEMMA EndMeansAll ==
  ASSUME RoundsInv, Running, isset["end_task"]
  PROVE  Counted = Workers
BY CountedFacts DEF RoundsInv, CountInv

\* What the invariant of the rounds speaks of.
syncVars == <<isset, waiters, curr_task, next_task, n_executions, bpi_finished, pc,
              old, mpc>>

\* A step that changes none of it keeps the invariant of the rounds.
LEMMA SyncStays ==
  ASSUME RoundsInv, UNCHANGED syncVars
  PROVE  RoundsInv'
<1>1. UNCHANGED <<isset, waiters, curr_task, next_task, n_executions, bpi_finished, pc,
                  old, mpc>>
  BY DEF syncVars
<1>2. Counted' = Counted /\ Running' = Running /\ EventToCome' = EventToCome
  BY <1>1 DEF Counted, Running, EventToCome
<1>3. EventsInv'
  BY <1>1, <1>2 DEF RoundsInv, EventsInv
<1>4. CountInv'
  BY <1>1, <1>2 DEF RoundsInv, CountInv
<1>5. PlaceInv'
  BY <1>1, <1>2 DEF RoundsInv, PlaceInv
<1> QED
  BY <1>3, <1>4, <1>5 DEF RoundsInv

-----------------------------------------------------------------------------
(* The threads. *)

\* What no step of a thread changes.
WorkerStep == UNCHANGED <<curr_task, next_task, bpi_finished, mpc>>

\* Which event comes next does not depend on the threads.
LEMMA SameRound ==
  ASSUME WorkerStep
  PROVE  Running' = Running /\ EventToCome' = EventToCome
BY DEF WorkerStep, Running, EventToCome

\* A step within the loops, which changes nothing but the place of the thread.
LEMMA PlaceChanges ==
  ASSUME TypeOK, RoundsInv, WorkerStep, UNCHANGED <<isset, waiters, n_executions, old>>,
         NEW w \in Workers, NEW from, NEW to,
         pc[w] = from, pc' = [pc EXCEPT ![w] = to],
         \/ from = "waiting" /\ to = "chunk" /\ ~ bpi_finished /\ Woken(w)
         \/ from = "waiting" /\ to = "countout" /\ bpi_finished /\ Woken(w)
         \/ from = "chunk" /\ to \in {"chunk", "count"}
  PROVE  RoundsInv' /\ Counted' = Counted
<1>1. /\ TypeOK /\ EventsInv /\ CountInv /\ PlaceInv
      /\ UNCHANGED <<isset, waiters, n_executions, old, curr_task, next_task, bpi_finished,
                     mpc>>
  BY DEF RoundsInv, WorkerStep
<1>2. pc'[w] = to /\ \A u \in Workers : u # w => pc'[u] = pc[u]
  BY <1>1 DEF TypeOK
<1>3. \A e \in Events : w \notin waiters[e]
  BY <1>1 DEF Woken, EventsInv
<1>4. Running' = Running /\ EventToCome' = EventToCome
  BY SameRound
<1>5. Counted' = Counted
  BY <1>1, <1>2, <1>3 DEF Counted
<1>6. EventsInv'
  BY <1>1, <1>2, <1>3, <1>4 DEF EventsInv
<1>7. CountInv'
  BY <1>1, <1>2, <1>4, <1>5 DEF CountInv
<1>8. w \notin waiters[EventToCome]
  BY <1>1, <1>3, EventFacts
<1>9. Running
  BY <1>1, <1>8 DEF PlaceInv
<1>10. PlaceInv'
  <2>1. CASE mpc \in {"await", "awaiting"}
    BY <1>1, <1>2, <2>1 DEF PlaceInv, Running
  <2>2. CASE mpc \in {"awaitlast", "awaitinglast", "returned"}
    BY <1>1, <1>2, <2>2 DEF PlaceInv, Running
  <2> QED
    BY <1>9, <2>1, <2>2 DEF Running
<1> QED
  BY <1>5, <1>6, <1>7, <1>10 DEF RoundsInv

\* The first wait, and the one after a round.
LEMMA WaitInv ==
  ASSUME TypeOK, RoundsInv, NEW w \in Workers, FirstWait(w) \/ WaitNext(w)
  PROVE  RoundsInv' /\ (Running => Counted' = Counted)
<1>1. /\ TypeOK /\ EventsInv /\ CountInv /\ PlaceInv
      /\ UNCHANGED <<isset, n_executions, old, curr_task, next_task, bpi_finished, mpc>>
      /\ pc' = [pc EXCEPT ![w] = "waiting"] /\ pc[w] \in {"start", "next"}
  BY DEF RoundsInv, FirstWait, WaitNext, task, main, Goto
<1>2. pc'[w] = "waiting" /\ \A u \in Workers : u # w => pc'[u] = pc[u]
  BY <1>1 DEF TypeOK
<1>3. \A e \in Events : w \notin waiters[e]
  BY <1>1 DEF EventsInv
<1>4. Running' = Running /\ EventToCome' = EventToCome
  BY <1>1, SameRound DEF WorkerStep
<1>5. /\ pc[w] = "start" => mpc \in {"prepare", "set", "await", "awaiting"}
      /\ pc[w] = "next" => mpc \in {"await", "awaiting", "zero", "swap"}
  <2>1. w \notin waiters[EventToCome]
    BY <1>1, <1>3, EventFacts
  <2> QED
    BY <1>1, <2>1 DEF PlaceInv, Running
<1>6. \/ /\ waiters' = [waiters EXCEPT ![EventToCome] = @ \union {w}]
         /\ Running => pc[w] = "next"
      \/ waiters' = waiters /\ Running /\ pc[w] = "start"
  <2>1. CASE FirstWait(w) /\ Running
    <3>1. isset[curr_task] /\ pc[w] = "start"
      BY <1>1, <2>1 DEF EventsInv, FirstWait
    <3> QED
      BY <2>1, <3>1 DEF FirstWait, EnterWait
  <2>2. CASE FirstWait(w) /\ ~ Running
    <3>1. ~ isset[curr_task] /\ EventToCome = curr_task
      BY <1>1, <1>5, <2>2 DEF FirstWait, EventsInv, Running, EventToCome
    <3> QED
      BY <2>2, <3>1 DEF FirstWait, EnterWait
  <2>3. CASE WaitNext(w)
    <3>1. mpc \in {"await", "awaiting", "zero", "swap"} /\ pc[w] = "next"
      BY <1>5, <2>3 DEF WaitNext
    <3>2. ~ isset[next_task] /\ EventToCome = next_task
      BY <1>1, <3>1 DEF EventsInv, EventToCome
    <3> QED
      BY <2>3, <3>1, <3>2 DEF WaitNext, EnterWait
  <2> QED
    BY <2>1, <2>2, <2>3
<1>7. /\ EventToCome \in Events /\ waiters \in [Events -> SUBSET (Workers \union {Main})]
      /\ Main \notin Workers
  BY <1>1, EventFacts DEF TypeOK
<1>8. /\ \A e \in Events : \A u \in Workers \union {Main} :
           u # w => (u \in waiters'[e] <=> u \in waiters[e])
      /\ \A e \in Events : w \in waiters'[e] => e = EventToCome
      /\ Running => (pc[w] = "next" <=> \E e \in Events : w \in waiters'[e])
      /\ ~ Running => w \in waiters'[EventToCome]
  <2>1. CASE waiters' = waiters /\ Running /\ pc[w] = "start"
    BY <1>3, <2>1
  <2>2. CASE /\ waiters' = [waiters EXCEPT ![EventToCome] = @ \union {w}]
             /\ Running => pc[w] = "next"
    <3>1. /\ waiters'[EventToCome] = waiters[EventToCome] \union {w}
          /\ \A e \in Events : e # EventToCome => waiters'[e] = waiters[e]
      BY <1>7, <2>2
    <3> QED
      BY <1>3, <1>7, <2>2, <3>1
  <2> QED
    BY <1>6, <2>1, <2>2
<1>9. EventsInv'
  <2>1. \A u \in Workers : \A e \in Events :
          u \in waiters'[e] => pc'[u] = "waiting" /\ e = EventToCome'
    BY <1>1, <1>2, <1>4, <1>8 DEF EventsInv
  <2>2. \A e \in Events : Main \in waiters'[e] <=> Main \in waiters[e]
    BY <1>7, <1>8
  <2>3. "end_task" \in Events
    BY DEF Events
  <2> QED
    BY <1>1, <1>4, <2>1, <2>2, <2>3 DEF EventsInv
<1>10. Running => Counted' = Counted
  BY <1>1, <1>2, <1>3, <1>8 DEF Counted
<1>11. CountInv'
  BY <1>1, <1>2, <1>4, <1>10 DEF CountInv
<1>12. PlaceInv'
  <2>1. CASE mpc \in {"prepare", "set", "zero", "swap"}
    <3>1. ~ Running /\ EventToCome' \in Events
      BY <1>4, <1>7, <2>1 DEF Running
    <3>2. \A u \in Workers :
            \/ u \in waiters'[EventToCome']
            \/ mpc \in {"zero", "swap"} /\ pc'[u] \in {"signal", "next"}
            \/ mpc \in {"prepare", "set"} /\ pc'[u] = "start"
      BY <1>1, <1>2, <1>4, <1>7, <1>8, <3>1 DEF PlaceInv
    <3> QED
      BY <1>1, <1>4, <2>1, <3>1, <3>2 DEF PlaceInv
  <2>2. CASE mpc \in {"await", "awaiting"}
    <3>1. Running'
      BY <1>4, <2>2 DEF Running
    <3> QED
      BY <1>1, <1>2, <2>2, <3>1 DEF PlaceInv
  <2> QED
    BY <1>1, <1>5, <2>1, <2>2
<1> QED
  BY <1>9, <1>10, <1>11, <1>12 DEF RoundsInv

\* A thread counts itself in a round that end_task has not ended.
LEMMA CountStep ==
  ASSUME TypeOK, RoundsInv, NEW w \in Workers, CountTask(w) \/ CountOut(w)
  PROVE  RoundsInv' /\ Counted' = Counted \union {w}
<1>1. PICK to \in {"signal", "signalout"} :
        /\ pc' = [pc EXCEPT ![w] = to] /\ pc[w] \in {"count", "countout"}
        /\ to = "signal" <=> pc[w] = "count"
  BY DEF CountTask, CountOut, Count, Goto
<1>2. /\ TypeOK /\ EventsInv /\ CountInv /\ PlaceInv
      /\ UNCHANGED <<isset, waiters, curr_task, next_task, bpi_finished, mpc>>
      /\ n_executions' = IF n_executions < NumThreads THEN n_executions + 1
                         ELSE n_executions
      /\ old' = [old EXCEPT ![w] = n_executions]
  BY DEF RoundsInv, CountTask, CountOut, Count, main, events
<1>3. /\ pc'[w] = to /\ \A u \in Workers : u # w => pc'[u] = pc[u]
      /\ old'[w] = n_executions /\ \A u \in Workers : u # w => old'[u] = old[u]
      /\ n_executions \in Nat /\ \A u \in Workers : old[u] \in Nat
  BY <1>1, <1>2, NumThreadsAssumption DEF TypeOK
<1>4. \A e \in Events : w \notin waiters[e]
  BY <1>1, <1>2 DEF EventsInv
<1>5. Running' = Running /\ EventToCome' = EventToCome
  BY <1>2, SameRound DEF WorkerStep
<1>6. Running
  BY <1>1, <1>2, <1>4, EventFacts DEF PlaceInv
<1>7. w \notin Counted /\ Counted' = Counted \union {w}
  BY <1>1, <1>2, <1>3, <1>4 DEF Counted
<1>8. /\ Cardinality(Counted') = Cardinality(Counted) + 1
      /\ Cardinality(Counted) \in Nat /\ Cardinality(Counted) < NumThreads
  <2>1. Cardinality(Counted') = Cardinality(Counted) + 1
    BY <1>7, CountedFacts, FS_AddElement
  <2>2. Cardinality(Counted) # NumThreads
    BY <1>7, CountedFacts
  <2> QED
    BY <2>1, <2>2, CountedFacts
<1>9. ~ isset["end_task"]
  BY <1>6, <1>7, EndMeansAll
<1>10. n_executions' = n_executions + 1 /\ n_executions = Cardinality(Counted)
  BY <1>2, <1>6, <1>8 DEF CountInv
<1>11. EventsInv'
  BY <1>2, <1>3, <1>4, <1>5 DEF EventsInv
<1>12. CountInv'
  <2>1. n_executions' = Cardinality(Counted')
    BY <1>8, <1>10
  <2>2. ASSUME NEW u \in Workers, pc'[u] \in {"signal", "signalout"}
        PROVE  old'[u] < n_executions'
    <3>1. CASE u = w
      BY <1>3, <1>10, <3>1
    <3>2. CASE u # w
      BY <1>2, <1>3, <1>6, <1>10, <2>2, <3>2 DEF CountInv
    <3> QED
      BY <3>1, <3>2
  <2> QED
    BY <1>2, <1>5, <1>6, <1>9, <2>1, <2>2 DEF CountInv
<1>13. PlaceInv'
  <2>1. CASE mpc \in {"await", "awaiting"}
    BY <1>1, <1>2, <1>3, <1>5, <1>6, <2>1 DEF PlaceInv
  <2>2. CASE mpc \in {"awaitlast", "awaitinglast", "returned"}
    BY <1>1, <1>2, <1>3, <1>5, <1>6, <2>2 DEF PlaceInv
  <2> QED
    BY <1>6, <2>1, <2>2 DEF Running
<1> QED
  BY <1>7, <1>11, <1>12, <1>13 DEF RoundsInv

\* Only the last to be counted sets end_task.
LEMMA SignalStep ==
  ASSUME TypeOK, RoundsInv, NEW w \in Workers, SignalTask(w) \/ SignalOut(w)
  PROVE  RoundsInv' /\ Counted' = Counted
<1>1. PICK to \in {"next", "exited"} :
        /\ pc' = [pc EXCEPT ![w] = to] /\ pc[w] \in {"signal", "signalout"}
        /\ to = "next" <=> pc[w] = "signal"
  BY DEF SignalTask, SignalOut, Signal, Goto
<1>2. /\ TypeOK /\ EventsInv /\ CountInv /\ PlaceInv
      /\ UNCHANGED <<curr_task, next_task, n_executions, old, bpi_finished, mpc>>
      /\ \E last \in IsLast(w) :
           IF last THEN SetEvent("end_task") ELSE UNCHANGED <<isset, waiters>>
  BY DEF RoundsInv, SignalTask, SignalOut, Signal, main, task, events
<1>3. /\ pc'[w] = to /\ \A u \in Workers : u # w => pc'[u] = pc[u]
  BY <1>1, <1>2 DEF TypeOK
<1>4. \A e \in Events : w \notin waiters[e]
  BY <1>1, <1>2 DEF EventsInv
<1>5. Running' = Running /\ EventToCome' = EventToCome
  BY <1>2, SameRound DEF WorkerStep
<1>6. Running \/ (mpc \in {"zero", "swap"} /\ pc'[w] = "next")
  BY <1>1, <1>2, <1>3, <1>4, EventFacts DEF PlaceInv
<1>7. /\ curr_task \in Events /\ next_task \in Events /\ "end_task" \in Events
      /\ curr_task # "end_task" /\ next_task # "end_task" /\ EventToCome # "end_task"
      /\ Main \notin Workers
  BY <1>2, EventFacts DEF Events
<1>8. /\ isset' \in [Events -> BOOLEAN]
      /\ waiters' \in [Events -> SUBSET (Workers \union {Main})]
      /\ \A e \in Events : e # "end_task" => isset'[e] = isset[e] /\ waiters'[e] = waiters[e]
      /\ isset["end_task"] => isset'["end_task"]
      /\ isset'["end_task"] =>
           isset["end_task"] \/ old[w] = NumThreads - 1 \/ mpc = "returned"
      /\ waiters'["end_task"] \in {{}, waiters["end_task"]}
      /\ waiters'["end_task"] # waiters["end_task"] => isset'["end_task"]
  <2>1. PICK last \in IsLast(w) :
          IF last THEN SetEvent("end_task") ELSE UNCHANGED <<isset, waiters>>
    BY <1>2
  <2>2. CASE last
    <3>1. old[w] = NumThreads - 1 \/ mpc = "returned"
      BY <2>1, <2>2 DEF IsLast
    <3> QED
      BY <1>7, <2>1, <2>2, <3>1 DEF SetEvent, TypeOK
  <2>3. CASE ~ last
    BY <2>1, <2>3 DEF TypeOK
  <2> QED
    BY <2>2, <2>3
<1>9. \A u \in Workers : \A e \in Events : u \in waiters'[e] <=> u \in waiters[e]
  BY <1>2, <1>7, <1>8 DEF EventsInv
<1>10. Running /\ isset'["end_task"] => n_executions = NumThreads
  <2>1. ASSUME Running
        PROVE  old[w] < n_executions /\ n_executions \in Nat /\ old[w] \in Nat
               /\ n_executions <= NumThreads
    BY <1>1, <1>2, <2>1, NumThreadsAssumption DEF CountInv, TypeOK
  <2>2. CASE mpc = "returned"
    <3>1. \A u \in Workers : pc[u] \in {"signalout", "exited"}
      BY <1>2, <2>2 DEF PlaceInv
    <3>2. Counted = Workers
      BY <3>1 DEF Counted
    <3>3. Cardinality(Workers) = NumThreads
      BY FS_Interval, NumThreadsAssumption DEF Workers
    <3> QED
      BY <1>2, <2>2, <3>2, <3>3 DEF CountInv, Running
  <2>3. CASE mpc # "returned"
    BY <1>2, <1>8, <2>1, <2>3, NumThreadsAssumption DEF CountInv
  <2> QED
    BY <2>2, <2>3
<1>11. Counted' = Counted
  BY <1>1, <1>3, <1>9 DEF Counted
<1>12. EventsInv'
  <2>1. \A u \in Workers : \A e \in Events :
          u \in waiters'[e] => pc'[u] = "waiting" /\ e = EventToCome'
    BY <1>2, <1>3, <1>4, <1>5, <1>9 DEF EventsInv
  <2>2. \A e \in Events : Main \in waiters'[e] => e = "end_task"
    BY <1>2, <1>8 DEF EventsInv
  <2>3. /\ isset'[curr_task'] <=> Running' \/ mpc' \in {"zero", "swap"}
        /\ isset'[next_task'] <=> mpc' = "resetnext"
    BY <1>2, <1>5, <1>7, <1>8 DEF EventsInv
  <2>4. mpc' \notin {"prepare", "set", "end", "setlast"}
    BY <1>2, <1>6 DEF Running
  <2>5. mpc' \in {"awaiting", "awaitinglast"} =>
          Main \in waiters'["end_task"] \/ isset'["end_task"]
    BY <1>2, <1>8 DEF EventsInv
  <2> QED
    BY <2>1, <2>2, <2>3, <2>4, <2>5 DEF EventsInv
<1>13. CountInv'
  <2>1. Running => \A u \in Workers :
          pc'[u] \in {"signal", "signalout"} => old'[u] < n_executions'
    BY <1>1, <1>2, <1>3 DEF CountInv
  <2> QED
    BY <1>2, <1>5, <1>10, <1>11, <2>1 DEF CountInv
<1>14. PlaceInv'
  <2>1. CASE mpc \in {"await", "awaiting"}
    BY <1>1, <1>2, <1>3, <1>5, <1>6, <2>1 DEF PlaceInv
  <2>2. CASE mpc \in {"awaitlast", "awaitinglast", "returned"}
    BY <1>1, <1>2, <1>3, <1>5, <1>6, <1>9, <2>2 DEF PlaceInv
  <2>3. CASE mpc \in {"zero", "swap"}
    <3>1. ~ Running /\ EventToCome \in Events
      BY <1>7, <2>3, EventFacts DEF Running
    <3> QED
      BY <1>1, <1>2, <1>3, <1>5, <1>6, <1>9, <2>3, <3>1 DEF PlaceInv
  <2> QED
    BY <1>6, <2>1, <2>2, <2>3 DEF Running
<1> QED
  BY <1>11, <1>12, <1>13, <1>14 DEF RoundsInv

-----------------------------------------------------------------------------
(* The main thread. *)

\* A step outside the rounds that touches neither events nor threads.
LEMMA MainGoes ==
  ASSUME TypeOK, RoundsInv, UNCHANGED <<isset, waiters, curr_task, next_task, pc, old>>,
         \/ mpc = "prepare" /\ mpc' = "set"
            /\ UNCHANGED <<n_executions, bpi_finished>>
         \/ mpc = "zero" /\ mpc' = "swap" /\ n_executions' = 0 /\ UNCHANGED bpi_finished
         \/ mpc = "end" /\ mpc' = "setlast" /\ bpi_finished' = TRUE
            /\ UNCHANGED n_executions
  PROVE  RoundsInv'
<1>1. TypeOK /\ EventsInv /\ CountInv /\ PlaceInv
  BY DEF RoundsInv
<1>2. ~ Running /\ ~ Running' /\ EventToCome' = EventToCome
  BY DEF Running, EventToCome
<1>3. bpi_finished' \in BOOLEAN /\ (bpi_finished' <=> mpc' = "setlast")
  <2>1. bpi_finished \in BOOLEAN /\ (mpc \in {"prepare", "zero", "end"} => ~ bpi_finished)
    BY <1>1 DEF TypeOK, PlaceInv
  <2>2. CASE mpc = "end" /\ mpc' = "setlast" /\ bpi_finished' = TRUE
    BY <2>2, Zenon
  <2>3. CASE mpc \in {"prepare", "zero"} /\ mpc' \in {"set", "swap"} /\ UNCHANGED bpi_finished
    BY <2>1, <2>3
  <2> QED
    BY <2>2, <2>3
<1>4. EventsInv'
  BY <1>1, <1>2 DEF EventsInv
<1>5. CountInv'
  BY <1>1, <1>2 DEF CountInv
<1>6. PlaceInv'
  <2>1. \A w \in Workers :
          \/ w \in waiters'[EventToCome']
          \/ mpc' = "swap" /\ pc'[w] \in {"signal", "next"}
          \/ mpc' = "set" /\ pc'[w] = "start"
    BY <1>1, <1>2 DEF PlaceInv
  <2>2. bpi_finished' <=>
          mpc' \in {"setlast", "awaitlast", "awaitinglast", "returned"}
    BY <1>3
  <2>3. mpc' \in {"set", "swap", "setlast"}
    OBVIOUS
  <2> QED
    BY <1>2, <2>1, <2>2, <2>3 DEF PlaceInv
<1> QED
  BY <1>4, <1>5, <1>6 DEF RoundsInv

\* The event of the round is set: whoever waits for it is let go.
LEMMA SetInv ==
  ASSUME TypeOK, RoundsInv, SetTask \/ SetLast
  PROVE  RoundsInv' /\ Counted' = {} /\ \A w \in Workers : pc[w] \in {"start", "waiting"}
<1>1. /\ TypeOK /\ EventsInv /\ CountInv /\ PlaceInv
      /\ isset' = [isset EXCEPT ![curr_task] = TRUE]
      /\ waiters' = [waiters EXCEPT ![curr_task] = {}]
      /\ UNCHANGED <<curr_task, next_task, n_executions, bpi_finished, pc, old>>
      /\ \/ mpc = "set" /\ mpc' = "await"
         \/ mpc = "setlast" /\ mpc' = "awaitlast"
  BY DEF RoundsInv, SetTask, SetLast, SetEvent, MainGoto, task, threads
<1>2. /\ curr_task \in Events /\ next_task \in Events /\ "end_task" \in Events
      /\ curr_task # next_task /\ curr_task # "end_task"
  BY <1>1, EventFacts DEF Events
<1>3. EventToCome = curr_task /\ ~ Running /\ Running'
  BY <1>1 DEF EventToCome, Running
<1>4. /\ isset'[curr_task] /\ waiters'[curr_task] = {}
      /\ \A e \in Events : e # curr_task => isset'[e] = isset[e] /\ waiters'[e] = waiters[e]
  BY <1>1, <1>2 DEF TypeOK
<1>5. \A w \in Workers : \A e \in Events : w \notin waiters'[e]
  BY <1>1, <1>3, <1>4 DEF EventsInv
<1>6. EventsInv'
  <2>1. \A e \in Events : Main \in waiters'[e] => e = "end_task"
    BY <1>1, <1>4 DEF EventsInv
  <2>2. mpc' \in {"await", "awaitlast"}
    BY <1>1
  <2>3. ~ isset'[next_task]
    BY <1>1, <1>2, <1>4 DEF EventsInv
  <2> QED
    BY <1>1, <1>3, <1>4, <1>5, <2>1, <2>2, <2>3 DEF EventsInv
<1>7. \A w \in Workers : pc[w] \in {"start", "waiting"}
      /\ (mpc = "setlast" => pc[w] = "waiting")
  BY <1>1, <1>2, <1>3 DEF PlaceInv, EventsInv
<1>8. Counted' = {}
  BY <1>1, <1>5, <1>7 DEF Counted
<1>9. CountInv'
  <2>1. n_executions' = Cardinality(Counted')
    BY <1>1, <1>3, <1>8, FS_EmptySet DEF CountInv
  <2>2. ~ isset'["end_task"]
    BY <1>1, <1>2, <1>4 DEF EventsInv
  <2> QED
    BY <1>1, <1>3, <1>7, <2>1, <2>2 DEF CountInv
<1>10. PlaceInv'
  BY <1>1, <1>3, <1>5, <1>7 DEF PlaceInv
<1> QED
  BY <1>6, <1>7, <1>8, <1>9, <1>10 DEF RoundsInv

\* The main thread waits for the round to end.
LEMMA AwaitInv ==
  ASSUME TypeOK, RoundsInv, AwaitTask \/ AwaitLast
  PROVE  RoundsInv' /\ Counted' = Counted
<1>1. /\ TypeOK /\ EventsInv /\ CountInv /\ PlaceInv
      /\ waiters' = IF isset["end_task"] THEN waiters
                    ELSE [waiters EXCEPT !["end_task"] = @ \union {Main}]
      /\ UNCHANGED <<isset, curr_task, next_task, n_executions, bpi_finished, pc, old>>
      /\ \/ mpc = "await" /\ mpc' = "awaiting"
         \/ mpc = "awaitlast" /\ mpc' = "awaitinglast"
  BY DEF RoundsInv, AwaitTask, AwaitLast, AwaitEnd, EnterWait, MainGoto, task,
     threads
<1>2. "end_task" \in Events /\ Main \notin Workers
  BY <1>1, EventFacts DEF Events
<1>3. EventToCome' = EventToCome /\ Running /\ Running'
  BY <1>1 DEF EventToCome, Running
<1>4. /\ waiters' \in [Events -> SUBSET (Workers \union {Main})]
      /\ isset["end_task"] \/ Main \in waiters'["end_task"]
      /\ \A e \in Events : e # "end_task" => waiters'[e] = waiters[e]
      /\ \A w \in Workers : \A e \in Events : w \in waiters'[e] <=> w \in waiters[e]
  BY <1>1, <1>2 DEF TypeOK
<1>5. Counted' = Counted
  BY <1>1, <1>4 DEF Counted
<1>6. EventsInv'
  <2>1. \A e \in Events : Main \in waiters'[e] => e = "end_task"
    BY <1>1, <1>4 DEF EventsInv
  <2> QED
    BY <1>1, <1>3, <1>4, <2>1 DEF EventsInv
<1>7. CountInv'
  BY <1>1, <1>3, <1>5 DEF CountInv
<1>8. PlaceInv'
  BY <1>1, <1>3, <1>4 DEF PlaceInv
<1> QED
  BY <1>5, <1>6, <1>7, <1>8 DEF RoundsInv

\* When the main thread runs again, all have counted themselves in, or out.
LEMMA RoundOver ==
  ASSUME TypeOK, RoundsInv, mpc \in {"awaiting", "awaitinglast"}, Woken(Main)
  PROVE  /\ Counted = Workers
         /\ mpc = "awaiting" => \A w \in Workers :
              pc[w] \in {"signal", "next"} \/ w \in waiters[EventToCome]
         /\ mpc = "awaitinglast" => \A w \in Workers : pc[w] \in {"signalout", "exited"}
<1>1. EventsInv /\ PlaceInv /\ Running
  BY DEF RoundsInv, Running
<1>2. isset["end_task"]
  BY <1>1 DEF EventsInv, Woken, Events
<1>3. Counted = Workers
  BY <1>1, <1>2, EndMeansAll
<1>4. ASSUME NEW w \in Workers
      PROVE  \/ pc[w] \in {"signal", "next", "signalout", "exited"}
             \/ w \in waiters[EventToCome]
  BY <1>1, <1>3 DEF Counted, EventsInv
<1>5. CASE mpc = "awaiting"
  BY <1>1, <1>3, <1>4, <1>5 DEF PlaceInv
<1>6. CASE mpc = "awaitinglast"
  BY <1>1, <1>3, <1>4, <1>6, EventFacts DEF PlaceInv
<1> QED
  BY <1>5, <1>6

\* The main thread goes on: the round is over.
LEMMA RoundInv ==
  ASSUME TypeOK, RoundsInv, Merge \/ Undo \/ Return
  PROVE  RoundsInv'
<1>1. /\ EventsInv /\ CountInv /\ PlaceInv /\ Running
      /\ UNCHANGED <<isset, waiters, curr_task, next_task, n_executions, bpi_finished,
                     pc, old>>
      /\ Woken(Main)
      /\ \/ mpc = "awaiting" /\ mpc' = "zero"
         \/ mpc = "awaitinglast" /\ mpc' = "returned"
  BY DEF RoundsInv, Merge, Undo, Return, events, task, threads, MainGoto, Running
<1>2. /\ mpc = "awaiting" => \A w \in Workers :
           pc[w] \in {"signal", "next"} \/ w \in waiters[EventToCome]
      /\ mpc = "awaitinglast" => \A w \in Workers : pc[w] \in {"signalout", "exited"}
  BY <1>1, RoundOver
<1>3. EventToCome' = EventToCome /\ (Running' <=> mpc' = "returned")
  BY <1>1 DEF EventToCome, Running
<1>4. Counted' = Counted
  BY <1>1 DEF Counted
<1>5. EventsInv'
  BY <1>1, <1>3 DEF EventsInv
<1>6. CountInv'
  BY <1>1, <1>3, <1>4 DEF CountInv
<1>7. PlaceInv'
  BY <1>1, <1>2, <1>3 DEF PlaceInv
<1> QED
  BY <1>5, <1>6, <1>7 DEF RoundsInv

\* A swap that overtakes nobody finds all threads waiting for the event that it
\* makes the current one.
LEMMA SwapInv ==
  ASSUME TypeOK, RoundsInv, SwapTasks, ~ overtaken'
  PROVE  RoundsInv'
<1>1. /\ EventsInv /\ CountInv /\ PlaceInv
      /\ UNCHANGED <<isset, waiters, n_executions, bpi_finished, pc, old>>
      /\ curr_task' = next_task /\ next_task' = curr_task
      /\ mpc = "swap" /\ mpc' = "resetnext"
      /\ \A w \in Workers : pc[w] = "waiting"
  BY DEF RoundsInv, SwapTasks, events, threads, MainGoto
<1>2. EventToCome' = EventToCome /\ ~ Running /\ ~ Running'
  BY <1>1 DEF EventToCome, Running
<1>3. EventsInv'
  BY <1>1, <1>2 DEF EventsInv
<1>4. CountInv'
  BY <1>1, <1>2 DEF CountInv
<1>5. PlaceInv'
  BY <1>1, <1>2 DEF PlaceInv
<1> QED
  BY <1>3, <1>4, <1>5 DEF RoundsInv

\* It resets the events of the round that is over.
LEMMA ResetInv ==
  ASSUME TypeOK, RoundsInv, ResetNext \/ ResetEnd
  PROVE  RoundsInv'
<1>1. PICK e \in {next_task, "end_task"} :
        /\ isset' = [isset EXCEPT ![e] = FALSE]
        /\ \/ e = next_task /\ mpc = "resetnext" /\ mpc' = "resetend"
           \/ e = "end_task" /\ mpc = "resetend" /\ mpc' \in {"end", "prepare"}
  BY DEF ResetNext, ResetEnd, ResetEvent, MainGoto
<1>2. /\ TypeOK /\ EventsInv /\ CountInv /\ PlaceInv
      /\ UNCHANGED <<waiters, curr_task, next_task, n_executions, bpi_finished, pc, old>>
  BY DEF RoundsInv, ResetNext, ResetEnd, task, threads
<1>3. EventToCome' = EventToCome /\ ~ Running /\ ~ Running'
  BY <1>1, <1>2 DEF EventToCome, Running
<1>4. /\ curr_task \in Events /\ next_task \in Events /\ "end_task" \in Events
      /\ curr_task # next_task /\ curr_task # "end_task" /\ next_task # "end_task"
  BY <1>2, EventFacts DEF Events
<1>5. ~ isset'[e] /\ \A f \in Events : f # e => isset'[f] = isset[f]
  BY <1>1, <1>2, <1>4 DEF TypeOK
<1>6. EventsInv'
  <2>1. ~ isset'[curr_task']
    BY <1>1, <1>2, <1>3, <1>4, <1>5 DEF EventsInv
  <2>2. ~ isset'[next_task']
    BY <1>1, <1>2, <1>4, <1>5 DEF EventsInv
  <2>3. isset'["end_task"] => mpc' = "resetend"
    BY <1>1, <1>4, <1>5
  <2> QED
    BY <1>1, <1>2, <1>3, <2>1, <2>2, <2>3 DEF EventsInv
<1>7. CountInv'
  BY <1>1, <1>2, <1>3 DEF CountInv
<1>8. PlaceInv'
  BY <1>1, <1>2, <1>3 DEF PlaceInv
<1> QED
  BY <1>6, <1>7, <1>8 DEF RoundsInv

-----------------------------------------------------------------------------
(* The rounds stay in step. *)

\* In the beginning no round has begun.
LEMMA InitRounds == Init => RoundsInv
<1> SUFFICES ASSUME Init PROVE RoundsInv
  OBVIOUS
<1>1. ~ Running /\ EventToCome = "A" /\ mpc = "prepare"
  BY DEF Init, Running, EventToCome
<1>2. EventsInv
  BY <1>1 DEF Init, EventsInv, Events
<1>3. CountInv
  BY <1>1 DEF Init, CountInv
<1>4. PlaceInv
  BY <1>1 DEF Init, PlaceInv
<1> QED
  BY <1>2, <1>3, <1>4 DEF RoundsInv

\* Every step of a thread keeps the rounds in step.
LEMMA WorkKeeps ==
  ASSUME TypeOK, RoundsInv, NEW w \in Workers, Work(w)
  PROVE  RoundsInv'
<1>1. CASE FirstWait(w) \/ WaitNext(w)
  BY <1>1, WaitInv
<1>2. CASE CountTask(w) \/ CountOut(w)
  BY <1>2, CountStep
<1>3. CASE SignalTask(w) \/ SignalOut(w)
  BY <1>3, SignalStep
<1>4. CASE StartTask(w) \/ LeaveLoop(w)
  <2>1. UNCHANGED <<isset, waiters, n_executions, old>> /\ WorkerStep
    BY <1>4 DEF StartTask, LeaveLoop, events, task, main, WorkerStep
  <2>2. CASE StartTask(w)
    BY <2>1, <2>2, PlaceChanges DEF StartTask, Goto
  <2>3. CASE LeaveLoop(w)
    BY <2>1, <2>3, PlaceChanges DEF LeaveLoop, Goto
  <2> QED
    BY <1>4, <2>2, <2>3
<1>5. CASE InitChunk(w)
  <2>1. UNCHANGED syncVars
    BY <1>5 DEF InitChunk, events, task, main, syncVars
  <2> QED
    BY <2>1, SyncStays
<1>6. CASE InitChunkFails(w) \/ EndChunks(w)
  <2>1. /\ UNCHANGED <<isset, waiters, n_executions, old>> /\ WorkerStep
        /\ pc[w] = "chunk" /\ pc' = [pc EXCEPT ![w] = "count"]
    BY <1>6 DEF InitChunkFails, EndChunks, LeaveChunks, events, task, main, WorkerStep, Goto
  <2> QED
    BY <2>1, PlaceChanges
<1> QED
  BY <1>1, <1>2, <1>3, <1>4, <1>5, <1>6 DEF Work

\* So does every step of the main thread that overtakes nobody.
LEMMA MainKeeps ==
  ASSUME TypeOK, RoundsInv, MainStep, ~ overtaken'
  PROVE  RoundsInv'
<1>1. CASE Prepare \/ ZeroExecutions \/ Finish
  <2>1. /\ UNCHANGED <<isset, waiters, curr_task, next_task, pc, old>>
        /\ \/ mpc = "prepare" /\ mpc' = "set"
              /\ UNCHANGED <<n_executions, bpi_finished>>
           \/ mpc = "zero" /\ mpc' = "swap" /\ n_executions' = 0 /\ UNCHANGED bpi_finished
           \/ mpc = "end" /\ mpc' = "setlast" /\ bpi_finished' = TRUE
              /\ UNCHANGED n_executions
    BY <1>1 DEF Prepare, ZeroExecutions, Finish, events, task, threads, MainGoto
  <2> QED
    BY <2>1, MainGoes
<1>2. CASE SetTask \/ SetLast
  BY <1>2, SetInv
<1>3. CASE AwaitTask \/ AwaitLast
  BY <1>3, AwaitInv
<1>4. CASE Merge \/ Undo \/ Return
  BY <1>4, RoundInv
<1>5. CASE SwapTasks \/ ResetNext \/ ResetEnd
  BY <1>5, SwapInv, ResetInv
<1> QED
  BY <1>1, <1>2, <1>3, <1>4, <1>5 DEF MainStep

-----------------------------------------------------------------------------
(* The dealing of the chunks: what the recursive definitions come to. *)

\* A set with 0 and with the successors of its numbers has all up to m.
LEMMA Counting ==
  ASSUME NEW m \in Nat, NEW S, 0 \in S, \A n \in 0 .. m - 1 : n \in S => n + 1 \in S
  PROVE  0 .. m \subseteq S
<1> SUFFICES ASSUME (0 .. m) \ S # {} PROVE FALSE
  OBVIOUS
<1>1. PICK R : R = OpToRel(<, Nat)
  OBVIOUS
<1>2. IsWellFoundedOn(R, Nat)
  BY <1>1, NatLessThanWellFounded
<1>3. \A x, y \in Nat : x < y => <<x, y>> \in R
  BY <1>1 DEF OpToRel
<1>4. (0 .. m) \ S \subseteq Nat
  OBVIOUS
<1>5. PICK n \in (0 .. m) \ S : \A y \in (0 .. m) \ S : ~ (<<y, n>> \in R)
  BY <1>2, <1>4, WFMin
<1>6. n \in 1 .. m /\ n - 1 \in 0 .. m - 1
  BY <1>5
<1>7. n - 1 \in S
  <2>1. n - 1 \in Nat /\ n \in Nat /\ n - 1 < n /\ n - 1 \in 0 .. m
    BY <1>6
  <2>2. <<n - 1, n>> \in R
    BY <1>3, <2>1
  <2> QED
    BY <1>5, <2>1, <2>2
<1>8. n - 1 + 1 = n
  BY <1>6
<1> QED
  BY <1>5, <1>6, <1>7, <1>8

\* The chunks dealt to the threads up to w.
Upto(w) == w * (pool_chunks \div NumThreads)
    + (IF w < pool_chunks % NumThreads THEN w ELSE pool_chunks % NumThreads)

\* Upto is the sum of the shares, and all chunks in the end.
LEMMA UptoFacts ==
  ASSUME pool_chunks \in Chunks
  PROVE  /\ Upto(0) = 0 /\ Upto(NumThreads) = pool_chunks
         /\ \A w \in 0 .. NumThreads : Upto(w) \in Nat /\ Upto(w) <= pool_chunks
         /\ \A w \in Workers : Upto(w) = Upto(w - 1) + Share(w)
         /\ \A w \in Workers : Share(w) \in Nat
         /\ \A u, w \in Workers : u < w => Upto(u) <= Upto(w - 1)
<1> DEFINE d == pool_chunks \div NumThreads
           r == pool_chunks % NumThreads
<1>1. d \in Nat /\ r \in 0 .. NumThreads - 1 /\ pool_chunks = NumThreads * d + r
      /\ pool_chunks \in Nat
  BY MaxChunksAssumption DEF Chunks
<1> HIDE DEF d, r
<1>2. \A w : Upto(w) = w * d + (IF w < r THEN w ELSE r)
  BY DEF Upto, d, r
<1>3. \A w : Share(w) = d + (IF w - 1 < r THEN 1 ELSE 0)
  BY DEF Share, d, r
<1>4. ASSUME NEW u \in 0 .. NumThreads, NEW w \in 0 .. NumThreads, u <= w
      PROVE  u * d \in Nat /\ w * d \in Nat /\ u * d <= w * d
  <2>1. w - u \in Nat /\ u \in Nat /\ w \in Nat /\ w = u + (w - u)
    BY <1>4
  <2>2. u * d \in Nat /\ w * d \in Nat /\ (w - u) * d \in Nat
    BY <1>1, <2>1
  <2>3. w * d = u * d + (w - u) * d
    BY <1>1, <2>1
  <2> QED
    BY <2>2, <2>3
<1>5. ASSUME NEW w \in Workers
      PROVE  w * d = (w - 1) * d + d /\ w - 1 \in 0 .. NumThreads /\ w \in 1 .. NumThreads
  BY <1>1 DEF Workers
<1>6. \A w \in 0 .. NumThreads : Upto(w) \in Nat
  BY <1>1, <1>2, <1>4
<1>7. \A u, w \in 0 .. NumThreads : u <= w => Upto(u) <= Upto(w)
  BY <1>1, <1>2, <1>4
<1>8. Upto(0) = 0 /\ Upto(NumThreads) = pool_chunks
  BY <1>1, <1>2
<1>9. \A w \in Workers : Share(w) \in Nat
  BY <1>1, <1>3
<1>10. ASSUME NEW w \in Workers PROVE Upto(w) = Upto(w - 1) + Share(w)
  <2>1. /\ Upto(w) = w * d + (IF w < r THEN w ELSE r)
        /\ Upto(w - 1) = (w - 1) * d + (IF w - 1 < r THEN w - 1 ELSE r)
        /\ Share(w) = d + (IF w - 1 < r THEN 1 ELSE 0)
    BY <1>2, <1>3
  <2>2. (w - 1) * d \in Nat /\ w * d = (w - 1) * d + d /\ w \in 1 .. NumThreads
    BY <1>4, <1>5
  <2> QED
    BY <1>1, <2>1, <2>2
<1>11. \A u, w \in Workers : u < w => Upto(u) <= Upto(w - 1)
  BY <1>7 DEF Workers
<1> QED
  BY <1>6, <1>7, <1>8, <1>9, <1>10, <1>11

\* The closed form of FirstChunk.
LEMMA FirstChunkFacts ==
  ASSUME pool_chunks \in Chunks
  PROVE  \A w \in Workers : FirstChunk[w] = Upto(w - 1) + 1
<1> DEFINE Recurs(f) ==
             f = [w \in Workers |-> IF w = 1 THEN 1 ELSE f[w - 1] + Share(w - 1)]
           first == [w \in Workers |-> Upto(w - 1) + 1]
<1>1. Recurs(first)
  <2>1. ASSUME NEW w \in Workers
        PROVE first[w] = IF w = 1 THEN 1 ELSE first[w - 1] + Share(w - 1)
    <3>1. CASE w = 1
      BY <3>1, UptoFacts
    <3>2. CASE w # 1
      <4>1. w - 1 \in Workers
        BY <3>2 DEF Workers
      <4>2. Upto(w - 1) = Upto(w - 1 - 1) + Share(w - 1)
        BY <4>1, UptoFacts
      <4>3. w - 1 - 1 \in 0 .. NumThreads
        BY <4>1 DEF Workers
      <4>4. Upto(w - 1 - 1) \in Nat /\ Share(w - 1) \in Nat
        BY <4>1, <4>3, UptoFacts
      <4> QED
        BY <3>2, <4>1, <4>2, <4>4
    <3> QED
      BY <3>1, <3>2
  <2> QED
    BY <2>1
<1>2. FirstChunk = CHOOSE f : Recurs(f)
  BY DEF FirstChunk
<1>3. Recurs(FirstChunk)
  BY <1>1, <1>2
<1> DEFINE S == {n \in 0 .. NumThreads : n = 0 \/ FirstChunk[n] = Upto(n - 1) + 1}
<1>4. 0 .. NumThreads \subseteq S
  <2>1. ASSUME NEW n \in 0 .. NumThreads - 1, n \in S PROVE n + 1 \in S
    <3>1. n + 1 \in Workers /\ n + 1 - 1 = n
      BY DEF Workers
    <3>2. CASE n = 0
      BY <1>3, <3>1, <3>2, UptoFacts
    <3>3. CASE n # 0
      <4>1. n \in Workers
        BY <3>3 DEF Workers
      <4>2. FirstChunk[n + 1] = FirstChunk[n] + Share(n)
        BY <1>3, <3>1, <3>3
      <4>3. Upto(n) = Upto(n - 1) + Share(n) /\ Upto(n - 1) \in Nat /\ Share(n) \in Nat
        <5>1. n - 1 \in 0 .. NumThreads
          BY <4>1 DEF Workers
        <5> QED
          BY <4>1, <5>1, UptoFacts
      <4> QED
        BY <2>1, <3>1, <3>3, <4>2, <4>3
    <3> QED
      BY <3>2, <3>3
  <2> HIDE DEF S
  <2>2. 0 \in S
    BY DEF S
  <2> QED
    BY <2>1, <2>2, Counting
<1> QED
  BY <1>4 DEF Workers

\* The chunks dealt to a thread.
Dealt(w) == FirstChunk[w] .. FirstChunk[w] + Share(w) - 1

\* Every chunk is dealt to one thread, and no other.
LEMMA DealtFacts ==
  ASSUME pool_chunks \in Chunks
  PROVE  /\ pool_chunks \in Nat
         /\ \A w \in Workers : FirstChunk[w] \in Nat \ {0} /\ Share(w) \in Nat
         /\ \A w \in Workers : Dealt(w) \subseteq 1 .. pool_chunks
         /\ \A u, w \in Workers : u # w => Dealt(u) \intersect Dealt(w) = {}
         /\ \A c \in 1 .. pool_chunks : \E w \in Workers : c \in Dealt(w)
<1>1. pool_chunks \in Nat
  BY MaxChunksAssumption DEF Chunks
<1>2. ASSUME NEW w \in Workers
      PROVE  /\ w \in 0 .. NumThreads /\ w - 1 \in 0 .. NumThreads
             /\ Upto(w) \in Nat /\ Upto(w - 1) \in Nat /\ Upto(w) <= pool_chunks
             /\ FirstChunk[w] = Upto(w - 1) + 1 /\ Share(w) \in Nat
             /\ Upto(w) = Upto(w - 1) + Share(w)
  <2>1. w \in 0 .. NumThreads /\ w - 1 \in 0 .. NumThreads
    BY DEF Workers
  <2> QED
    BY <2>1, UptoFacts, FirstChunkFacts
<1>3. \A w \in Workers : Dealt(w) = Upto(w - 1) + 1 .. Upto(w)
  BY <1>2 DEF Dealt
<1>4. \A w \in Workers : FirstChunk[w] \in Nat \ {0} /\ Share(w) \in Nat
  BY <1>2
<1>5. \A w \in Workers : Dealt(w) \subseteq 1 .. pool_chunks
  BY <1>1, <1>2, <1>3
<1>6. ASSUME NEW u \in Workers, NEW w \in Workers, u < w
      PROVE  Dealt(u) \intersect Dealt(w) = {}
  <2>1. Upto(u) <= Upto(w - 1)
    BY <1>6, UptoFacts
  <2>2. Upto(u - 1) \in Nat /\ Upto(u) \in Nat /\ Upto(w - 1) \in Nat /\ Upto(w) \in Nat
    BY <1>2
  <2>3. Dealt(u) = Upto(u - 1) + 1 .. Upto(u) /\ Dealt(w) = Upto(w - 1) + 1 .. Upto(w)
    BY <1>3
  <2>4. /\ \A c \in Dealt(u) : c \in Int /\ c <= Upto(u)
        /\ \A c \in Dealt(w) : c \in Int /\ Upto(w - 1) + 1 <= c
    BY <2>2, <2>3
  <2> QED
    BY <2>1, <2>2, <2>4
<1>7. \A u, w \in Workers : u # w => Dealt(u) \intersect Dealt(w) = {}
  <2>1. \A u, w \in Workers : u # w => u < w \/ w < u
    BY DEF Workers
  <2> QED
    BY <1>6, <2>1
<1> DEFINE S == {n \in 0 .. NumThreads :
                   \A c \in 1 .. Upto(n) : \E w \in Workers : c \in Dealt(w)}
<1>8. 0 .. NumThreads \subseteq S
  <2>1. 0 \in S
    BY UptoFacts
  <2>2. ASSUME NEW n \in 0 .. NumThreads - 1, n \in S PROVE n + 1 \in S
    <3>1. PICK w \in Workers : w = n + 1 /\ w - 1 = n /\ w \in 0 .. NumThreads
      BY DEF Workers
    <3>2. ASSUME NEW c \in 1 .. Upto(w) PROVE \E u \in Workers : c \in Dealt(u)
      <4>1. c \in 1 .. Upto(n) \/ c \in Dealt(w)
        BY <1>2, <1>3, <3>1
      <4> QED
        BY <2>2, <4>1
    <3> QED
      BY <3>1, <3>2
  <2> HIDE DEF S
  <2> QED
    BY <2>1, <2>2, Counting
<1>9. \A c \in 1 .. pool_chunks : \E w \in Workers : c \in Dealt(w)
  BY <1>8, UptoFacts
<1> QED
  BY <1>1, <1>4, <1>5, <1>7, <1>9

\* The first m chunks of instance n, in order.
Leading(n, m) == [c \in 1 .. m |-> <<n, c>>]

\* A run of chunks goes on with another.
LEMMA LeadingFacts ==
  ASSUME NEW n \in Instances, NEW m \in Nat, NEW k \in Nat
  PROVE  /\ Leading(n, m) \in Seq(Instances \X Nat) /\ Len(Leading(n, m)) = m
         /\ Leading(n, m) \o [c \in 1 .. k |-> <<n, m + c>>] = Leading(n, m + k)
<1> DEFINE more == [c \in 1 .. k |-> <<n, m + c>>]
           Pairs == Instances \X Nat
<1>1. Leading(n, m) \in Seq(Pairs) /\ Len(Leading(n, m)) = m
  <2>1. \A c \in 1 .. m : <<n, c>> \in Pairs
    OBVIOUS
  <2> HIDE DEF Pairs
  <2> QED
    BY <2>1 DEF Leading
<1>2. more \in Seq(Pairs) /\ Len(more) = k
  <2>1. \A c \in 1 .. k : <<n, m + c>> \in Pairs
    OBVIOUS
  <2> HIDE DEF Pairs
  <2> QED
    BY <2>1
<1>3. \A c \in 1 .. m : Leading(n, m)[c] = <<n, c>>
  BY DEF Leading
<1>4. \A c \in 1 .. k : more[c] = <<n, m + c>>
  OBVIOUS
<1> DEFINE head == Leading(n, m)
           all == head \o more
<1> HIDE DEF more, Pairs, head
<1>5. /\ all \in Seq(Pairs) /\ Len(all) = m + k
      /\ \A c \in 1 .. m + k : all[c] = IF c <= m THEN head[c] ELSE more[c - m]
  BY <1>1, <1>2 DEF head
<1> HIDE DEF all
<1>6. ASSUME NEW c \in 1 .. m + k PROVE all[c] = <<n, c>>
  <2>1. CASE c <= m
    <3>1. c \in 1 .. m /\ all[c] = head[c]
      BY <1>5, <2>1
    <3> QED
      BY <1>3, <3>1 DEF head
  <2>2. CASE ~ c <= m
    <3>1. c - m \in 1 .. k /\ m + (c - m) = c /\ all[c] = more[c - m]
      BY <1>5, <2>2
    <3>2. more[c - m] = <<n, m + (c - m)>>
      BY <1>4, <3>1, Zenon
    <3> QED
      BY <3>1, <3>2, Zenon
  <2> QED
    BY <2>1, <2>2
<1>7. all = [c \in 1 .. m + k |-> all[c]]
  <2>1. m + k \in Nat
    OBVIOUS
  <2> QED
    BY <1>5, <2>1
<1>8. all = Leading(n, m + k)
  BY <1>6, <1>7, Zenon DEF Leading
<1> QED
  BY <1>1, <1>8 DEF all, head, more, Pairs

\* The lists of the threads, one after the other, are all chunks in order.
LEMMA MergedFacts ==
  ASSUME pool_chunks \in Chunks, NEW n \in Instances,
         \A w \in Workers :
           free[w] = [k \in 1 .. Share(w) |-> <<n, FirstChunk[w] + k - 1>>]
  PROVE  Merged[NumThreads] = Leading(n, pool_chunks)
<1> DEFINE Recurs(f) ==
             f = [w \in 0 .. NumThreads |-> IF w = 0 THEN <<>> ELSE f[w - 1] \o free[w]]
           merged == [w \in 0 .. NumThreads |-> Leading(n, Upto(w))]
<1>1. ASSUME NEW w \in Workers
      PROVE  Leading(n, Upto(w - 1)) \o free[w] = Leading(n, Upto(w))
  <2>1. w - 1 \in 0 .. NumThreads /\ w \in 0 .. NumThreads
    BY DEF Workers
  <2>2. /\ Upto(w - 1) \in Nat /\ Share(w) \in Nat /\ Upto(w) = Upto(w - 1) + Share(w)
        /\ FirstChunk[w] = Upto(w - 1) + 1
    BY <2>1, UptoFacts, FirstChunkFacts
  <2>3. free[w] = [k \in 1 .. Share(w) |-> <<n, Upto(w - 1) + k>>]
    <3>1. \A k \in 1 .. Share(w) : FirstChunk[w] + k - 1 = Upto(w - 1) + k
      BY <2>2
    <3> QED
      BY <3>1
  <2>4. Leading(n, Upto(w - 1)) \o [k \in 1 .. Share(w) |-> <<n, Upto(w - 1) + k>>]
          = Leading(n, Upto(w - 1) + Share(w))
    BY <2>2, LeadingFacts
  <2> QED
    BY <2>2, <2>3, <2>4, Zenon
<1>2. Leading(n, Upto(0)) = <<>>
  BY UptoFacts DEF Leading
<1>3. Recurs(merged)
  <2>1. ASSUME NEW w \in 0 .. NumThreads
        PROVE  merged[w] = IF w = 0 THEN <<>> ELSE merged[w - 1] \o free[w]
    <3>1. CASE w = 0
      BY <1>2, <3>1
    <3>2. CASE w # 0
      <4>1. w \in Workers /\ w - 1 \in 0 .. NumThreads
        BY <3>2 DEF Workers
      <4>2. merged[w] = Leading(n, Upto(w)) /\ merged[w - 1] = Leading(n, Upto(w - 1))
        BY <4>1
      <4>3. merged[w] = merged[w - 1] \o free[w]
        BY <1>1, <4>1, <4>2
      <4> QED
        BY <3>2, <4>3, Zenon
    <3> QED
      BY <3>1, <3>2
  <2> QED
    BY <2>1
<1>4. Merged = CHOOSE f : Recurs(f)
  BY DEF Merged
<1>5. Recurs(Merged)
  BY <1>3, <1>4
<1>6. \A w \in Workers : Merged[w] = Merged[w - 1] \o free[w]
  <2>1. Merged = [w \in 0 .. NumThreads |->
                    IF w = 0 THEN <<>> ELSE Merged[w - 1] \o free[w]]
    BY <1>5
  <2>2. \A w \in Workers : w \in 0 .. NumThreads /\ w # 0
    BY DEF Workers
  <2> QED
    BY <2>1, <2>2, Zenon
<1> DEFINE S == {k \in 0 .. NumThreads : Merged[k] = Leading(n, Upto(k))}
<1>7. 0 .. NumThreads \subseteq S
  <2>1. ASSUME NEW k \in 0 .. NumThreads - 1, k \in S PROVE k + 1 \in S
    <3>1. PICK w \in Workers : w = k + 1 /\ w - 1 = k /\ w \in 0 .. NumThreads
      BY DEF Workers
    <3>2. Merged[w] = Merged[k] \o free[w]
      BY <1>6, <3>1
    <3>3. Merged[k] = Leading(n, Upto(k))
      BY <2>1
    <3>4. Leading(n, Upto(k)) \o free[w] = Leading(n, Upto(w))
      BY <1>1, <3>1
    <3> QED
      BY <3>1, <3>2, <3>3, <3>4
  <2>2. 0 \in S
    BY <1>2, <1>5
  <2> HIDE DEF S
  <2> QED
    BY <2>1, <2>2, Counting
<1> QED
  BY <1>7, UptoFacts

\* The sum of the shares of the threads in a set.
Shares(s) == Cardinality(s) * (pool_chunks \div NumThreads)
               + Cardinality(s \intersect (1 .. pool_chunks % NumThreads))

\* Shares is the sum of the shares, whichever thread is taken out first.
LEMMA SharesFacts ==
  ASSUME pool_chunks \in Chunks
  PROVE  /\ Shares({}) = 0 /\ Shares(Workers) = pool_chunks
         /\ \A s \in SUBSET Workers : \A w \in s :
              /\ Shares(s \ {w}) \in Nat /\ Shares(s) = Share(w) + Shares(s \ {w})
<1> DEFINE d == pool_chunks \div NumThreads
           r == pool_chunks % NumThreads
<1>1. d \in Nat /\ r \in 0 .. NumThreads - 1 /\ pool_chunks = NumThreads * d + r
      /\ pool_chunks \in Nat
  BY MaxChunksAssumption DEF Chunks
<1> HIDE DEF d, r
<1>2. \A s : Shares(s) = Cardinality(s) * d + Cardinality(s \intersect (1 .. r))
  BY DEF Shares, d, r
<1>3. \A w : Share(w) = d + (IF w - 1 < r THEN 1 ELSE 0)
  BY DEF Share, d, r
<1>4. IsFiniteSet(Workers) /\ Cardinality(Workers) = NumThreads
  BY FS_Interval DEF Workers
<1>5. IsFiniteSet(1 .. r) /\ Cardinality(1 .. r) = r
  BY <1>1, FS_Interval
<1>6. Shares({}) = 0
  <2>1. {} \intersect (1 .. r) = {}
    OBVIOUS
  <2> QED
    BY <1>1, <1>2, <2>1, FS_EmptySet
<1>7. Shares(Workers) = pool_chunks
  <2>1. Workers \intersect (1 .. r) = 1 .. r
    BY <1>1 DEF Workers
  <2> QED
    BY <1>1, <1>2, <1>4, <1>5, <2>1
<1>8. ASSUME NEW s \in SUBSET Workers, NEW w \in s
      PROVE  Shares(s \ {w}) \in Nat /\ Shares(s) = Share(w) + Shares(s \ {w})
  <2> DEFINE t == s \intersect (1 .. r)
             m == Cardinality(s \ {w})
             k == Cardinality((s \ {w}) \intersect (1 .. r))
  <2>1. IsFiniteSet(s) /\ IsFiniteSet(t)
    BY <1>4, FS_Subset
  <2>2. m \in Nat /\ Cardinality(s) = m + 1
    <3>1. m = Cardinality(s) - 1 /\ Cardinality(s) \in Nat /\ m \in Nat
      BY <2>1, FS_RemoveElement, FS_CardinalityType
    <3> QED
      BY <3>1
  <2>3. k \in Nat /\ Cardinality(t) = k + (IF w - 1 < r THEN 1 ELSE 0)
    <3>1. w \in Nat \ {0}
      BY DEF Workers
    <3>2. CASE w - 1 < r
      <4>1. w \in t /\ (s \ {w}) \intersect (1 .. r) = t \ {w}
        BY <1>1, <3>1, <3>2
      <4>2. k = Cardinality(t) - 1 /\ Cardinality(t) \in Nat /\ IsFiniteSet(t \ {w})
        <5>1. Cardinality(t \ {w}) = Cardinality(t) - 1 /\ IsFiniteSet(t \ {w})
          BY <2>1, <4>1, FS_RemoveElement
        <5> QED
          BY <2>1, <4>1, <5>1, FS_CardinalityType
      <4>3. k \in Nat
        BY <4>1, <4>2, FS_CardinalityType
      <4> QED
        BY <3>2, <4>2, <4>3
    <3>3. CASE ~ (w - 1 < r)
      <4>1. (s \ {w}) \intersect (1 .. r) = t
        BY <1>1, <3>1, <3>3
      <4>2. k = Cardinality(t) /\ Cardinality(t) \in Nat
        BY <2>1, <4>1, FS_CardinalityType
      <4> QED
        BY <3>3, <4>2
    <3> QED
      BY <3>2, <3>3
  <2>4. /\ Shares(s \ {w}) = m * d + k /\ Shares(s) = (m + 1) * d + Cardinality(t)
        /\ Share(w) = d + (IF w - 1 < r THEN 1 ELSE 0)
    BY <1>2, <1>3, <2>2
  <2> HIDE DEF m, k, t
  <2>5. m * d \in Nat /\ (m + 1) * d = m * d + d
    BY <1>1, <2>2
  <2> QED
    BY <1>1, <2>3, <2>4, <2>5
<1> QED
  BY <1>6, <1>7, <1>8

\* The fold over what the threads have initialised is all chunks.
LEMMA SumFacts ==
  ASSUME pool_chunks \in Chunks, i \in [Workers -> Nat], \A w \in Workers : i[w] = Share(w)
  PROVE  FoldFunction(+, 0, i) = pool_chunks
<1> DEFINE Recurs(f) ==
             f = [s \in SUBSET Workers |->
                    IF s = {} THEN 0
                    ELSE i[CHOOSE w \in s : TRUE] + f[s \ {CHOOSE w \in s : TRUE}]]
           sums == [s \in SUBSET Workers |-> Shares(s)]
<1>1. DOMAIN i = Workers
  OBVIOUS
<1>2. FoldFunction(+, 0, i) = (CHOOSE f : Recurs(f))[Workers]
  BY <1>1 DEF FoldFunction, FoldFunctionOnSet, MapThenFoldSet
<1>3. ASSUME NEW s \in SUBSET Workers, s # {}
      PROVE  (CHOOSE w \in s : TRUE) \in s
  BY <1>3
<1> DEFINE rest(s) == s \ {CHOOSE w \in s : TRUE}
<1>4. ASSUME NEW s \in SUBSET Workers, s # {}
      PROVE  /\ rest(s) \in SUBSET Workers
             /\ Shares(rest(s)) \in Nat
             /\ Shares(s) = i[CHOOSE w \in s : TRUE] + Shares(rest(s))
  BY <1>3, <1>4, SharesFacts
<1>5. Recurs(sums)
  <2>1. ASSUME NEW s \in SUBSET Workers
        PROVE  sums[s] = IF s = {} THEN 0 ELSE i[CHOOSE w \in s : TRUE] + sums[rest(s)]
    BY <1>4, SharesFacts
  <2> QED
    BY <2>1
<1> DEFINE sum == CHOOSE f : Recurs(f)
<1>6. Recurs(sum)
  BY <1>5
<1> HIDE DEF sum
<1> DEFINE S == {n \in 0 .. NumThreads :
                   \A s \in SUBSET Workers : Cardinality(s) = n => sum[s] = Shares(s)}
<1>7. IsFiniteSet(Workers) /\ Cardinality(Workers) = NumThreads
  BY FS_Interval DEF Workers
<1>8. 0 .. NumThreads \subseteq S
  <2>1. 0 \in S
    <3>1. ASSUME NEW s \in SUBSET Workers, Cardinality(s) = 0 PROVE s = {}
      BY <1>7, <3>1, FS_Subset, FS_EmptySet
    <3>2. sum[{}] = 0
      BY <1>6
    <3>3. ASSUME NEW s \in SUBSET Workers, Cardinality(s) = 0 PROVE sum[s] = Shares(s)
      BY <3>1, <3>2, <3>3, SharesFacts
    <3> QED
      BY <3>3
  <2>2. ASSUME NEW n \in 0 .. NumThreads - 1, n \in S PROVE n + 1 \in S
    <3>1. ASSUME NEW s \in SUBSET Workers, Cardinality(s) = n + 1 PROVE sum[s] = Shares(s)
      <4>1. IsFiniteSet(s) /\ s # {}
        BY <1>7, <3>1, FS_Subset, FS_EmptySet
      <4>2. rest(s) \in SUBSET Workers /\ Cardinality(rest(s)) = n
        <5>1. PICK w \in s : w = CHOOSE u \in s : TRUE
          BY <1>3, <4>1
        <5>2. Cardinality(s \ {w}) = Cardinality(s) - 1
          BY <4>1, FS_RemoveElement
        <5>3. Cardinality(s \ {w}) = n
          BY <3>1, <5>2
        <5> QED
          BY <5>1, <5>3
      <4>3. sum[rest(s)] = Shares(rest(s))
        BY <2>2, <4>2
      <4>4. sum[s] = i[CHOOSE w \in s : TRUE] + sum[rest(s)]
        BY <1>6, <4>1
      <4> QED
        BY <1>4, <4>1, <4>3, <4>4
    <3> QED
      BY <3>1
  <2> HIDE DEF S
  <2> QED
    BY <2>1, <2>2, Counting
<1>9. sum[Workers] = Shares(Workers)
  BY <1>7, <1>8
<1> QED
  BY <1>2, <1>9, SharesFacts DEF sum

-----------------------------------------------------------------------------
(* What is initialised. *)

\* What is dealt depends on the number of chunks only.
LEMMA Rigid ==
  ASSUME pool_chunks' = pool_chunks
  PROVE  FirstChunk' = FirstChunk /\ \A w \in Workers : Share(w)' = Share(w)
<1>1. \A w : Share(w)' = Share(w)
  BY DEF Share
<1> QED
  BY <1>1 DEF FirstChunk

\* Each thread has its chunks from the first on, and has no other's.
LEMMA MineFacts ==
  ASSUME DataInv, NEW w \in Workers
  PROVE  /\ FirstChunk[w] \in Nat \ {0} /\ Share(w) \in Nat
         /\ Got(w) \in Nat /\ Got(w) <= Share(w)
         /\ Mine(w) \subseteq Dealt(w) /\ Dealt(w) \subseteq 1 .. pool_chunks
         /\ 1 .. pool_chunks \subseteq Chunks /\ pool_chunks \in Nat
<1>1. /\ pool_chunks \in Chunks /\ i[w] \in Nat /\ Got(w) <= Share(w)
  BY DEF DataInv, DataTypes, ThreadsInv
<1>2. /\ FirstChunk[w] \in Nat \ {0} /\ Share(w) \in Nat /\ pool_chunks \in Nat
      /\ Dealt(w) \subseteq 1 .. pool_chunks
  BY <1>1, DealtFacts
<1>3. Got(w) \in Nat
  BY <1>1 DEF Got
<1>4. Mine(w) \subseteq Dealt(w)
  BY <1>1, <1>2, <1>3 DEF Mine, Dealt
<1>5. 1 .. pool_chunks \subseteq Chunks
  BY <1>1, <1>2, MaxChunksAssumption DEF Chunks
<1> QED
  BY <1>1, <1>2, <1>3, <1>4, <1>5

\* Outside the rounds of initialisation nobody has anything.
LEMMA Idle ==
  ASSUME ~ Initialising
  PROVE  \A w \in Workers : Fresh(w) /\ Got(w) = 0
BY DEF Fresh, Got

\* The instances that are complete are instances.
LEMMA BuiltFacts ==
  ASSUME TypeOK
  PROVE  Built \subseteq Instances /\ instance \in Instances
<1>1. instance \in 1 .. NumInstances
  BY DEF TypeOK, Instances
<1>2. /\ 1 .. instance - 1 \subseteq 1 .. NumInstances
      /\ 1 .. instance \subseteq 1 .. NumInstances
  <2>1. /\ instance \in Nat /\ instance - 1 \in Int
        /\ NumInstances \in Nat /\ instance <= NumInstances
    BY <1>1
  <2>2. ASSUME NEW n \in Int, 1 <= n, n <= instance PROVE n \in 1 .. NumInstances
    BY <2>1, <2>2
  <2> QED
    BY <2>1, <2>2
<1> QED
  BY <1>1, <1>2 DEF Built, Instances

\* A list of chunks grows by the next one.
LEMMA RunGrows ==
  ASSUME NEW n \in Instances, NEW a \in Nat, NEW k \in Nat
  PROVE  Append([m \in 1 .. k |-> <<n, a + m - 1>>], <<n, a + k>>)
           = [m \in 1 .. k + 1 |-> <<n, a + m - 1>>]
<1> DEFINE f == [m \in 1 .. k |-> <<n, a + m - 1>>]
           all == Append(f, <<n, a + k>>)
           Pairs == Instances \X Int
<1>1. f \in Seq(Pairs) /\ Len(f) = k /\ <<n, a + k>> \in Pairs
  <2>1. \A m \in 1 .. k : <<n, a + m - 1>> \in Pairs
    OBVIOUS
  <2>2. <<n, a + k>> \in Pairs
    OBVIOUS
  <2> HIDE DEF Pairs
  <2> QED
    BY <2>1, <2>2
<1>2. \A m \in 1 .. k : f[m] = <<n, a + m - 1>>
  OBVIOUS
<1> HIDE DEF f, Pairs
<1>3. /\ all \in Seq(Pairs) /\ Len(all) = k + 1
      /\ \A m \in 1 .. k + 1 : all[m] = IF m <= k THEN f[m] ELSE <<n, a + k>>
  BY <1>1
<1> HIDE DEF all
<1>4. ASSUME NEW m \in 1 .. k + 1 PROVE all[m] = <<n, a + m - 1>>
  <2>1. CASE m <= k
    <3>1. m \in 1 .. k /\ all[m] = f[m]
      BY <1>3, <2>1
    <3> QED
      BY <1>2, <3>1
  <2>2. CASE ~ m <= k
    <3>1. a + m - 1 = a + k /\ all[m] = <<n, a + k>>
      BY <1>3, <2>2
    <3> QED
      BY <3>1
  <2> QED
    BY <2>1, <2>2
<1>5. all = [m \in 1 .. k + 1 |-> all[m]]
  <2>1. k + 1 \in Nat
    OBVIOUS
  <2> QED
    BY <1>3, <2>1
<1>6. all = [m \in 1 .. k + 1 |-> <<n, a + m - 1>>]
  BY <1>4, <1>5, Zenon
<1> QED
  BY <1>6 DEF all, f

dataVars == <<task_error, buf_pool, n_chunks, chunk_ptr, init_n_chunks, free, rw_locks,
              i, chunk, instance, result, pool_chunks, made, pool_free, curr_size,
              rw_lock_list>>

\* A step that leaves the data alone, and everyone where it was in its loop.
LEMMA DataStays ==
  ASSUME DataInv, UNCHANGED dataVars,
         BeforeMerge' <=> BeforeMerge,
         \A w \in Workers : pc'[w] = "chunk" => pc[w] = "chunk",
         mpc' \in {"set", "await", "awaiting"} => mpc \in {"set", "await", "awaiting"},
         bpi_finished' \/ mpc' = "end" => bpi_finished \/ mpc = "end",
         \/ ~ Initialising /\ ~ Initialising'
         \/ /\ Initialising /\ Initialising'
            /\ \A w \in Workers : (pc'[w] = "chunk" <=> pc[w] = "chunk")
                                  /\ (Done(w)' <=> Done(w))
         \/ /\ ~ Initialising
            /\ \A w \in Workers : pc'[w] # "chunk" /\ ~ Done(w)'
  PROVE  DataInv'
<1>1. /\ DataTypes /\ ThreadsInv /\ InstancesInv
      /\ UNCHANGED <<task_error, buf_pool, n_chunks, chunk_ptr, init_n_chunks, free,
                     rw_locks, i, chunk, instance, result, pool_chunks, made, pool_free,
                     curr_size, rw_lock_list>>
  BY DEF DataInv, dataVars
<1>2. FirstChunk' = FirstChunk /\ \A w \in Workers : Share(w)' = Share(w)
  BY <1>1, Rigid
<1>3. \A w \in Workers : Fresh(w)' <=> Fresh(w)
  BY DEF Fresh
<1>4. \A w \in Workers : Got(w)' = Got(w)
  BY <1>1, <1>3 DEF Got
<1>5. \A w \in Workers : Mine(w)' = Mine(w)
  BY <1>2, <1>4 DEF Mine
<1>6. \A w \in Workers : Initialising' /\ Done(w)' => Initialising /\ Done(w)
  OBVIOUS
<1>7. Built' = Built
  BY <1>1 DEF Built
<1>8. DataTypes'
  BY <1>1 DEF DataTypes
<1>9. ThreadsInv'
  BY <1>1, <1>2, <1>4, <1>5, <1>6 DEF ThreadsInv
<1>10. InstancesInv'
  <2>1. \A n \in Built' : Complete(n)'
    BY <1>1, <1>7 DEF InstancesInv, Complete
  <2>2. Initialising => Initialising'
    OBVIOUS
  <2>3. \A n \in Instances \ Built' :
         /\ pool_free'[n] = <<>> /\ curr_size'[n] = 0
         /\ \A c \in Chunks : made'[n][c] =
              IF n = instance' /\ \E w \in Workers : c \in Mine(w)' THEN 1 ELSE 0
    BY <1>1, <1>5, <1>7 DEF InstancesInv
  <2> QED
    BY <1>1, <1>7, <2>1, <2>2, <2>3 DEF InstancesInv
<1> QED
  BY <1>8, <1>9, <1>10 DEF DataInv

\* A thread in its loop is in a round of initialisation.
LEMMA InTask ==
  ASSUME TypeOK, RoundsInv, NEW w \in Workers
  PROVE  /\ pc[w] \in {"chunk", "count"} => Initialising
         /\ pc[w] = "waiting" /\ Woken(w) /\ ~ bpi_finished => Initialising
         /\ Initialising => /\ ~ bpi_finished
                            /\ pc[w] \notin {"countout", "signalout", "exited"}
         /\ Initialising => Running /\ BeforeMerge
<1>1. EventsInv /\ PlaceInv /\ EventToCome \in Events
  BY EventFacts DEF RoundsInv
<1>2. w \in waiters[EventToCome] => pc[w] = "waiting" /\ ~ Woken(w)
  BY <1>1 DEF EventsInv, Woken
<1>3. Initialising => Running /\ BeforeMerge
  BY DEF Initialising, Running, BeforeMerge
<1>4. pc[w] \in {"chunk", "count"} => Initialising
  BY <1>1, <1>2 DEF PlaceInv, Running, Initialising
<1>5. pc[w] = "waiting" /\ Woken(w) /\ ~ bpi_finished => Initialising
  BY <1>1, <1>2 DEF PlaceInv, Running, Initialising
<1>6. Initialising => /\ ~ bpi_finished
                      /\ pc[w] \notin {"countout", "signalout", "exited"}
  BY <1>1 DEF PlaceInv, Initialising
<1> QED
  BY <1>3, <1>4, <1>5, <1>6

-----------------------------------------------------------------------------
(* The threads. *)

\* The steps of a thread by which it waits and is counted.
LEMMA WaitingKeeps ==
  ASSUME TypeOK, RoundsInv, DataInv, NEW w \in Workers,
         FirstWait(w) \/ WaitNext(w) \/ LeaveLoop(w) \/ CountTask(w) \/ CountOut(w)
           \/ SignalTask(w) \/ SignalOut(w)
  PROVE  DataInv'
<1>1. UNCHANGED dataVars /\ UNCHANGED <<mpc, bpi_finished>>
  BY DEF FirstWait, WaitNext, LeaveLoop, CountTask, CountOut, SignalTask, SignalOut,
     Count, Signal, task, info, main, pools, dataVars
<1>2. /\ BeforeMerge' = BeforeMerge /\ Initialising' = Initialising
  BY <1>1 DEF BeforeMerge, Initialising
<1>3. PICK to : pc' = [pc EXCEPT ![w] = to] /\ to # "chunk" /\ to # "count"
  BY DEF FirstWait, WaitNext, LeaveLoop, CountTask, CountOut, SignalTask, SignalOut,
     Count, Signal, Goto
<1>4. pc'[w] = to /\ \A u \in Workers : u # w => pc'[u] = pc[u]
  BY <1>3 DEF TypeOK
<1>5. \A u \in Workers : pc'[u] = "chunk" => pc[u] = "chunk"
  BY <1>3, <1>4
<1>6. CASE ~ Initialising
  BY <1>1, <1>2, <1>5, <1>6, DataStays
<1>7. CASE Initialising
  <2>1. /\ ~ bpi_finished /\ pc[w] \notin {"countout", "signalout", "exited"} /\ Running
    BY <1>7, InTask
  <2>2. pc[w] # "chunk"
    BY DEF FirstWait, WaitNext, LeaveLoop, CountTask, CountOut, SignalTask, SignalOut,
       Count, Signal
  <2>3. CASE FirstWait(w) \/ WaitNext(w) \/ SignalTask(w)
    <3>1. Counted' = Counted
      BY <2>1, <2>3, WaitInv, SignalStep
    <3>2. pc[w] # "count"
      BY <2>3 DEF FirstWait, WaitNext, SignalTask, Signal
    <3>3. \A u \in Workers : Done(u)' <=> Done(u)
      BY <1>3, <1>4, <3>1, <3>2 DEF Done
    <3> QED
      BY <1>1, <1>2, <1>3, <1>4, <1>5, <1>7, <2>2, <3>3, DataStays
  <2>4. CASE CountTask(w)
    <3>1. Counted' = Counted \union {w} /\ pc[w] = "count"
      BY <2>4, CountStep DEF CountTask, Count
    <3>2. \A u \in Workers : Done(u)' <=> Done(u)
      BY <1>3, <1>4, <3>1 DEF Done
    <3> QED
      BY <1>1, <1>2, <1>3, <1>4, <1>5, <1>7, <2>2, <3>2, DataStays
  <2> QED
    BY <2>1, <2>3, <2>4 DEF LeaveLoop, CountOut, Count, SignalOut, Signal
<1> QED
  BY <1>6, <1>7

\* A thread enters its loop over the chunks, with nothing.
LEMMA StartKeeps ==
  ASSUME TypeOK, RoundsInv, DataInv, NEW w \in Workers, StartTask(w)
  PROVE  DataInv'
<1>1. /\ DataTypes /\ ThreadsInv /\ InstancesInv
      /\ pc[w] = "waiting" /\ Woken(w) /\ ~ bpi_finished
      /\ pc' = [pc EXCEPT ![w] = "chunk"]
      /\ i' = [i EXCEPT ![w] = 0] /\ free' = [free EXCEPT ![w] = <<>>]
      /\ rw_locks' = [rw_locks EXCEPT ![w] = {}]
      /\ chunk' = [chunk EXCEPT ![w] = <<buf_pool, chunk_ptr[w]>>]
      /\ UNCHANGED <<waiters, mpc, bpi_finished, task_error, buf_pool, n_chunks,
                     chunk_ptr, init_n_chunks, instance, result, pool_chunks, made, pool_free,
                     curr_size, rw_lock_list>>
  BY DEF DataInv, StartTask, Goto, events, task, main, pools
<1>2. Initialising /\ Initialising'
  BY <1>1, InTask DEF Initialising
<1>3. FirstChunk' = FirstChunk /\ \A u \in Workers : Share(u)' = Share(u)
  BY <1>1, Rigid
<1>4. /\ pc'[w] = "chunk" /\ i'[w] = 0 /\ free'[w] = <<>> /\ rw_locks'[w] = {}
      /\ chunk'[w] = <<buf_pool, chunk_ptr[w]>>
      /\ \A u \in Workers : u # w => /\ pc'[u] = pc[u] /\ i'[u] = i[u]
                                    /\ chunk'[u] = chunk[u] /\ free'[u] = free[u]
                                    /\ rw_locks'[u] = rw_locks[u]
  BY <1>1 DEF TypeOK, DataTypes
<1>5. w \notin Counted /\ Counted' = Counted
  BY <1>1, <1>4 DEF Counted, Woken
<1>6. Fresh(w) /\ Got(w) = 0 /\ Got(w)' = 0 /\ ~ Done(w)'
  BY <1>1, <1>2, <1>4, <1>5 DEF Fresh, Done, Got
<1>7. \A u \in Workers : u # w => (Done(u)' <=> Done(u)) /\ Got(u)' = Got(u)
  BY <1>1, <1>2, <1>4, <1>5 DEF Fresh, Done, Got
<1>8. \A u \in Workers : Got(u)' = Got(u) /\ Mine(u)' = Mine(u)
  BY <1>3, <1>6, <1>7 DEF Mine
<1>9. DataTypes'
  <2>1. <<buf_pool, chunk_ptr[w]>> \in Instances \X Nat
    <3>1. buf_pool = instance
      BY <1>2 DEF DataInv, ThreadsInv, Initialising
    <3>2. chunk_ptr[w] \in Nat
      BY <1>1 DEF DataTypes
    <3> QED
      BY <3>1, <3>2 DEF TypeOK
  <2>2. PICK Pairs : Pairs = Instances \X Nat
    OBVIOUS
  <2>3. chunk' \in [Workers -> Pairs]
    BY <1>1, <2>1, <2>2 DEF DataTypes
  <2>4. free' \in [Workers -> Seq(Pairs)]
    <3>1. free \in [Workers -> Seq(Pairs)] /\ <<>> \in Seq(Pairs)
      BY <1>1, <2>2 DEF DataTypes
    <3> QED
      BY <1>1, <3>1
  <2>5. rw_locks' \in [Workers -> SUBSET Pairs] /\ i' \in [Workers -> Nat]
    BY <1>1, <2>2 DEF DataTypes
  <2> QED
    BY <1>1, <2>2, <2>3, <2>4, <2>5 DEF DataTypes
<1>10. ThreadsInv'
  <2>1. Mine(w) = {}
    BY <1>6, MineFacts DEF Mine
  <2>2. ASSUME NEW u \in Workers, result = "DB_SUCCESS"
        PROVE  /\ free'[u] = [k \in 1 .. Got(u)' |-> <<instance', FirstChunk'[u] + k - 1>>]
               /\ rw_locks'[u] = {instance'} \X Mine(u)'
    <3>1. CASE u = w
      <4>1. [k \in 1 .. Got(u)' |-> <<instance', FirstChunk'[u] + k - 1>>] = <<>>
        BY <1>6, <3>1
      <4>2. {instance'} \X Mine(u)' = {}
        BY <1>8, <2>1, <3>1
      <4> QED
        BY <1>4, <3>1, <4>1, <4>2
    <3>2. CASE u # w
      BY <1>1, <1>3, <1>4, <1>8, <2>2, <3>2 DEF ThreadsInv
    <3> QED
      BY <3>1, <3>2
  <2>3. \A u \in Workers : Got(u)' <= Share(u)'
    BY <1>1, <1>3, <1>8 DEF ThreadsInv
  <2>4. \A u \in Workers : Done(u)' => init_n_chunks'[u] = i'[u]
                                     /\ (task_error' \/ i'[u] = Share(u)')
    BY <1>1, <1>2, <1>3, <1>4, <1>6, <1>7 DEF ThreadsInv
  <2>5. ASSUME NEW u \in Workers, pc'[u] = "chunk"
        PROVE  chunk'[u] = <<instance', FirstChunk'[u] + i'[u]>>
    <3>1. CASE u = w
      <4>1. buf_pool = instance /\ chunk_ptr[w] = FirstChunk[w] /\ FirstChunk[w] \in Nat
        BY <1>1, <1>2, MineFacts DEF ThreadsInv, Initialising
      <4> QED
        BY <1>1, <1>3, <1>4, <3>1, <4>1
    <3>2. CASE u # w
      BY <1>1, <1>3, <1>4, <2>5, <3>2 DEF ThreadsInv
    <3> QED
      BY <3>1, <3>2
  <2> QED
    BY <1>1, <1>3, <2>2, <2>3, <2>4, <2>5 DEF ThreadsInv
<1>11. InstancesInv'
  <2>1. Built' = Built /\ BeforeMerge' = BeforeMerge
    BY <1>1 DEF Built, BeforeMerge
  <2>2. \A n \in Built' : Complete(n)'
    BY <1>1, <2>1 DEF InstancesInv, Complete
  <2>3. \A n \in Instances \ Built' :
         /\ pool_free'[n] = <<>> /\ curr_size'[n] = 0
         /\ \A c \in Chunks : made'[n][c] =
              IF n = instance' /\ \E u \in Workers : c \in Mine(u)' THEN 1 ELSE 0
    BY <1>1, <1>8, <2>1 DEF InstancesInv
  <2> QED
    BY <1>1, <1>2, <2>1, <2>2, <2>3 DEF InstancesInv
<1> QED
  BY <1>9, <1>10, <1>11 DEF DataInv

\* A thread initialises its next chunk, which nobody has.
LEMMA ChunkKeeps ==
  ASSUME TypeOK, RoundsInv, DataInv, NEW w \in Workers, InitChunk(w)
  PROVE  DataInv'
<1>1. PICK c : c = FirstChunk[w] + i[w]
  OBVIOUS
<1>2. /\ DataTypes /\ ThreadsInv /\ InstancesInv
      /\ pc[w] = "chunk" /\ i[w] < n_chunks[w]
      /\ i' = [i EXCEPT ![w] = @ + 1] /\ free' = [free EXCEPT ![w] = Append(@, chunk[w])]
      /\ rw_locks' = [rw_locks EXCEPT ![w] = @ \union {chunk[w]}]
      /\ UNCHANGED <<pc, waiters, mpc, bpi_finished, task_error, buf_pool, n_chunks,
                     chunk_ptr, init_n_chunks, instance, result, pool_chunks, pool_free,
                     curr_size, rw_lock_list>>
  BY DEF DataInv, InitChunk, events, task, main
<1>3. chunk[w] = <<instance, c>>
  BY <1>1, <1>2 DEF ThreadsInv
<1>4. /\ made' = [made EXCEPT ![instance][c] = IF @ < Often THEN @ + 1 ELSE @]
      /\ chunk' = [chunk EXCEPT ![w] = <<instance, c + 1>>]
  BY <1>3 DEF InitChunk
<1>5. Initialising /\ Initialising' /\ BeforeMerge /\ Running
  BY <1>2, InTask DEF Initialising
<1>6. result = "DB_SUCCESS"
  BY <1>2, <1>5 DEF InstancesInv, DataTypes
<1>7. i[w] < Share(w) /\ i[w] \in Nat
  BY <1>2, <1>5 DEF ThreadsInv, Initialising, DataTypes
<1>8. FirstChunk' = FirstChunk /\ \A u \in Workers : Share(u)' = Share(u)
  BY <1>2, Rigid
<1>9. /\ FirstChunk[w] \in Nat \ {0} /\ Share(w) \in Nat
      /\ c \in Nat /\ c \in Dealt(w) /\ c \in Chunks
  BY <1>1, <1>7, MineFacts DEF Dealt
<1>10. /\ i'[w] = i[w] + 1 /\ free'[w] = Append(free[w], <<instance, c>>)
       /\ rw_locks'[w] = rw_locks[w] \union {<<instance, c>>}
       /\ chunk'[w] = <<instance, c + 1>>
       /\ \A u \in Workers : u # w => /\ i'[u] = i[u] /\ free'[u] = free[u]
                                     /\ rw_locks'[u] = rw_locks[u]
                                     /\ chunk'[u] = chunk[u]
  BY <1>2, <1>3, <1>4 DEF DataTypes
<1>11. \A u \in Workers : (Done(u)' <=> Done(u)) /\ (Fresh(u)' <=> Fresh(u))
  BY <1>2, <1>5 DEF Fresh, Done, Counted
<1>12. ~ Fresh(w) /\ ~ Done(w) /\ Got(w) = i[w] /\ Got(w)' = i[w] + 1
  <2>1. ~ Fresh(w)
    BY <1>2, <1>5 DEF Fresh
  <2>2. ~ Done(w)
    BY <1>2 DEF Done, Counted, RoundsInv, EventsInv
  <2> QED
    BY <1>10, <1>11, <2>1, <2>2 DEF Got
<1>13. \A u \in Workers : u # w => Got(u)' = Got(u) /\ Mine(u)' = Mine(u)
  BY <1>8, <1>10, <1>11 DEF Got, Mine
<1>14. Mine(w)' = Mine(w) \union {c} /\ c \notin Mine(w)
  BY <1>1, <1>7, <1>8, <1>9, <1>12 DEF Mine
<1>15. \A u \in Workers : c \notin Mine(u)
  <2>1. ASSUME NEW u \in Workers, u # w PROVE c \notin Mine(u)
    <3>1. Dealt(u) \intersect Dealt(w) = {}
      BY <1>2, <2>1, DealtFacts DEF DataTypes
    <3> QED
      BY <1>9, <3>1, MineFacts
  <2> QED
    BY <1>14, <2>1
<1>16. /\ instance \in Instances \ Built /\ Built' = Built
       /\ \A n \in Built : n # instance
  BY <1>2, <1>5, <1>6 DEF Built, BeforeMerge, TypeOK, Instances
<1>17. /\ made[instance][c] = 0 /\ made'[instance][c] = 1
       /\ \A n \in Instances : \A d \in Chunks :
            ~ (n = instance /\ d = c) => made'[n][d] = made[n][d]
       /\ made' \in [Instances -> [Chunks -> 0 .. Often]]
  <2>1. made[instance][c] = 0
    BY <1>2, <1>9, <1>15, <1>16 DEF InstancesInv
  <2>2. made \in [Instances -> [Chunks -> 0 .. Often]] /\ instance \in Instances
    BY <1>2, <1>16 DEF DataTypes
  <2>3. 0 < Often /\ 1 \in 0 .. Often
    BY DEF Often
  <2>4. PICK row : row = [made[instance] EXCEPT ![c] = 1]
    OBVIOUS
  <2>5. made' = [made EXCEPT ![instance] = row]
    BY <1>4, <2>1, <2>3, <2>4
  <2>6. /\ row \in [Chunks -> 0 .. Often] /\ row[c] = 1
        /\ \A d \in Chunks : d # c => row[d] = made[instance][d]
    BY <1>9, <2>2, <2>3, <2>4
  <2> QED
    BY <2>1, <2>2, <2>5, <2>6
<1>18. DataTypes'
  <2>1. <<instance, c>> \in Instances \X Nat /\ <<instance, c + 1>> \in Instances \X Nat
    BY <1>9, <1>16
  <2>2. i' \in [Workers -> Nat] /\ rw_locks' \in [Workers -> SUBSET (Instances \X Nat)]
    <3>1. i \in [Workers -> Nat] /\ rw_locks \in [Workers -> SUBSET (Instances \X Nat)]
      BY <1>2 DEF DataTypes
    <3>2. /\ i[w] + 1 \in Nat
          /\ rw_locks[w] \union {<<instance, c>>} \in SUBSET (Instances \X Nat)
      BY <2>1, <3>1
    <3> QED
      BY <1>2, <1>3, <3>1, <3>2
  <2>3. free' \in [Workers -> Seq(Instances \X Nat)]
    <3>1. PICK Pairs : Pairs = Instances \X Nat
      OBVIOUS
    <3>2. free \in [Workers -> Seq(Pairs)] /\ <<instance, c>> \in Pairs
      BY <1>2, <2>1, <3>1 DEF DataTypes
    <3>3. Append(free[w], <<instance, c>>) \in Seq(Pairs)
      BY <3>2
    <3>4. free' = [free EXCEPT ![w] = Append(free[w], <<instance, c>>)]
      BY <1>2, <1>3
    <3>5. free' \in [Workers -> Seq(Pairs)]
      BY <3>2, <3>3, <3>4
    <3> QED
      BY <3>1, <3>5
  <2>4. chunk' \in [Workers -> Instances \X Nat]
    BY <1>2, <1>4, <2>1 DEF DataTypes
  <2> QED
    BY <1>2, <1>17, <2>2, <2>3, <2>4, Zenon DEF DataTypes
<1>19. ThreadsInv'
  <2>1. free'[w] = [k \in 1 .. Got(w)' |-> <<instance', FirstChunk'[w] + k - 1>>]
    <3>1. free[w] = [k \in 1 .. i[w] |-> <<instance, FirstChunk[w] + k - 1>>]
      BY <1>2, <1>6, <1>12 DEF ThreadsInv
    <3>2. free'[w] = [k \in 1 .. i[w] + 1 |-> <<instance, FirstChunk[w] + k - 1>>]
      <4>1. instance \in Instances /\ FirstChunk[w] \in Nat /\ i[w] \in Nat
        BY <1>7, <1>9, <1>16
      <4>2. Append([k \in 1 .. i[w] |-> <<instance, FirstChunk[w] + k - 1>>],
                   <<instance, FirstChunk[w] + i[w]>>)
              = [k \in 1 .. i[w] + 1 |-> <<instance, FirstChunk[w] + k - 1>>]
        BY <4>1, RunGrows
      <4> QED
        BY <1>1, <1>10, <3>1, <4>2, Zenon
    <3> QED
      BY <1>2, <1>8, <1>12, <3>2
  <2>2. rw_locks'[w] = {instance'} \X Mine(w)'
    <3>1. rw_locks[w] = {instance} \X Mine(w)
      BY <1>2, <1>6 DEF ThreadsInv
    <3> QED
      BY <1>2, <1>10, <1>14, <3>1
  <2>3. ASSUME NEW u \in Workers, u # w
        PROVE  /\ free'[u] = [k \in 1 .. Got(u)' |-> <<instance', FirstChunk'[u] + k - 1>>]
               /\ rw_locks'[u] = {instance'} \X Mine(u)'
    BY <1>2, <1>6, <1>8, <1>10, <1>13, <2>3 DEF ThreadsInv
  <2>4. \A u \in Workers : Got(u)' <= Share(u)'
    BY <1>2, <1>7, <1>8, <1>9, <1>12, <1>13 DEF ThreadsInv
  <2>5. \A u \in Workers : Done(u)' => init_n_chunks'[u] = i'[u]
                                     /\ (task_error' \/ i'[u] = Share(u)')
    BY <1>2, <1>5, <1>8, <1>10, <1>11, <1>12 DEF ThreadsInv
  <2>6. /\ buf_pool' = instance'
        /\ \A u \in Workers : n_chunks'[u] = Share(u)' /\ chunk_ptr'[u] = FirstChunk'[u]
    BY <1>2, <1>5, <1>8 DEF ThreadsInv, Initialising
  <2>7. ASSUME NEW u \in Workers, pc'[u] = "chunk"
        PROVE  chunk'[u] = <<instance', FirstChunk'[u] + i'[u]>>
    <3>1. CASE u = w
      <4>1. c + 1 = FirstChunk[w] + (i[w] + 1)
        BY <1>1, <1>7, <1>9
      <4> QED
        BY <1>2, <1>8, <1>10, <3>1, <4>1
    <3>2. CASE u # w
      BY <1>2, <1>8, <1>10, <2>7, <3>2 DEF ThreadsInv
    <3> QED
      BY <3>1, <3>2
  <2> QED
    BY <2>1, <2>2, <2>3, <2>4, <2>5, <2>6, <2>7 DEF ThreadsInv
<1>20. InstancesInv'
  <2>1. \A n \in Built : n \in Instances
    BY BuiltFacts
  <2>2. \A n \in Built' : Complete(n)'
    BY <1>2, <1>16, <1>17, <2>1 DEF InstancesInv, Complete
  <2>3. \A n \in Instances \ Built' :
         /\ pool_free'[n] = <<>> /\ curr_size'[n] = 0
         /\ \A d \in Chunks : made'[n][d] =
              IF n = instance' /\ \E u \in Workers : d \in Mine(u)' THEN 1 ELSE 0
    <3>1. \A d \in Chunks : (\E u \in Workers : d \in Mine(u)')
                             <=> d = c \/ \E u \in Workers : d \in Mine(u)
      BY <1>13, <1>14
    <3>2. \A n \in Instances \ Built : \A d \in Chunks : made[n][d] =
            IF n = instance /\ \E u \in Workers : d \in Mine(u) THEN 1 ELSE 0
      BY <1>2 DEF InstancesInv
    <3>3. \A n \in Instances \ Built : pool_free[n] = <<>> /\ curr_size[n] = 0
      BY <1>2 DEF InstancesInv
    <3>4. ASSUME NEW n \in Instances \ Built, NEW d \in Chunks
          PROVE  made'[n][d] =
                   IF n = instance /\ \E u \in Workers : d \in Mine(u)' THEN 1 ELSE 0
      <4>1. CASE n = instance /\ d = c
        BY <1>17, <3>1, <4>1
      <4>2. CASE ~ (n = instance /\ d = c)
        <5>1. made'[n][d] = made[n][d]
          BY <1>17, <4>2
        <5> QED
          BY <3>1, <3>2, <4>2, <5>1
      <4> QED
        BY <4>1, <4>2
    <3> QED
      BY <1>2, <1>16, <3>3, <3>4
  <2> QED
    BY <1>2, <1>5, <1>16, <2>2, <2>3 DEF InstancesInv, BeforeMerge
<1> QED
  BY <1>18, <1>19, <1>20 DEF DataInv

\* A thread leaves its loop, with all its chunks or with the error.
LEMMA LeaveKeeps ==
  ASSUME TypeOK, RoundsInv, DataInv, NEW w \in Workers, InitChunkFails(w) \/ EndChunks(w)
  PROVE  DataInv'
<1>1. /\ DataTypes /\ ThreadsInv /\ InstancesInv
      /\ pc[w] = "chunk" /\ pc' = [pc EXCEPT ![w] = "count"]
      /\ init_n_chunks' = [init_n_chunks EXCEPT ![w] = i[w]]
      /\ UNCHANGED <<waiters, mpc, bpi_finished, buf_pool, n_chunks, chunk_ptr, i, chunk,
                     free, rw_locks, instance, result, pool_chunks, made, pool_free,
                     curr_size, rw_lock_list>>
  BY DEF DataInv, InitChunkFails, EndChunks, LeaveChunks, Goto, events, main, pools
<1>2. Initialising /\ Initialising'
  BY <1>1, InTask DEF Initialising
<1>3. FirstChunk' = FirstChunk /\ \A u \in Workers : Share(u)' = Share(u)
  BY <1>1, Rigid
<1>4. /\ pc'[w] = "count" /\ init_n_chunks'[w] = i[w]
      /\ \A u \in Workers : u # w =>
           pc'[u] = pc[u] /\ init_n_chunks'[u] = init_n_chunks[u]
      /\ i[w] \in Nat
  BY <1>1 DEF TypeOK, DataTypes
<1>5. /\ \A u \in Workers : Fresh(u)' <=> Fresh(u)
      /\ \A u \in Workers : u # w => (Done(u)' <=> Done(u))
  BY <1>1, <1>2, <1>4 DEF Fresh, Done, Counted
<1>6. \A u \in Workers : Got(u)' = Got(u) /\ Mine(u)' = Mine(u)
  BY <1>1, <1>3, <1>5 DEF Got, Mine
<1>7. /\ task_error' \in BOOLEAN /\ (task_error => task_error')
      /\ task_error' \/ i[w] = Share(w)
  <2>1. CASE InitChunkFails(w)
    BY <2>1, Zenon DEF InitChunkFails
  <2>2. CASE EndChunks(w)
    <3>1. task_error' = task_error /\ i[w] >= n_chunks[w] /\ n_chunks[w] = Share(w)
      BY <1>1, <1>2, <2>2 DEF EndChunks, ThreadsInv, Initialising
    <3>2. Got(w) = i[w]
      BY <1>1, <1>2 DEF Got, Fresh
    <3>3. i[w] <= Share(w) /\ Share(w) \in Nat
      BY <3>2, MineFacts
    <3> QED
      BY <1>1, <1>4, <3>1, <3>3 DEF DataTypes
  <2> QED
    BY <2>1, <2>2
<1>8. DataTypes'
  BY <1>1, <1>4, <1>7 DEF DataTypes
<1>9. ThreadsInv'
  <2>1. \A u \in Workers : Done(u)' => init_n_chunks'[u] = i'[u]
                                     /\ (task_error' \/ i'[u] = Share(u)')
    BY <1>1, <1>2, <1>3, <1>4, <1>5, <1>7 DEF ThreadsInv
  <2>2. \A u \in Workers : pc'[u] = "chunk" =>
          chunk'[u] = <<instance', FirstChunk'[u] + i'[u]>>
    BY <1>1, <1>3, <1>4 DEF ThreadsInv
  <2> QED
    BY <1>1, <1>3, <1>6, <2>1, <2>2 DEF ThreadsInv
<1>10. InstancesInv'
  <2>1. Built' = Built
    BY <1>1 DEF Built, BeforeMerge
  <2>2. \A n \in Built' : Complete(n)'
    BY <1>1, <2>1 DEF InstancesInv, Complete
  <2>3. \A n \in Instances \ Built' :
         /\ pool_free'[n] = <<>> /\ curr_size'[n] = 0
         /\ \A c \in Chunks : made'[n][c] =
              IF n = instance' /\ \E u \in Workers : c \in Mine(u)' THEN 1 ELSE 0
    BY <1>1, <1>6, <2>1 DEF InstancesInv
  <2>4. result' = "DB_ERROR" => task_error' /\ ~ BeforeMerge'
    BY <1>1, <1>7 DEF InstancesInv, BeforeMerge
  <2> QED
    BY <1>1, <1>2, <2>1, <2>2, <2>3, <2>4 DEF InstancesInv
<1> QED
  BY <1>8, <1>9, <1>10 DEF DataInv

-----------------------------------------------------------------------------
(* The main thread. *)

\* It deals out the chunks.
LEMMA PrepareKeeps ==
  ASSUME TypeOK, RoundsInv, DataInv, Prepare
  PROVE  DataInv'
<1>1. /\ DataTypes /\ ThreadsInv /\ InstancesInv
      /\ mpc = "prepare" /\ mpc' = "set"
      /\ n_chunks' = [w \in Workers |-> Share(w)]
      /\ chunk_ptr' = [w \in Workers |-> FirstChunk[w]]
      /\ buf_pool' = instance
      /\ UNCHANGED <<pc, bpi_finished, task_error, init_n_chunks, free, rw_locks, i, chunk,
                     instance, result, pool_chunks, made, pool_free, curr_size,
                     rw_lock_list>>
  BY DEF DataInv, Prepare, MainGoto, threads, pools
<1>2. FirstChunk' = FirstChunk /\ \A w \in Workers : Share(w)' = Share(w)
  BY <1>1, Rigid
<1>3. ~ Initialising /\ ~ Initialising' /\ BeforeMerge /\ BeforeMerge'
  BY <1>1 DEF Initialising, BeforeMerge
<1>4. \A w \in Workers : Got(w)' = Got(w) /\ Mine(w)' = Mine(w)
  BY <1>2, <1>3 DEF Fresh, Got, Mine
<1>5. Built' = Built
  BY <1>1, <1>3 DEF Built
<1>6. DataTypes'
  <2>1. n_chunks' \in [Workers -> Nat] /\ chunk_ptr' \in [Workers -> Nat]
    BY <1>1, MineFacts
  <2> QED
    BY <1>1, <2>1 DEF DataTypes
<1>7. ThreadsInv'
  BY <1>1, <1>2, <1>3, <1>4 DEF ThreadsInv
<1>8. InstancesInv'
  <2>1. \A n \in Built' : Complete(n)'
    BY <1>1, <1>5 DEF InstancesInv, Complete
  <2>2. \A n \in Instances \ Built' :
         /\ pool_free'[n] = <<>> /\ curr_size'[n] = 0
         /\ \A c \in Chunks : made'[n][c] =
              IF n = instance' /\ \E w \in Workers : c \in Mine(w)' THEN 1 ELSE 0
    BY <1>1, <1>4, <1>5 DEF InstancesInv
  <2> QED
    BY <1>1, <1>3, <1>5, <2>1, <2>2 DEF InstancesInv, PlaceInv, RoundsInv
<1> QED
  BY <1>6, <1>7, <1>8 DEF DataInv

\* The steps of the main thread by which it sets, awaits, swaps and resets.
LEMMA SynchKeeps ==
  ASSUME TypeOK, RoundsInv, DataInv,
         \/ SetTask \/ AwaitTask \/ ZeroExecutions \/ SwapTasks \/ ResetNext
         \/ Finish \/ SetLast \/ AwaitLast \/ Return
  PROVE  DataInv'
<1>1. UNCHANGED dataVars /\ pc' = pc
  BY DEF SetTask, AwaitTask, ZeroExecutions, SwapTasks, ResetNext, Finish, SetLast,
     AwaitLast, Return, AwaitEnd, task, info, threads, pools, events, dataVars
<1>2. CASE SetTask
  <2>1. mpc = "set" /\ mpc' = "await" /\ bpi_finished' = bpi_finished
    BY <1>2 DEF SetTask, MainGoto, task
  <2>2. Counted' = {} /\ \A w \in Workers : pc[w] \in {"start", "waiting"}
    BY <1>2, SetInv
  <2>3. \A w \in Workers : pc'[w] # "chunk" /\ ~ Done(w)'
    BY <1>1, <2>2 DEF Done
  <2> QED
    BY <1>1, <2>1, <2>3, DataStays DEF BeforeMerge, Initialising
<1>3. CASE AwaitTask
  <2>1. mpc = "await" /\ mpc' = "awaiting" /\ bpi_finished' = bpi_finished
    BY <1>3 DEF AwaitTask, AwaitEnd, MainGoto, task
  <2>2. Counted' = Counted
    BY <1>3, AwaitInv
  <2>3. \A w \in Workers : Done(w)' <=> Done(w)
    BY <1>1, <2>2 DEF Done
  <2> QED
    BY <1>1, <2>1, <2>3, DataStays DEF BeforeMerge, Initialising
<1>4. CASE ZeroExecutions \/ SwapTasks \/ ResetNext
  <2>1. /\ mpc \in {"zero", "swap", "resetnext"} /\ mpc' \in {"swap", "resetnext", "resetend"}
        /\ bpi_finished' = bpi_finished
    BY <1>4 DEF ZeroExecutions, SwapTasks, ResetNext, MainGoto, task
  <2> QED
    BY <1>1, <2>1, DataStays DEF BeforeMerge, Initialising
<1>5. CASE Finish \/ SetLast \/ AwaitLast \/ Return
  <2>1. /\ mpc \in {"end", "setlast", "awaitlast", "awaitinglast"}
        /\ mpc' \in {"setlast", "awaitlast", "awaitinglast", "returned"}
    BY <1>5 DEF Finish, SetLast, AwaitLast, AwaitEnd, Return, MainGoto
  <2>2. bpi_finished \/ mpc = "end"
    BY <2>1 DEF RoundsInv, PlaceInv
  <2> QED
    BY <1>1, <2>1, <2>2, DataStays DEF BeforeMerge, Initialising
<1> QED
  BY <1>2, <1>3, <1>4, <1>5

\* It goes on to the next instance, or ends.
LEMMA NextInstanceKeeps ==
  ASSUME TypeOK, RoundsInv, DataInv, ResetEnd
  PROVE  DataInv'
<1>1. /\ DataTypes /\ ThreadsInv /\ InstancesInv
      /\ mpc = "resetend"
      /\ IF result = "DB_ERROR" \/ instance = NumInstances
         THEN mpc' = "end" /\ instance' = instance
         ELSE mpc' = "prepare" /\ instance' = instance + 1
      /\ UNCHANGED <<pc, bpi_finished, task_error, n_chunks, chunk_ptr, init_n_chunks, free,
                     rw_locks, i, chunk, result, pool_chunks, made, pool_free, curr_size,
                     rw_lock_list>>
  BY DEF DataInv, ResetEnd, MainGoto, task, info, threads, pools
<1>2. FirstChunk' = FirstChunk /\ \A w \in Workers : Share(w)' = Share(w)
  BY <1>1, Rigid
<1>3. ~ Initialising /\ ~ Initialising' /\ ~ BeforeMerge /\ (BeforeMerge' <=> mpc' = "prepare")
  BY <1>1 DEF Initialising, BeforeMerge
<1>4. /\ \A w \in Workers : Got(w)' = Got(w) /\ Mine(w)' = Mine(w)
      /\ \A w \in Workers : Mine(w) = {}
  <2>1. \A w \in Workers : Got(w)' = 0 /\ Got(w) = 0
    BY <1>3 DEF Fresh, Got
  <2> QED
    BY <1>2, <2>1, MineFacts DEF Mine
<1>5. instance \in Nat /\ instance' \in Instances /\ Built' = Built
  <2>1. instance \in 1 .. NumInstances
    BY DEF TypeOK, Instances
  <2>2. CASE result = "DB_ERROR" \/ instance = NumInstances
    BY <1>1, <1>3, <2>1, <2>2 DEF Built, Instances
  <2>3. CASE ~ (result = "DB_ERROR" \/ instance = NumInstances)
    <3>1. instance + 1 \in 1 .. NumInstances /\ instance + 1 - 1 = instance
      BY <2>1, <2>3
    <3> QED
      BY <1>1, <1>3, <2>1, <2>3, <3>1 DEF Built, Instances
  <2> QED
    BY <2>2, <2>3
<1>6. DataTypes'
  BY <1>1, <1>5 DEF DataTypes
<1>7. ThreadsInv'
  <2>1. \A w \in Workers : pc'[w] # "chunk"
    BY <1>1, <1>3, InTask
  <2>2. mpc' \notin {"set", "await", "awaiting"}
    BY <1>1
  <2>3. ASSUME NEW w \in Workers, result' = "DB_SUCCESS"
        PROVE  /\ free'[w] = [k \in 1 .. Got(w)' |-> <<instance', FirstChunk'[w] + k - 1>>]
               /\ rw_locks'[w] = {instance'} \X Mine(w)'
    <3>1. /\ free[w] = [k \in 1 .. Got(w) |-> <<instance, FirstChunk[w] + k - 1>>]
          /\ rw_locks[w] = {instance} \X Mine(w)
      BY <1>1, <2>3 DEF ThreadsInv
    <3>2. Got(w) = 0 /\ Got(w)' = 0
      BY <1>3, <1>4, Idle
    <3>3. free[w] = <<>> /\ rw_locks[w] = {}
      BY <1>4, <3>1, <3>2
    <3>4. [k \in 1 .. Got(w)' |-> <<instance', FirstChunk'[w] + k - 1>>] = <<>>
      BY <3>2
    <3> QED
      BY <1>1, <1>4, <3>3, <3>4
  <2>4. \A w \in Workers : Got(w)' <= Share(w)'
    BY <1>1, <1>2, <1>4 DEF ThreadsInv
  <2> QED
    BY <1>3, <2>1, <2>2, <2>3, <2>4 DEF ThreadsInv
<1>8. InstancesInv'
  <2>1. \A n \in Built' : Complete(n)'
    BY <1>1, <1>5 DEF InstancesInv, Complete
  <2>2. \A n \in Instances \ Built' :
         /\ pool_free'[n] = <<>> /\ curr_size'[n] = 0
         /\ \A c \in Chunks : made'[n][c] =
              IF n = instance' /\ \E w \in Workers : c \in Mine(w)' THEN 1 ELSE 0
    BY <1>1, <1>4, <1>5 DEF InstancesInv
  <2>3. ~ bpi_finished
    BY <1>1 DEF RoundsInv, PlaceInv
  <2> QED
    BY <1>1, <1>3, <1>5, <2>1, <2>2, <2>3 DEF InstancesInv
<1> QED
  BY <1>6, <1>7, <1>8 DEF DataInv

\* When the main thread comes to the lists, all threads have left their loops.
LEMMA AllDone ==
  ASSUME TypeOK, RoundsInv, DataInv, mpc = "awaiting", Woken(Main)
  PROVE  /\ result = "DB_SUCCESS" /\ instance \in Instances \ Built
         /\ Built = 1 .. instance - 1
         /\ \A w \in Workers :
              /\ Done(w) /\ Got(w) = i[w] /\ init_n_chunks[w] = i[w]
              /\ ~ task_error => i[w] = Share(w)
              /\ chunk_ptr[w] = FirstChunk[w]
              /\ pc[w] # "chunk"
<1>1. Initialising /\ BeforeMerge /\ DataTypes /\ ThreadsInv /\ InstancesInv
  BY DEF Initialising, BeforeMerge, DataInv
<1>2. result = "DB_SUCCESS" /\ instance \in Instances \ Built /\ Built = 1 .. instance - 1
  BY <1>1 DEF InstancesInv, DataTypes, TypeOK, Built, Instances
<1>3. Counted = Workers
  BY RoundOver
<1>4. \A w \in Workers : Done(w) /\ ~ Fresh(w)
  BY <1>1, <1>3 DEF Done, Fresh
<1>5. \A w \in Workers : pc[w] # "chunk"
  <2>1. \A w \in Workers : pc[w] \in {"signal", "next"} \/ w \in waiters[EventToCome]
    BY RoundOver
  <2> QED
    BY <2>1, EventFacts DEF RoundsInv, EventsInv
<1> QED
  BY <1>1, <1>2, <1>4, <1>5 DEF ThreadsInv, Initialising, Got

\* After an error nothing is left, of this instance or another.
LEMMA UndoKeeps ==
  ASSUME TypeOK, RoundsInv, DataInv, Undo
  PROVE  DataInv'
<1>1. /\ DataTypes /\ ThreadsInv /\ InstancesInv
      /\ mpc = "awaiting" /\ Woken(Main) /\ task_error /\ mpc' = "zero"
      /\ made' = [n \in Instances |-> [c \in Chunks |->
                   IF n < instance THEN 0
                   ELSE IF <<n, c>> \in Initialised /\ made[n][c] > 0 THEN made[n][c] - 1
                   ELSE made[n][c]]]
      /\ rw_locks' = [w \in Workers |-> rw_locks[w] \ Initialised]
      /\ rw_lock_list' = {l \in rw_lock_list : l[1] >= instance}
      /\ pool_free' = [n \in Instances |-> IF n < instance THEN <<>> ELSE pool_free[n]]
      /\ curr_size' = [n \in Instances |-> IF n < instance THEN 0 ELSE curr_size[n]]
      /\ result' = "DB_ERROR"
      /\ UNCHANGED <<pc, bpi_finished, task_error, n_chunks, chunk_ptr, init_n_chunks,
                     free, i, chunk, instance, pool_chunks>>
  BY DEF DataInv, Undo, MainGoto, task, threads
<1>2. /\ instance \in Instances \ Built /\ Built = 1 .. instance - 1
      /\ \A w \in Workers : /\ Got(w) = i[w] /\ init_n_chunks[w] = i[w]
                            /\ chunk_ptr[w] = FirstChunk[w] /\ pc[w] # "chunk"
  BY <1>1, AllDone
<1>3. \A n, c : <<n, c>> \in Initialised <=>
                  n = instance /\ \E w \in Workers : c \in Mine(w)
  BY <1>2 DEF Initialised, Mine
<1>4. instance \in Nat /\ Instances \subseteq Nat
      /\ \A n \in Instances : n < instance <=> n \in Built
  BY <1>2 DEF Instances
<1>5. \A n \in Instances :
        /\ pool_free'[n] = <<>> /\ curr_size'[n] = 0
        /\ \A c \in Chunks : made'[n][c] = 0
  <2>1. ASSUME NEW n \in Instances, ~ n < instance, NEW c \in Chunks
        PROVE  made'[n][c] = 0
    <3>1. n \notin Built
      BY <1>4, <2>1
    <3>2. made[n][c] = IF <<n, c>> \in Initialised THEN 1 ELSE 0
      BY <1>1, <1>3, <2>1, <3>1 DEF InstancesInv
    <3> QED
      BY <1>1, <2>1, <3>2
  <2> QED
    BY <1>1, <1>4, <2>1 DEF InstancesInv
<1>6. rw_lock_list' = {}
  <2>1. \A p \in rw_lock_list : p[1] \in 1 .. instance - 1
    BY <1>1, <1>2 DEF InstancesInv
  <2> QED
    BY <1>1, <1>4, <2>1
<1>7. ~ Initialising' /\ ~ BeforeMerge' /\ Built' = {} /\ ~ bpi_finished'
  BY <1>1 DEF Initialising, BeforeMerge, Built, RoundsInv, PlaceInv
<1>8. FirstChunk' = FirstChunk /\ \A w \in Workers : Share(w)' = Share(w)
  BY <1>1, Rigid
<1>9. \A w \in Workers : Got(w)' = 0 /\ Mine(w)' = {}
  <2>1. \A w \in Workers : Got(w)' = 0
    BY <1>7 DEF Fresh, Got
  <2> QED
    BY <1>8, <2>1, MineFacts DEF Mine
<1>10. DataTypes'
  <2>1. made' \in [Instances -> [Chunks -> 0 .. Often]]
    <3>1. 0 \in 0 .. Often
      BY DEF Often
    <3>2. \A n \in Instances : made'[n] = [c \in Chunks |-> made'[n][c]]
      BY <1>1
    <3>3. \A n \in Instances : made'[n] \in [Chunks -> 0 .. Often]
      BY <1>5, <3>1, <3>2
    <3>4. made' = [n \in Instances |-> made'[n]]
      BY <1>1
    <3> QED
      BY <3>3, <3>4
  <2>2. /\ pool_free' \in [Instances -> Seq(Instances \X Nat)]
        /\ curr_size' \in [Instances -> Nat]
    <3>1. <<>> \in Seq(Instances \X Nat) /\ 0 \in Nat
      OBVIOUS
    <3>2. /\ pool_free' = [n \in Instances |-> pool_free'[n]]
          /\ curr_size' = [n \in Instances |-> curr_size'[n]]
      BY <1>1
    <3> QED
      BY <1>5, <3>1, <3>2
  <2>3. rw_locks' \in [Workers -> SUBSET (Instances \X Nat)]
    BY <1>1 DEF DataTypes
  <2> QED
    BY <1>1, <2>1, <2>2, <2>3 DEF DataTypes
<1>11. ThreadsInv'
  BY <1>1, <1>2, <1>7, <1>8, <1>9, MineFacts DEF ThreadsInv
<1>12. InstancesInv'
  BY <1>1, <1>5, <1>6, <1>7, <1>9 DEF InstancesInv
<1> QED
  BY <1>10, <1>11, <1>12 DEF DataInv

\* Without an error the lists of the threads make the list of the instance.
LEMMA MergeKeeps ==
  ASSUME TypeOK, RoundsInv, DataInv, Merge
  PROVE  DataInv'
<1>1. /\ DataTypes /\ ThreadsInv /\ InstancesInv
      /\ mpc = "awaiting" /\ Woken(Main) /\ ~ task_error /\ mpc' = "zero"
      /\ rw_lock_list' = rw_lock_list \union UNION {rw_locks[w] : w \in Workers}
      /\ free' = [w \in Workers |-> <<>>] /\ rw_locks' = [w \in Workers |-> {}]
      /\ UNCHANGED <<pc, bpi_finished, task_error, n_chunks, chunk_ptr, init_n_chunks, i,
                     chunk, instance, result, pool_chunks, made>>
  BY DEF DataInv, Merge, MainGoto, task, threads
<1>2. /\ instance \in Instances \ Built /\ Built = 1 .. instance - 1
      /\ result = "DB_SUCCESS"
      /\ \A w \in Workers : Got(w) = Share(w) /\ i[w] = Share(w) /\ pc[w] # "chunk"
  BY <1>1, AllDone
<1>3. /\ \A w \in Workers :
           free[w] = [k \in 1 .. Share(w) |-> <<instance, FirstChunk[w] + k - 1>>]
      /\ \A w \in Workers : rw_locks[w] = {instance} \X Dealt(w) /\ Mine(w) = Dealt(w)
  BY <1>1, <1>2 DEF ThreadsInv, Mine, Dealt
<1>4. /\ pool_chunks \in Chunks /\ pool_chunks \in Nat
      /\ i \in [Workers -> Nat] /\ instance \in Nat
  BY <1>1, <1>2, MaxChunksAssumption DEF DataTypes, Chunks, Instances
<1>5. /\ pool_free'[instance] = Leading(instance, pool_chunks)
      /\ \A n \in Instances : n # instance => pool_free'[n] = pool_free[n]
      /\ pool_free' \in [Instances -> Seq(Instances \X Nat)]
  <2>1. Merged[NumThreads] = Leading(instance, pool_chunks)
    BY <1>2, <1>3, <1>4, MergedFacts
  <2>2. PICK Pairs : Pairs = Instances \X Nat
    OBVIOUS
  <2>3. Leading(instance, pool_chunks) \in Seq(Pairs)
    BY <1>2, <1>4, <2>2, LeadingFacts
  <2>4. pool_free[instance] = <<>>
    BY <1>1, <1>2 DEF InstancesInv
  <2>5. pool_free' = [pool_free EXCEPT ![instance] = @ \o Merged[NumThreads]]
    BY DEF Merge
  <2>6. <<>> \o Leading(instance, pool_chunks) = Leading(instance, pool_chunks)
    BY <2>3
  <2>7. pool_free' = [pool_free EXCEPT ![instance] = Leading(instance, pool_chunks)]
    BY <2>1, <2>4, <2>5, <2>6
  <2>8. pool_free \in [Instances -> Seq(Pairs)] /\ instance \in Instances
    BY <1>1, <1>2, <2>2 DEF DataTypes
  <2>9. /\ pool_free'[instance] = Leading(instance, pool_chunks)
        /\ \A n \in Instances : n # instance => pool_free'[n] = pool_free[n]
        /\ pool_free' \in [Instances -> Seq(Pairs)]
    BY <2>3, <2>7, <2>8
  <2> QED
    BY <2>2, <2>9
<1>6. /\ curr_size'[instance] = pool_chunks
      /\ \A n \in Instances : n # instance => curr_size'[n] = curr_size[n]
      /\ curr_size' \in [Instances -> Nat]
  <2> DEFINE sum == FoldFunction(+, 0, i)
  <2>1. sum = pool_chunks
    BY <1>2, <1>4, SumFacts
  <2>2. curr_size[instance] = 0
    BY <1>1, <1>2 DEF InstancesInv
  <2>3. curr_size' = [curr_size EXCEPT ![instance] = @ + sum]
    BY DEF Merge
  <2> HIDE DEF sum
  <2>4. curr_size' = [curr_size EXCEPT ![instance] = pool_chunks]
    BY <1>4, <2>1, <2>2, <2>3
  <2>5. curr_size \in [Instances -> Nat] /\ instance \in Instances
    BY <1>1, <1>2 DEF DataTypes
  <2> QED
    BY <1>4, <2>4, <2>5
<1>7. UNION {rw_locks[w] : w \in Workers} = {instance} \X (1 .. pool_chunks)
  <2>1. \A c : c \in 1 .. pool_chunks <=> \E w \in Workers : c \in Dealt(w)
    BY <1>4, DealtFacts
  <2> QED
    BY <1>3, <2>1
<1>8. \A c \in Chunks : made[instance][c] = IF c <= pool_chunks THEN 1 ELSE 0
  <2>1. \A c \in Chunks : c \in 1 .. pool_chunks <=> c <= pool_chunks
    BY <1>4, MaxChunksAssumption DEF Chunks
  <2>2. \A c \in Chunks : c <= pool_chunks <=> \E w \in Workers : c \in Mine(w)
    BY <1>3, <1>4, <2>1, DealtFacts
  <2> QED
    BY <1>1, <1>2, <2>2 DEF InstancesInv
<1>9. ~ Initialising' /\ ~ BeforeMerge' /\ Built' = 1 .. instance /\ ~ bpi_finished'
  BY <1>1, <1>2 DEF Initialising, BeforeMerge, Built, RoundsInv, PlaceInv
<1>10. Built' = Built \union {instance}
  <2>1. 1 .. instance = (1 .. instance - 1) \union {instance}
    BY <1>2, <1>4 DEF Instances
  <2> QED
    BY <1>2, <1>9, <2>1
<1>11. FirstChunk' = FirstChunk /\ \A w \in Workers : Share(w)' = Share(w)
  BY <1>1, Rigid
<1>12. \A w \in Workers : Got(w)' = 0 /\ Mine(w)' = {}
  <2>1. \A w \in Workers : Got(w)' = 0
    BY <1>9 DEF Fresh, Got
  <2> QED
    BY <1>11, <2>1, MineFacts DEF Mine
<1>13. DataTypes'
  BY <1>1, <1>5, <1>6 DEF DataTypes
<1>14. ThreadsInv'
  <2>1. ASSUME NEW w \in Workers
        PROVE  /\ free'[w] = [k \in 1 .. Got(w)' |-> <<instance', FirstChunk'[w] + k - 1>>]
               /\ rw_locks'[w] = {instance'} \X Mine(w)'
    <3>1. [k \in 1 .. Got(w)' |-> <<instance', FirstChunk'[w] + k - 1>>] = <<>>
      BY <1>12
    <3> QED
      BY <1>1, <1>12, <3>1
  <2>2. \A w \in Workers : Got(w)' <= Share(w)'
    BY <1>11, <1>12, MineFacts
  <2> QED
    BY <1>1, <1>2, <1>9, <2>1, <2>2 DEF ThreadsInv
<1>15. InstancesInv'
  <2>1. ASSUME NEW n \in Built' PROVE Complete(n)'
    <3>1. CASE n = instance
      BY <1>1, <1>5, <1>6, <1>8, <3>1 DEF Complete, Leading
    <3>2. CASE n # instance
      <4>1. n \in Built /\ n \in Instances
        BY <1>10, <3>2, BuiltFacts
      <4> QED
        BY <1>1, <1>5, <1>6, <3>2, <4>1 DEF InstancesInv, Complete
    <3> QED
      BY <3>1, <3>2
  <2>2. \A n \in Instances \ Built' :
         /\ pool_free'[n] = <<>> /\ curr_size'[n] = 0
         /\ \A c \in Chunks : made'[n][c] =
              IF n = instance' /\ \E w \in Workers : c \in Mine(w)' THEN 1 ELSE 0
    <3>1. \A n \in Instances \ Built' : n \in Instances \ Built /\ n # instance
      BY <1>10
    <3>2. \A n \in Instances \ Built : n # instance =>
            /\ pool_free[n] = <<>> /\ curr_size[n] = 0
            /\ \A c \in Chunks : made[n][c] = 0
      BY <1>1 DEF InstancesInv
    <3> QED
      BY <1>1, <1>5, <1>6, <3>1, <3>2
  <2>3. rw_lock_list' = Built' \X (1 .. pool_chunks')
    BY <1>1, <1>7, <1>10 DEF InstancesInv
  <2> QED
    BY <1>1, <1>2, <1>9, <2>1, <2>2, <2>3 DEF InstancesInv
<1> QED
  BY <1>13, <1>14, <1>15 DEF DataInv

-----------------------------------------------------------------------------
(* The theorems. *)

\* In the beginning no instance has a chunk.
LEMMA InitData == Init => DataInv
<1> SUFFICES ASSUME Init PROVE DataInv
  OBVIOUS
<1>1. ~ Initialising /\ BeforeMerge /\ Built = {}
  BY DEF Init, Initialising, BeforeMerge, Built
<1>2. DataTypes
  <2>1. 1 \in Instances /\ <<>> \in Seq(Nat)
    BY DEF Instances
  <2>2. task_error \in BOOLEAN
    BY DEF Init
  <2> QED
    BY <2>1, <2>2 DEF Init, DataTypes, Often
<1>3. \A w \in Workers : /\ Got(w) = 0 /\ Share(w) \in Nat /\ FirstChunk[w] \in Nat
                        /\ Mine(w) = {}
  <2>1. \A w \in Workers : Share(w) \in Nat /\ FirstChunk[w] \in Nat
    BY <1>2, DealtFacts DEF DataTypes
  <2> QED
    BY <1>1, <2>1 DEF Fresh, Got, Mine
<1>4. ThreadsInv
  <2>1. ASSUME NEW w \in Workers
        PROVE  /\ free[w] = [k \in 1 .. Got(w) |-> <<instance, FirstChunk[w] + k - 1>>]
               /\ rw_locks[w] = {instance} \X Mine(w)
    <3>1. [k \in 1 .. Got(w) |-> <<instance, FirstChunk[w] + k - 1>>] = <<>>
          /\ {instance} \X Mine(w) = {}
      BY <1>3
    <3> QED
      BY <1>3, <3>1 DEF Init
  <2> QED
    BY <1>1, <1>3, <2>1 DEF Init, ThreadsInv
<1>5. InstancesInv
  BY <1>1, <1>3 DEF Init, InstancesInv
<1> QED
  BY <1>2, <1>4, <1>5 DEF DataInv

\* Every step keeps the invariant of the data.
LEMMA DataKeeps ==
  ASSUME TypeOK, RoundsInv, DataInv, Next
  PROVE  DataInv'
<1>1. ASSUME NEW w \in Workers, Work(w) PROVE DataInv'
  BY <1>1, WaitingKeeps, StartKeeps, ChunkKeeps, LeaveKeeps DEF Work
<1>2. CASE MainStep
  BY <1>2, PrepareKeeps, SynchKeeps, NextInstanceKeeps, UndoKeeps, MergeKeeps DEF MainStep
<1>3. CASE Terminating
  <2>1. UNCHANGED dataVars /\ UNCHANGED <<mpc, bpi_finished>> /\ ~ Initialising
    BY <1>3 DEF Terminating, vars, task, info, threads, main, pools, dataVars, Initialising
  <2>2. pc' = pc
    BY <1>3 DEF Terminating, vars, threads
  <2> QED
    BY <2>1, <2>2, DataStays DEF BeforeMerge, Initialising
<1> QED
  BY <1>1, <1>2, <1>3 DEF Next

\* The inductive invariant: whatever the schedule the types, and no overtaking in
\* the first round; until a thread is overtaken, the rounds and the data.
THEOREM PoolInvariant == Spec => []PoolInv
<1>1. Init => PoolInv
  BY InitTypes, InitRounds, InitData DEF PoolInv
<1>2. ASSUME PoolInv, [Next]_vars PROVE PoolInv'
  <2>1. /\ TypeOK /\ (FirstRound => ~ overtaken)
        /\ TypeOK' /\ (FirstRound' => ~ overtaken') /\ (overtaken => overtaken')
    BY <1>2, TypesKept, FirstRoundKept DEF PoolInv
  <2>2. ASSUME ~ overtaken' PROVE RoundsInv' /\ DataInv'
    <3>1. RoundsInv /\ DataInv
      BY <1>2, <2>1, <2>2 DEF PoolInv
    <3>2. CASE Next
      <4>1. RoundsInv'
        <5>1. CASE Terminating
          <6>1. UNCHANGED syncVars
            BY <5>1 DEF Terminating, vars, events, task, threads, main, syncVars
          <6> QED
            BY <3>1, <6>1, SyncStays
        <5> QED
          BY <2>1, <2>2, <3>1, <3>2, <5>1, WorkKeeps, MainKeeps DEF Next
      <4>2. DataInv'
        BY <2>1, <3>1, <3>2, DataKeeps
      <4> QED
        BY <4>1, <4>2
    <3>3. CASE UNCHANGED vars
      <4>1. UNCHANGED syncVars
        BY <3>3 DEF vars, events, task, threads, main, syncVars
      <4>2. UNCHANGED dataVars /\ UNCHANGED <<waiters, pc, mpc, bpi_finished>>
        BY <3>3 DEF vars, events, task, info, threads, main, pools, dataVars
      <4>3. \A w \in Workers : Done(w)' <=> Done(w)
        BY <4>2 DEF Done, Counted
      <4>4. DataInv'
        BY <2>1, <3>1, <4>2, <4>3, DataStays DEF BeforeMerge, Initialising
      <4> QED
        BY <3>1, <4>1, <4>4, SyncStays
    <3> QED
      BY <1>2, <3>2, <3>3
  <2> QED
    BY <2>1, <2>2 DEF PoolInv
<1> QED
  BY <1>1, <1>2, PTL DEF Spec

\* What the complete instances have, and what is left of the others when no round
\* is under way.
LEMMA WholeOrBare ==
  ASSUME TypeOK, DataInv, ~ Initialising, NEW n \in Instances
  PROVE  IF n \in Built THEN Whole(n) ELSE Bare(n)
<1>1. DataTypes /\ InstancesInv
  BY DEF DataInv
<1>2. CASE n \in Built
  <2>1. Complete(n) /\ rw_lock_list = Built \X (1 .. pool_chunks)
    BY <1>1, <1>2 DEF InstancesInv
  <2>2. \A c \in Chunks : c \in 1 .. pool_chunks <=> c <= pool_chunks
    BY <1>1, MaxChunksAssumption DEF DataTypes, Chunks
  <2> QED
    BY <1>2, <2>1, <2>2 DEF Whole
<1>3. CASE n \notin Built
  <2>1. \A w \in Workers : Mine(w) = {}
    BY Idle, MineFacts DEF Mine
  <2> QED
    BY <1>1, <1>3, <2>1 DEF InstancesInv, Bare
<1> QED
  BY <1>2, <1>3

\* Whatever the schedule: buf_pool_init_instance leaves the first instance with all
\* its chunks, or after an error with nothing, until the events are swapped.
THEOREM PoolFirstInstance == Spec => []FirstInstance
<1>1. ASSUME PoolInv, FirstRound, ~ BeforeMerge
      PROVE  IF result = "DB_SUCCESS" THEN Whole(1) ELSE Bare(1)
  <2>1. /\ TypeOK /\ DataInv /\ instance = 1 /\ ~ Initialising
        /\ result \in {"DB_SUCCESS", "DB_ERROR"}
    BY <1>1 DEF PoolInv, FirstRound, BeforeMerge, Initialising, DataInv, DataTypes
  <2>2. 1 \in Instances
    BY DEF Instances
  <2>3. 1 \in Built <=> result = "DB_SUCCESS"
    BY <1>1, <2>1 DEF Built
  <2> QED
    BY <2>1, <2>2, <2>3, WholeOrBare
<1>2. PoolInv => FirstInstance
  BY <1>1 DEF FirstInstance
<1> QED
  BY <1>2, PoolInvariant, PTL

\* If no swap has overtaken a thread by the time the function returns, it has
\* initialised all instances, each chunk once and in the order of memory, or, after
\* an error, nothing is left of any of them.
THEOREM PoolAllOrNothing == Spec => [](~ overtaken => AllOrNothing)
<1>1. ASSUME PoolInv, ~ overtaken, mpc = "returned", NEW n \in Instances
      PROVE  IF result = "DB_SUCCESS" THEN Whole(n) ELSE Bare(n)
  <2>1. TypeOK /\ RoundsInv /\ DataInv /\ DataTypes /\ InstancesInv
    BY <1>1 DEF PoolInv, DataInv
  <2>2. bpi_finished /\ ~ Initialising /\ ~ BeforeMerge
    BY <1>1, <2>1 DEF RoundsInv, PlaceInv, Initialising, BeforeMerge
  <2>3. n \in Built <=> result = "DB_SUCCESS"
    BY <2>1, <2>2 DEF InstancesInv, Built, Instances, DataTypes
  <2> QED
    BY <2>1, <2>2, <2>3, WholeOrBare
<1>2. PoolInv => (~ overtaken => AllOrNothing)
  BY <1>1 DEF AllOrNothing
<1> QED
  BY <1>2, PoolInvariant, PTL
=============================================================================
