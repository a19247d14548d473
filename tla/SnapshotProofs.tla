----------------------------- MODULE SnapshotProofs -----------------------------
(****************************************************************************)
(* Theorems about the snapshot object, for every number of threads and      *)
(* every number of updates.                                                 *)
(****************************************************************************)
EXTENDS Snapshot, FiniteSetTheorems, TLAPS

USE NAssumption, MaxUpdatesAssumption

\* The set of threads is finite, and so is each of its subsets.
LEMMA FiniteThreads ==
  ASSUME NEW S \in SUBSET Threads
  PROVE  IsFiniteSet(S) /\ Cardinality(S) \in Nat /\ Cardinality(S) <= N
<1>1. IsFiniteSet(Threads) /\ Cardinality(Threads) = N
  BY FS_Interval DEF Threads
<1>2. IsFiniteSet(S) /\ Cardinality(S) <= N
  BY <1>1, FS_Subset
<1> QED BY <1>2, FS_CardinalityType

\* The null pointer is no snapshot.
LEMMA NoSnapApart == NoSnap \notin Snap
<1>1. 1 \in Threads
  BY DEF Threads
<1>2. DOMAIN NoSnap = {}
  BY DEF NoSnap
<1> QED BY <1>1, <1>2 DEF Snap

\* What the types say of a stamped value.
LEMMA StampedTypes ==
  ASSUME NEW s \in StampedValue
  PROVE  /\ s.stamp \in Nat /\ s.value \in Value /\ s.value \in Nat
         /\ s.snap \in Snap \union {NoSnap}
  BY DEF StampedValue, Value

\* What the types say of the state.
LEMMA Types ==
  ASSUME TypeOK
  PROVE  /\ \A i \in Threads : registers[i] \in StampedValue /\ registers[i].value \in Nat
         /\ Len(log) \in Nat \ {0}
         /\ \A n \in 1 .. Len(log) : log[n] \in Snap /\ \A i \in Threads : log[n][i] \in Nat
         /\ \A t \in Threads :
              /\ old[t] \in Seq(StampedValue) /\ fresh[t] \in Seq(StampedValue)
              /\ \A i \in 1 .. Len(old[t]) :
                   i \in Threads /\ old[t][i] \in StampedValue /\ old[t][i].value \in Nat
              /\ \A i \in 1 .. Len(fresh[t]) :
                   i \in Threads /\ fresh[t][i] \in StampedValue /\ fresh[t][i].value \in Nat
<1>1. \A i \in Threads : registers[i] \in StampedValue /\ registers[i].value \in Nat
  BY StampedTypes DEF TypeOK
<1>2. log \in Seq(Snap) /\ log # <<>>
  BY DEF TypeOK
<1>3. Len(log) \in Nat \ {0} /\ \A n \in 1 .. Len(log) : log[n] \in Snap
  BY <1>2
<1>4. \A f \in Snap, i \in Threads : f[i] \in Nat
  BY DEF Snap, Value
<1>5. ASSUME NEW t \in Threads
      PROVE  /\ old[t] \in Seq(StampedValue) /\ fresh[t] \in Seq(StampedValue)
             /\ \A i \in 1 .. Len(old[t]) : i \in Threads /\ old[t][i] \in StampedValue
             /\ \A i \in 1 .. Len(fresh[t]) : i \in Threads /\ fresh[t][i] \in StampedValue
  <2>1. /\ old[t] \in Seq(StampedValue) /\ fresh[t] \in Seq(StampedValue)
        /\ Len(old[t]) \in {0, N} /\ Len(fresh[t]) \in 0 .. N - 1
    BY DEF TypeOK
  <2>2. ASSUME NEW i \in 1 .. Len(old[t]) PROVE i \in Threads
    BY <2>1 DEF Threads
  <2>3. ASSUME NEW i \in 1 .. Len(fresh[t]) PROVE i \in Threads
    BY <2>1 DEF Threads
  <2> QED BY <2>1, <2>2, <2>3
<1> QED BY <1>1, <1>3, <1>4, <1>5, StampedTypes

\* The last state of the log is the array as it is, and the states before it
\* are behind.
LEMMA LogBehind ==
  ASSUME TypeOK, LogInv, NEW n \in 1 .. Len(log), NEW i \in Threads
  PROVE  /\ log[Len(log)][i] = registers[i].value
         /\ log[n][i] <= registers[i].value
<1>1. Len(log) \in 1 .. Len(log) /\ n <= Len(log)
  BY Types
<1>2. log[Len(log)][i] = registers[i].value
  BY DEF LogInv, Values
<1>3. log[n][i] <= log[Len(log)][i]
  BY <1>1 DEF LogInv
<1> QED BY <1>2, <1>3

-----------------------------------------------------------------------------
(* The copy a scan makes. *)

\* The copy with the register read in this step.
LEMMA CopyFacts ==
  ASSUME TypeOK, NEW t \in Threads
  PROVE  /\ Copy(t) \in Seq(StampedValue)
         /\ Len(Copy(t)) = Len(fresh[t]) + 1 /\ Len(fresh[t]) \in Nat
         /\ Len(fresh[t]) + 1 \in Threads
         /\ \A i \in 1 .. Len(fresh[t]) : Copy(t)[i] = fresh[t][i]
         /\ Copy(t)[Len(fresh[t]) + 1] = registers[Len(fresh[t]) + 1]
         /\ Copy(t) # <<>>
<1>1. fresh[t] \in Seq(StampedValue) /\ Len(fresh[t]) \in 0 .. N - 1
  BY DEF TypeOK
<1>2. Len(fresh[t]) + 1 \in Threads
  BY <1>1 DEF Threads
<1>3. registers[Len(fresh[t]) + 1] \in StampedValue
  BY <1>2 DEF TypeOK
<1> QED BY <1>1, <1>2, <1>3 DEF Copy

\* What it says of the array, wherever the scan is.
LEMMA CopySound ==
  ASSUME ScanInv, NEW t \in Threads, pc[t] = "scan"
  PROVE  /\ \A i \in 1 .. Len(fresh[t]) + 1 :
              i \in Threads /\ Copy(t)[i] \in StampedValue /\ StoredIn(i, Copy(t)[i])
         /\ t \in 1 .. Len(fresh[t]) + 1 => Copy(t)[t].value = registers[t].value
         /\ \E n \in began[t] .. Len(log) :
              /\ n \in 1 .. Len(log)
              /\ Between(t, n)
              /\ \A i \in 1 .. Len(fresh[t]) + 1 : log[n][i] <= Copy(t)[i].value
<1>1. TypeOK /\ LogInv /\ ScanOK(t) /\ CopiesOK(t)
      /\ began[t] \in Nat \ {0} /\ Len(log) \in Nat
  BY Types DEF ScanInv, ScanOK, TypeOK
<1>2. \A i \in 1 .. Len(fresh[t]) + 1 : i \in 1 .. Len(fresh[t]) \/ i = Len(fresh[t]) + 1
  BY <1>1, CopyFacts
<1>3. \A i \in Threads : StoredIn(i, registers[i]) /\ registers[i] \in StampedValue
  BY <1>1, Types DEF ScanInv, RegisterOK
<1>4. ASSUME NEW i \in 1 .. Len(fresh[t]) + 1
      PROVE  i \in Threads /\ Copy(t)[i] \in StampedValue /\ StoredIn(i, Copy(t)[i])
  <2>1. CASE i \in 1 .. Len(fresh[t])
    BY <1>1, <2>1, CopyFacts, Types DEF CopiesOK
  <2>2. CASE i = Len(fresh[t]) + 1
    BY <1>1, <1>3, <2>2, CopyFacts
  <2> QED BY <1>2, <2>1, <2>2
<1>5. t \in 1 .. Len(fresh[t]) + 1 => Copy(t)[t].value = registers[t].value
  BY <1>1, <1>2, CopyFacts DEF CopiesOK
<1>6. PICK n \in began[t] .. Len(log) : Between(t, n)
  BY <1>1 DEF ScanOK
<1>7. n \in 1 .. Len(log)
  BY <1>1
<1>8. ASSUME NEW i \in 1 .. Len(fresh[t]) + 1
      PROVE  log[n][i] <= Copy(t)[i].value
  <2>1. CASE i \in 1 .. Len(fresh[t])
    BY <1>1, <1>6, <2>1, CopyFacts DEF Between
  <2>2. CASE i = Len(fresh[t]) + 1
    BY <1>1, <1>4, <1>7, <2>2, CopyFacts, LogBehind
  <2> QED BY <1>2, <2>1, <2>2
<1> QED BY <1>4, <1>5, <1>6, <1>7, <1>8

\* The end of a collect: the copy is complete.
LEMMA CopyComplete ==
  ASSUME TypeOK, NEW t \in Threads, LastRead(t)
  PROVE  Len(Copy(t)) = N /\ 1 .. Len(fresh[t]) + 1 = Threads
<1>1. Len(fresh[t]) = N - 1
  BY DEF LastRead
<1> QED BY <1>1, CopyFacts DEF Threads

\* A register that has changed between two collects has gone forth, and since
\* the scan began; its owner is another thread.
LEMMA ChangeSeen ==
  ASSUME ScanInv, NEW t \in Threads, LastRead(t), old[t] # <<>>
  PROVE  /\ \A i \in Threads : old[t][i].value <= Copy(t)[i].value
         /\ \A i \in Changed(t) : old[t][i].value < Copy(t)[i].value /\ i # t
<1>1. TypeOK /\ CopiesOK(t) /\ pc[t] = "scan" /\ Len(old[t]) = N
  <2>1. TypeOK /\ CopiesOK(t) /\ pc[t] = "scan"
    BY DEF ScanInv, ScanOK, LastRead
  <2>2. Len(old[t]) \in {0, N} /\ old[t] \in Seq(StampedValue)
    BY <2>1 DEF TypeOK
  <2> QED BY <2>1, <2>2
<1>2. 1 .. Len(old[t]) = Threads /\ 1 .. Len(fresh[t]) + 1 = Threads
  BY <1>1, CopyComplete DEF Threads
<1>3. PICK n \in began[t] .. Len(log) :
        /\ n \in 1 .. Len(log) /\ Between(t, n)
        /\ \A i \in 1 .. Len(fresh[t]) + 1 : log[n][i] <= Copy(t)[i].value
  BY <1>1, CopySound
<1>4. \A i \in Threads : old[t][i].value <= log[n][i] /\ log[n][i] <= Copy(t)[i].value
  BY <1>2, <1>3 DEF Between
<1>5. \A i \in Threads : /\ old[t][i].value \in Nat /\ log[n][i] \in Nat
                         /\ Copy(t)[i].value \in Nat
  BY <1>1, <1>2, <1>3, CopySound, StampedTypes, Types
<1>6. \A i \in Threads : old[t][i].value <= Copy(t)[i].value
  BY <1>4, <1>5
<1>7. \A i \in Threads :
        old[t][i].stamp = old[t][i].value /\ Copy(t)[i].stamp = Copy(t)[i].value
  BY <1>1, <1>2, CopySound DEF CopiesOK, StoredIn
<1>8. old[t][t].value = registers[t].value /\ Copy(t)[t].value = registers[t].value
  BY <1>1, <1>2, CopySound DEF CopiesOK
<1>9. ASSUME NEW i \in Changed(t)
      PROVE  old[t][i].value < Copy(t)[i].value /\ i # t
  BY <1>5, <1>6, <1>7, <1>8 DEF Changed
<1> QED BY <1>6, <1>9

-----------------------------------------------------------------------------
(* What a step leaves alone. *)

\* No step takes a value back or forgets a state.
Grows ==
    /\ Len(log) <= Len(log') /\ \A n \in 1 .. Len(log) : log'[n] = log[n]
    /\ \A i \in Threads : registers[i].value <= registers'[i].value

LEMMA UnchangedGrows ==
  ASSUME TypeOK, registers' = registers, log' = log
  PROVE  Grows
  BY Types DEF Grows

LEMMA GrowsTypes ==
  ASSUME TypeOK, TypeOK', Grows
  PROVE  /\ Len(log) \in Nat /\ Len(log') \in Nat /\ Len(log) <= Len(log')
         /\ \A n \in 1 .. Len(log) : log'[n] = log[n]
         /\ ToSet(log) \subseteq ToSet(log')
         /\ \A i \in Threads : registers'[i].value \in Nat
<1>1. log \in Seq(Snap) /\ log' \in Seq(Snap)
  BY DEF TypeOK
<1>2. Len(log) \in Nat /\ Len(log') \in Nat
  BY <1>1
<1>3. Len(log) <= Len(log') /\ \A n \in 1 .. Len(log) : log'[n] = log[n]
  BY DEF Grows
<1>4. 1 .. Len(log) \subseteq 1 .. Len(log')
  BY <1>2, <1>3
<1>5. ToSet(log) \subseteq ToSet(log')
  BY <1>1, <1>3, <1>4 DEF ToSet
<1>6. registers' \in [Threads -> StampedValue]
  BY DEF TypeOK
<1> QED BY <1>2, <1>3, <1>5, <1>6, StampedTypes

\* A value that is or was in a register stays one.
LEMMA StoredStays ==
  ASSUME TypeOK, TypeOK', Grows, NEW i \in Threads, NEW s \in StampedValue,
         StoredIn(i, s)
  PROVE  StoredIn(i, s)'
<1>1. ToSet(log) \subseteq ToSet(log')
  BY GrowsTypes
<1>2. s.value \in Nat /\ registers[i].value \in Nat /\ registers'[i].value \in Nat
  BY GrowsTypes, StampedTypes, Types
<1>3. s.value <= registers'[i].value
  BY <1>2 DEF StoredIn, Grows
<1> QED BY <1>1, <1>3 DEF StoredIn

\* The scan of a thread that makes no step in it, as far as it depends on its
\* locals.
SameScan(t) ==
    /\ pc'[t] = "scan" <=> pc[t] = "scan"
    /\ pc'[t] = "store" <=> pc[t] = "store"
    /\ old'[t] = old[t] /\ fresh'[t] = fresh[t] /\ moved'[t] = moved[t]
    /\ result'[t] = result[t] /\ began'[t] = began[t] /\ collects'[t] = collects[t]

LEMMA ScanStays ==
  ASSUME ScanInv, TypeOK', Grows, NEW t \in Threads, SameScan(t),
         registers'[t].value = registers[t].value
  PROVE  ScanOK(t)'
<1>1. TypeOK /\ ScanOK(t) /\ CopiesOK(t) /\ MovedOK(t)
  BY DEF ScanInv, ScanOK
<1>2. Len(log) \in Nat /\ Len(log') \in Nat /\ Len(log) <= Len(log')
      /\ \A n \in 1 .. Len(log) : log'[n] = log[n]
  BY <1>1, GrowsTypes
<1>3. began[t] \in Nat \ {0}
  BY <1>1 DEF TypeOK
<1>4. pc'[t] = "scan" => \E n \in began'[t] .. Len(log') : Between(t, n)'
  <2> SUFFICES ASSUME pc[t] = "scan" PROVE \E n \in began'[t] .. Len(log') : Between(t, n)'
    BY DEF SameScan
  <2>1. PICK n \in began[t] .. Len(log) : Between(t, n)
    BY <1>1 DEF ScanOK
  <2>2. n \in began'[t] .. Len(log') /\ log'[n] = log[n] /\ log'[began[t]] = log[began[t]]
    BY <1>2, <1>3 DEF SameScan
  <2>3. Between(t, n)'
    BY <2>1, <2>2 DEF Between, SameScan
  <2> QED BY <2>2, <2>3
<1>5. CopiesOK(t)'
  <2>1. \A i \in 1 .. Len(old[t]) : StoredIn(i, old[t][i])'
    <3> SUFFICES ASSUME NEW i \in 1 .. Len(old[t]) PROVE StoredIn(i, old[t][i])'
      OBVIOUS
    <3>1. PICK s \in StampedValue : s = old[t][i]
      BY <1>1, Types
    <3>2. i \in Threads /\ StoredIn(i, s)
      BY <1>1, <3>1, Types DEF CopiesOK
    <3>3. StoredIn(i, s)'
      BY <1>1, <3>2, StoredStays
    <3> QED BY <3>1, <3>3 DEF StoredIn, SameScan
  <2>2. \A i \in 1 .. Len(fresh[t]) : StoredIn(i, fresh[t][i])'
    <3> SUFFICES ASSUME NEW i \in 1 .. Len(fresh[t]) PROVE StoredIn(i, fresh[t][i])'
      OBVIOUS
    <3>1. PICK s \in StampedValue : s = fresh[t][i]
      BY <1>1, Types
    <3>2. i \in Threads /\ StoredIn(i, s)
      BY <1>1, <3>1, Types DEF CopiesOK
    <3>3. StoredIn(i, s)'
      BY <1>1, <3>2, StoredStays
    <3> QED BY <3>1, <3>3 DEF StoredIn, SameScan
  <2> QED BY <1>1, <2>1, <2>2 DEF CopiesOK, SameScan
<1>6. MovedOK(t)'
  <2>1. \A i \in moved[t] : old[t] # <<>> /\ log'[began[t]][i] < old[t][i].value
    <3> SUFFICES ASSUME NEW i \in moved[t]
                 PROVE  old[t] # <<>> /\ log'[began[t]][i] < old[t][i].value
      OBVIOUS
    <3>1. pc[t] = "scan"
      BY <1>1 DEF ScanOK
    <3>2. began[t] \in 1 .. Len(log)
      BY <1>1, <1>2, <1>3, <3>1 DEF ScanOK
    <3> QED BY <1>1, <1>2, <3>2 DEF MovedOK
  <2> QED BY <1>1, <2>1 DEF MovedOK, SameScan
<1>7. result'[t] \in ToSet(log') \union {NoSnap}
  BY <1>1, GrowsTypes DEF ScanOK, SameScan
<1> QED BY <1>1, <1>4, <1>5, <1>6, <1>7 DEF ScanOK, SameScan

\* A register whose owner neither stores nor counts.
LEMMA RegisterStays ==
  ASSUME ScanInv, TypeOK', Grows, NEW t \in Threads, registers'[t] = registers[t],
         numExecutions'[t] = numExecutions[t], pc'[t] = "count" <=> pc[t] = "count"
  PROVE  RegisterOK(t)'
<1>1. TypeOK /\ RegisterOK(t) /\ registers[t] \in StampedValue
  BY DEF ScanInv, TypeOK
<1>2. PICK s \in StampedValue : s = registers[t]
  BY <1>1
<1>3. StoredIn(t, s)'
  BY <1>1, <1>2, StoredStays DEF RegisterOK
<1>4. StoredIn(t, registers[t])'
  BY <1>2, <1>3 DEF StoredIn
<1>5. registers'[t].value < Len(log')
  <2>1. registers[t].value \in Nat /\ Len(log) \in Nat /\ Len(log') \in Nat
    BY <1>1, Types, GrowsTypes
  <2> QED BY <1>1, <2>1, GrowsTypes DEF RegisterOK
<1> QED BY <1>1, <1>4, <1>5 DEF RegisterOK

\* A step of a thread that main has created.
LEMMA UnbornStays ==
  ASSUME TypeOK, UnbornInv, UNCHANGED mainVars,
         \A t \in Threads : pc[t] = "unborn" => pc'[t] = "unborn"
  PROVE  UnbornInv'
<1>1. mainIndex \in 1 .. N
  BY DEF TypeOK, Threads
<1>2. mainIndex .. N \subseteq Threads /\ mainIndex + 1 .. N \subseteq Threads
  BY <1>1 DEF Threads
<1> QED BY <1>2 DEF UnbornInv, mainVars

\* A step outside of update(), of a thread or of main.
LEMMA OutsideKeeps ==
  ASSUME ScanInv, TypeOK', UnbornInv',
         UNCHANGED <<registers, log, result, scanVars>>,
         \A t \in Threads : /\ pc'[t] = "scan" <=> pc[t] = "scan"
                            /\ pc'[t] = "store" <=> pc[t] = "store"
                            /\ RegisterOK(t)'
  PROVE  ScanInv'
<1>1. TypeOK /\ LogInv
  BY DEF ScanInv
<1>2. Grows
  BY <1>1, UnchangedGrows
<1>3. ASSUME NEW t \in Threads PROVE ScanOK(t)'
  BY <1>2, ScanStays DEF SameScan, scanVars
<1>4. UnderWay' = UnderWay
  BY DEF UnderWay
<1>5. LogInv'
  BY <1>1, <1>4 DEF LogInv, Values
<1> QED BY <1>3, <1>5 DEF ScanInv

-----------------------------------------------------------------------------
(* scan() *)

\* A value that a register has stays such a value in a step that stores none.
LEMMA StoredSame ==
  ASSUME registers' = registers, log' = log, NEW i, NEW s, StoredIn(i, s)
  PROVE  StoredIn(i, s)'
  BY DEF StoredIn

\* A step of t within scan(), or out of it: what remains to be shown is t's
\* own part of the invariant.
LEMMA ScanningKeeps ==
  ASSUME ScanInv, TypeOK', NEW t \in Threads, pc[t] = "scan",
         pc'[t] \in {"scan", "store"},
         \A u \in Threads \ {t} : pc'[u] = pc[u] /\ SameScan(u),
         UNCHANGED <<registers, log, workerVars, mainVars>>,
         ScanOK(t)'
  PROVE  ScanInv'
<1>1. TypeOK /\ LogInv /\ UnbornInv
  BY DEF ScanInv
<1>2. Grows
  BY <1>1, UnchangedGrows
<1>3. ASSUME NEW u \in Threads PROVE RegisterOK(u)'
  BY <1>2, RegisterStays DEF workerVars
<1>4. ASSUME NEW u \in Threads PROVE ScanOK(u)'
  <2>1. CASE u = t
    BY <2>1
  <2>2. CASE u # t
    BY <1>2, <2>2, ScanStays
  <2> QED BY <2>1, <2>2
<1>5. UnderWay' = UnderWay
  BY DEF UnderWay
<1>6. LogInv'
  BY <1>1, <1>5 DEF LogInv, Values
<1>7. \A u \in Threads : pc[u] = "unborn" => pc'[u] = "unborn"
  OBVIOUS
<1>8. UnbornInv'
  BY <1>1, <1>7, UnbornStays
<1> QED BY <1>3, <1>4, <1>6, <1>8 DEF ScanInv

LEMMA CollectInv ==
  ASSUME ScanInv, NEW t \in Threads, Collect(t)
  PROVE  ScanInv'
<1>1. TypeOK /\ ScanOK(t) /\ CopiesOK(t) /\ MovedOK(t) /\ pc[t] = "scan"
      /\ Len(fresh[t]) < N - 1 /\ fresh' = [fresh EXCEPT ![t] = Copy(t)]
      /\ UNCHANGED <<registers, pc, result, old, moved, began, collects, workerVars,
                     mainVars, log>>
  BY DEF ScanInv, ScanOK, Collect
<1>2. fresh'[t] = Copy(t) /\ \A u \in Threads \ {t} : fresh'[u] = fresh[u]
  BY <1>1 DEF TypeOK
<1>3. TypeOK'
  <2>1. fresh' \in [Threads -> Seq(StampedValue)]
    BY <1>1, CopyFacts DEF TypeOK
  <2>2. Len(fresh'[t]) \in 0 .. N - 1
    BY <1>1, <1>2, CopyFacts
  <2>3. \A u \in Threads : Len(fresh'[u]) \in 0 .. N - 1
    BY <1>1, <1>2, <2>2 DEF TypeOK
  <2> QED BY <1>1, <2>1, <2>3 DEF TypeOK, workerVars, mainVars
<1>4. Len(fresh'[t]) = Len(fresh[t]) + 1
  BY <1>2, CopyFacts, <1>1
<1>5. \E n \in began'[t] .. Len(log') : Between(t, n)'
  <2>1. PICK n \in began[t] .. Len(log) :
          /\ n \in 1 .. Len(log) /\ Between(t, n)
          /\ \A i \in 1 .. Len(fresh[t]) + 1 : log[n][i] <= Copy(t)[i].value
    BY <1>1, CopySound
  <2>2. Between(t, n)'
    BY <1>1, <1>2, <1>4, <2>1 DEF Between
  <2> QED BY <1>1, <2>2
<1>6. CopiesOK(t)'
  <2>1. ASSUME NEW i \in 1 .. Len(fresh[t]) + 1 PROVE StoredIn(i, fresh[t][i])'
    <3>1. PICK s : s = Copy(t)[i]
      OBVIOUS
    <3>2. StoredIn(i, s)
      BY <1>1, <3>1, CopySound
    <3>3. StoredIn(i, s)'
      BY <1>1, <3>2, StoredSame
    <3>4. fresh'[t][i] = s
      BY <1>2, <3>1
    <3> QED BY <3>3, <3>4 DEF StoredIn
  <2>2. ASSUME NEW i \in 1 .. Len(old[t]) PROVE StoredIn(i, old[t][i])'
    <3>1. PICK s : s = old[t][i]
      OBVIOUS
    <3>2. StoredIn(i, s)
      BY <1>1, <3>1 DEF CopiesOK
    <3>3. StoredIn(i, s)'
      BY <1>1, <3>2, StoredSame
    <3>4. old'[t][i] = s
      BY <1>1, <3>1
    <3> QED BY <3>3, <3>4 DEF StoredIn
  <2>3. t \in 1 .. Len(fresh'[t]) => fresh'[t][t].value = registers'[t].value
    BY <1>1, <1>2, <1>4, CopySound
  <2>4. /\ \A i \in 1 .. Len(old'[t]) : StoredIn(i, old[t][i])'
        /\ \A i \in 1 .. Len(fresh'[t]) : StoredIn(i, fresh[t][i])'
        /\ t \in 1 .. Len(old'[t]) => old'[t][t].value = registers'[t].value
    BY <1>1, <1>4, <2>1, <2>2 DEF CopiesOK
  <2> QED BY <2>3, <2>4 DEF CopiesOK
<1>7. MovedOK(t)'
  BY <1>1 DEF MovedOK
<1>8. ScanOK(t)'
  BY <1>1, <1>5, <1>6, <1>7 DEF ScanOK
<1>9. \A u \in Threads \ {t} : pc'[u] = pc[u] /\ SameScan(u)
  BY <1>1, <1>2 DEF SameScan
<1> QED BY <1>1, <1>3, <1>8, <1>9, ScanningKeeps

\* The copy becomes oldCopy.
LEMMA RecollectInv ==
  ASSUME ScanInv, NEW t \in Threads, LastRead(t), Recollect(t),
         moved' \in [Threads -> SUBSET Threads],
         \A u \in Threads \ {t} : moved'[u] = moved[u],
         t \notin moved'[t],
         \A i \in moved'[t] : log[began[t]][i] < Copy(t)[i].value,
         collects[t] = Cardinality(moved'[t])
  PROVE  ScanInv'
<1>1. TypeOK /\ LogInv /\ ScanOK(t) /\ pc[t] = "scan" /\ Len(fresh[t]) = N - 1
      /\ UNCHANGED <<registers, pc, result, began, workerVars, mainVars, log>>
  BY DEF ScanInv, LastRead, Recollect
<1>2. /\ old'[t] = Copy(t) /\ fresh'[t] = <<>> /\ collects'[t] = collects[t] + 1
      /\ \A u \in Threads \ {t} :
           old'[u] = old[u] /\ fresh'[u] = fresh[u] /\ collects'[u] = collects[u]
  BY <1>1 DEF Recollect, TypeOK
<1>3. /\ Len(old'[t]) = N /\ Len(fresh'[t]) = 0 /\ 1 .. Len(old'[t]) = Threads
      /\ 1 .. Len(fresh[t]) + 1 = Threads /\ old'[t] # <<>>
  BY <1>1, <1>2, CopyComplete, CopyFacts DEF Threads
<1>4. TypeOK'
  <2>1. Copy(t) \in Seq(StampedValue) /\ <<>> \in Seq(StampedValue)
    BY <1>1, CopyFacts
  <2>2. old' \in [Threads -> Seq(StampedValue)]
    BY <1>1, <2>1 DEF Recollect, TypeOK
  <2>3. fresh' \in [Threads -> Seq(StampedValue)]
    BY <1>1, <2>1 DEF Recollect, TypeOK
  <2>4. collects' \in [Threads -> Nat]
    BY <1>1 DEF Recollect, TypeOK
  <2>5. ASSUME NEW u \in Threads
        PROVE  Len(old'[u]) \in {0, N} /\ Len(fresh'[u]) \in 0 .. N - 1
    <3>1. CASE u = t
      BY <1>3, <3>1
    <3>2. CASE u # t
      BY <1>1, <1>2, <3>2 DEF TypeOK
    <3> QED BY <3>1, <3>2
  <2> QED BY <1>1, <2>2, <2>3, <2>4, <2>5 DEF TypeOK, workerVars, mainVars
<1>5. PICK n \in began[t] .. Len(log) :
        /\ n \in 1 .. Len(log) /\ Between(t, n)
        /\ \A i \in 1 .. Len(fresh[t]) + 1 : log[n][i] <= Copy(t)[i].value
  BY <1>1, CopySound
<1>6. began[t] \in 1 .. Len(log) /\ began[t] <= n /\ Len(log) \in 1 .. Len(log)
      /\ Len(log) \in began[t] .. Len(log)
  <2>1. began[t] \in Nat \ {0} /\ Len(log) \in Nat
    BY <1>1, Types DEF TypeOK
  <2> QED BY <1>5, <2>1
<1>7. \A i \in Threads :
        log[began[t]][i] <= Copy(t)[i].value /\ Copy(t)[i].value <= log[Len(log)][i]
  <2> SUFFICES ASSUME NEW i \in Threads
               PROVE  log[began[t]][i] <= Copy(t)[i].value /\ Copy(t)[i].value <= log[Len(log)][i]
    OBVIOUS
  <2>1. log[began[t]][i] <= log[n][i]
    BY <1>1, <1>5, <1>6 DEF LogInv
  <2>2. log[n][i] <= Copy(t)[i].value
    BY <1>3, <1>5
  <2>3. Copy(t)[i].value <= registers[i].value /\ registers[i].value = log[Len(log)][i]
    BY <1>1, <1>3, <1>6, CopySound, LogBehind DEF StoredIn
  <2>4. /\ log[began[t]][i] \in Nat /\ log[n][i] \in Nat /\ registers[i].value \in Nat
        /\ Copy(t)[i].value \in Nat
    BY <1>1, <1>3, <1>5, <1>6, Types, CopySound, StampedTypes
  <2> QED BY <2>1, <2>2, <2>3, <2>4
<1>8. \E m \in began'[t] .. Len(log') : Between(t, m)'
  <2>1. PICK m \in began[t] .. Len(log) : m = Len(log)
    BY <1>6
  <2>2. \A i \in 1 .. Len(fresh'[t]) : log'[m][i] <= fresh'[t][i].value
    BY <1>3
  <2>3. \A i \in 1 .. Len(old'[t]) : /\ log'[began'[t]][i] <= old'[t][i].value
                                     /\ old'[t][i].value <= log'[m][i]
    BY <1>1, <1>2, <1>3, <1>7, <2>1
  <2>4. Between(t, m)'
    BY <2>2, <2>3 DEF Between
  <2> QED BY <1>1, <2>1, <2>4
<1>9. CopiesOK(t)'
  <2>1. ASSUME NEW i \in Threads PROVE StoredIn(i, old[t][i])'
    <3>1. PICK s : s = Copy(t)[i]
      OBVIOUS
    <3>2. StoredIn(i, s)
      BY <1>1, <1>3, <3>1, CopySound
    <3>3. StoredIn(i, s)'
      BY <1>1, <3>2, StoredSame
    <3>4. old'[t][i] = s
      BY <1>2, <3>1
    <3> QED BY <3>3, <3>4 DEF StoredIn
  <2>2. old'[t][t].value = registers'[t].value
    BY <1>1, <1>2, <1>3, CopySound
  <2>3. 1 .. Len(fresh'[t]) = {}
    BY <1>3
  <2> QED BY <1>3, <2>1, <2>2, <2>3 DEF CopiesOK
<1>10. MovedOK(t)'
  <2>1. Cardinality(moved'[t]) \in Nat
    BY FiniteThreads
  <2> QED BY <1>1, <1>2, <1>3, <2>1 DEF MovedOK
<1>11. ScanOK(t)'
  BY <1>1, <1>8, <1>9, <1>10 DEF ScanOK
<1>12. \A u \in Threads \ {t} : pc'[u] = pc[u] /\ SameScan(u)
  BY <1>1, <1>2 DEF SameScan
<1> QED BY <1>1, <1>4, <1>11, <1>12, ScanningKeeps

LEMMA FirstCollectInv ==
  ASSUME ScanInv, NEW t \in Threads, FirstCollect(t)
  PROVE  ScanInv'
<1>1. TypeOK /\ MovedOK(t) /\ LastRead(t) /\ old[t] = <<>> /\ Recollect(t) /\ moved' = moved
  BY DEF ScanInv, ScanOK, FirstCollect
<1>2. moved[t] = {} /\ collects[t] = Cardinality(moved[t])
  <2>1. moved[t] = {}
    BY <1>1 DEF MovedOK
  <2>2. Cardinality(moved[t]) \in Nat
    BY <2>1, FS_EmptySet
  <2> QED BY <1>1, <2>1, <2>2 DEF MovedOK
<1>3. moved' \in [Threads -> SUBSET Threads]
  BY <1>1 DEF TypeOK
<1> QED BY <1>1, <1>2, <1>3, RecollectInv

LEMMA RetryInv ==
  ASSUME ScanInv, NEW t \in Threads, NEW i \in Threads, Retry(t, i)
  PROVE  ScanInv'
<1>1. TypeOK /\ MovedOK(t) /\ CopiesOK(t) /\ LastRead(t) /\ pc[t] = "scan"
      /\ old[t] # <<>> /\ i \in Changed(t) /\ i \notin moved[t] /\ Recollect(t)
      /\ moved' = [moved EXCEPT ![t] = @ \union {i}]
  BY DEF ScanInv, ScanOK, Retry, DiffersFirstAt, LastRead
<1>2. moved'[t] = moved[t] \union {i} /\ moved[t] \in SUBSET Threads
      /\ moved' \in [Threads -> SUBSET Threads]
      /\ \A u \in Threads \ {t} : moved'[u] = moved[u]
  BY <1>1 DEF TypeOK
<1>3. t \notin moved'[t]
  BY <1>1, <1>2, ChangeSeen DEF MovedOK
<1>4. collects[t] = Cardinality(moved'[t])
  <2>1. IsFiniteSet(moved[t])
    BY <1>2, FiniteThreads
  <2>2. Cardinality(moved'[t]) = Cardinality(moved[t]) + 1
    BY <1>1, <1>2, <2>1, FS_AddElement
  <2> QED BY <1>1, <2>2 DEF MovedOK
<1>5. ASSUME NEW j \in moved'[t] PROVE log[began[t]][j] < Copy(t)[j].value
  <2>1. j \in Threads /\ 1 .. Len(old[t]) = Threads /\ 1 .. Len(fresh[t]) + 1 = Threads
        /\ began[t] \in 1 .. Len(log)
    <3>1. PICK n \in began[t] .. Len(log) : Between(t, n)
      BY <1>1 DEF ScanInv, ScanOK
    <3>2. began[t] \in Nat \ {0} /\ Len(log) \in Nat /\ Len(old[t]) = N
      BY <1>1, Types DEF TypeOK
    <3> QED BY <1>1, <1>2, <3>1, <3>2, CopyComplete DEF Threads
  <2>2. /\ log[began[t]][j] \in Nat /\ old[t][j].value \in Nat /\ Copy(t)[j].value \in Nat
    BY <1>1, <2>1, Types, CopySound, StampedTypes
  <2>3. log[began[t]][j] <= old[t][j].value
    BY <1>1, <2>1 DEF ScanInv, ScanOK, Between
  <2>4. old[t][j].value <= Copy(t)[j].value
    BY <1>1, <2>1, ChangeSeen
  <2>5. CASE j = i
    <3>1. old[t][j].value < Copy(t)[j].value
      BY <1>1, <2>5, ChangeSeen
    <3> QED BY <2>2, <2>3, <3>1
  <2>6. CASE j \in moved[t]
    <3>1. log[began[t]][j] < old[t][j].value
      BY <1>1, <2>6 DEF MovedOK
    <3> QED BY <2>2, <2>4, <3>1
  <2> QED BY <1>2, <2>5, <2>6
<1> QED BY <1>1, <1>2, <1>3, <1>4, <1>5, RecollectInv

\* scan() returns a state that the array had.
LEMMA ReturnInv ==
  ASSUME ScanInv, NEW t \in Threads, pc[t] = "scan", NEW snap \in ToSet(log),
         ReturnFromScan(t, snap)
  PROVE  ScanInv'
<1>1. /\ TypeOK
      /\ UNCHANGED <<registers, began, workerVars, mainVars, log>>
      /\ result' = [result EXCEPT ![t] = snap] /\ old' = [old EXCEPT ![t] = <<>>]
      /\ fresh' = [fresh EXCEPT ![t] = <<>>] /\ moved' = [moved EXCEPT ![t] = {}]
      /\ collects' = [collects EXCEPT ![t] = 0] /\ pc' = [pc EXCEPT ![t] = "store"]
  BY DEF ScanInv, ReturnFromScan, Goto, NotMoved
<1>2. snap \in Snap /\ snap # NoSnap
  <2>1. log \in Seq(Snap)
    BY <1>1 DEF TypeOK
  <2>2. PICK n \in 1 .. Len(log) : snap = log[n]
    BY DEF ToSet
  <2> QED BY <2>1, <2>2, NoSnapApart
<1>3. /\ result'[t] = snap /\ old'[t] = <<>> /\ fresh'[t] = <<>> /\ moved'[t] = {}
      /\ collects'[t] = 0 /\ pc'[t] = "store"
  BY <1>1 DEF TypeOK
<1>4. \A u \in Threads \ {t} : pc'[u] = pc[u] /\ SameScan(u)
  BY <1>1 DEF SameScan, TypeOK
<1>5. TypeOK'
  <2>1. /\ <<>> \in Seq(StampedValue) /\ {} \in SUBSET Threads
    OBVIOUS
  <2>2. old' \in [Threads -> Seq(StampedValue)]
    BY <1>1, <2>1 DEF TypeOK
  <2>3. fresh' \in [Threads -> Seq(StampedValue)]
    BY <1>1, <2>1 DEF TypeOK
  <2>4. moved' \in [Threads -> SUBSET Threads]
    BY <1>1, <2>1 DEF TypeOK
  <2>5. result' \in [Threads -> Snap \union {NoSnap}]
    BY <1>1, <1>2 DEF TypeOK
  <2>6. collects' \in [Threads -> Nat]
    BY <1>1 DEF TypeOK
  <2>7. pc' \in [Threads -> {"unborn", "entry", "spin", "check", "scan", "store",
                             "count", "ended"}]
    BY <1>1 DEF TypeOK
  <2>8. ASSUME NEW u \in Threads
        PROVE  Len(old'[u]) \in {0, N} /\ Len(fresh'[u]) \in 0 .. N - 1
    <3>1. CASE u = t
      BY <1>3, <3>1
    <3>2. CASE u # t
      BY <1>1, <1>4, <3>2 DEF TypeOK, SameScan
    <3> QED BY <3>1, <3>2
  <2> QED BY <1>1, <2>2, <2>3, <2>4, <2>5, <2>6, <2>7, <2>8 DEF TypeOK, workerVars, mainVars
<1>6. CopiesOK(t)'
  <2>1. 1 .. Len(old'[t]) = {} /\ 1 .. Len(fresh'[t]) = {}
    BY <1>3
  <2> QED BY <2>1 DEF CopiesOK
<1>7. MovedOK(t)'
  BY <1>3, FS_EmptySet DEF MovedOK
<1>8. ScanOK(t)'
  BY <1>1, <1>2, <1>3, <1>6, <1>7 DEF ScanOK
<1> QED BY <1>1, <1>3, <1>4, <1>5, <1>8, ScanningKeeps

\* A register that has moved twice has a snapshot, of an update of its owner
\* that stored after this scan began.
LEMMA BorrowSound ==
  ASSUME ScanInv, NEW t \in Threads, NEW i \in moved[t], old[t] # <<>>
  PROVE  /\ log[began[t]][i] < old[t][i].value
         /\ old[t][i].snap # NoSnap /\ old[t][i].snap \in ToSet(log)
<1>1. TypeOK /\ MovedOK(t) /\ CopiesOK(t) /\ pc[t] = "scan"
  BY DEF ScanInv, ScanOK
<1>2. i \in Threads /\ 1 .. Len(old[t]) = Threads
  <2>1. Len(old[t]) \in {0, N} /\ old[t] \in Seq(StampedValue) /\ moved[t] \subseteq Threads
    BY <1>1 DEF TypeOK
  <2> QED BY <2>1 DEF Threads
<1>3. began[t] \in 1 .. Len(log)
  <2>1. PICK n \in began[t] .. Len(log) : Between(t, n)
    BY <1>1 DEF ScanInv, ScanOK
  <2>2. began[t] \in Nat \ {0} /\ Len(log) \in Nat
    BY <1>1, Types DEF TypeOK
  <2> QED BY <2>1, <2>2
<1>4. log[began[t]][i] \in Nat /\ old[t][i].value \in Nat
  BY <1>1, <1>2, <1>3, Types
<1>5. log[began[t]][i] < old[t][i].value
  BY <1>1 DEF MovedOK
<1>6. old[t][i].value # 0
  BY <1>4, <1>5
<1> QED BY <1>1, <1>2, <1>5, <1>6 DEF CopiesOK, StoredIn

\* Two collects that agree have read a state of the array: the one between them.
LEMMA CleanSound ==
  ASSUME ScanInv, NEW t \in Threads, Agrees(t)
  PROVE  \E n \in began[t] .. Len(log) : n \in 1 .. Len(log) /\ log[n] = Values(Copy(t))
<1>1. TypeOK /\ CopiesOK(t) /\ pc[t] = "scan" /\ LastRead(t) /\ old[t] # <<>>
      /\ Changed(t) = {}
  BY DEF ScanInv, ScanOK, Agrees, LastRead
<1>2. 1 .. Len(old[t]) = Threads /\ 1 .. Len(fresh[t]) + 1 = Threads
  <2>1. Len(old[t]) \in {0, N} /\ old[t] \in Seq(StampedValue)
    BY <1>1 DEF TypeOK
  <2> QED BY <1>1, <2>1, CopyComplete DEF Threads
<1>3. PICK n \in began[t] .. Len(log) :
        /\ n \in 1 .. Len(log) /\ Between(t, n)
        /\ \A i \in 1 .. Len(fresh[t]) + 1 : log[n][i] <= Copy(t)[i].value
  BY <1>1, CopySound
<1>4. ASSUME NEW i \in Threads PROVE log[n][i] = Copy(t)[i].value
  <2>1. old[t][i].stamp = Copy(t)[i].stamp
    BY <1>1 DEF Changed
  <2>2. old[t][i].stamp = old[t][i].value /\ Copy(t)[i].stamp = Copy(t)[i].value
    BY <1>1, <1>2, CopySound DEF CopiesOK, StoredIn
  <2>3. old[t][i].value <= log[n][i] /\ log[n][i] <= Copy(t)[i].value
    BY <1>2, <1>3 DEF Between
  <2>4. log[n][i] \in Nat /\ Copy(t)[i].value \in Nat
    BY <1>1, <1>2, <1>3, Types, CopySound, StampedTypes
  <2>5. old[t][i].value = Copy(t)[i].value
    BY <2>1, <2>2
  <2> QED BY <2>3, <2>4, <2>5
<1>5. log[n] = Values(Copy(t))
  <2>1. log[n] \in [Threads -> Value]
    BY <1>1, <1>3, Types DEF Snap
  <2> QED BY <1>4, <2>1 DEF Values
<1> QED BY <1>3, <1>5

LEMMA BorrowInv ==
  ASSUME ScanInv, NEW t \in Threads, NEW i \in Threads, Borrow(t, i)
  PROVE  ScanInv'
<1>1. pc[t] = "scan" /\ old[t] # <<>> /\ i \in moved[t]
      /\ ReturnFromScan(t, old[t][i].snap)
  BY DEF Borrow, DiffersFirstAt, LastRead
<1>2. old[t][i].snap \in ToSet(log)
  BY <1>1, BorrowSound
<1> QED BY <1>1, <1>2, ReturnInv

LEMMA ReturnValuesInv ==
  ASSUME ScanInv, NEW t \in Threads, ReturnValues(t)
  PROVE  ScanInv'
<1>1. pc[t] = "scan" /\ ReturnFromScan(t, Values(Copy(t)))
  BY DEF ReturnValues, Agrees, LastRead
<1>2. Values(Copy(t)) \in ToSet(log)
  <2>1. PICK n \in 1 .. Len(log) : log[n] = Values(Copy(t))
    BY CleanSound DEF ReturnValues
  <2>2. DOMAIN log = 1 .. Len(log)
    BY DEF ScanInv, TypeOK
  <2> QED BY <2>1, <2>2 DEF ToSet
<1>3. PICK snap \in ToSet(log) : snap = Values(Copy(t))
  BY <1>2
<1>4. ReturnFromScan(t, snap)
  BY <1>1, <1>3
<1> QED BY <1>1, <1>4, ReturnInv

-----------------------------------------------------------------------------
(* update() and the worker thread *)

LEMMA BeginUpdateInv ==
  ASSUME ScanInv, NEW t \in Threads, BeginUpdate(t)
  PROVE  ScanInv'
<1>1. /\ TypeOK /\ LogInv /\ UnbornInv /\ ScanOK(t) /\ pc[t] = "check"
      /\ Len(log) + Cardinality(UnderWay) <= MaxUpdates
      /\ began' = [began EXCEPT ![t] = Len(log)] /\ pc' = [pc EXCEPT ![t] = "scan"]
      /\ UNCHANGED <<registers, result, old, fresh, moved, collects, workerVars,
                     mainVars, log>>
  BY DEF ScanInv, BeginUpdate, Goto
<1>2. Grows /\ Len(log) \in Nat \ {0}
  BY <1>1, UnchangedGrows, Types
<1>3. /\ pc'[t] = "scan" /\ began'[t] = Len(log)
      /\ \A u \in Threads \ {t} : pc'[u] = pc[u] /\ began'[u] = began[u]
  BY <1>1 DEF TypeOK
<1>4. TypeOK'
  <2>1. began' \in [Threads -> Nat \ {0}]
    BY <1>1, <1>2 DEF TypeOK
  <2>2. pc' \in [Threads -> {"unborn", "entry", "spin", "check", "scan", "store",
                             "count", "ended"}]
    BY <1>1 DEF TypeOK
  <2> QED BY <1>1, <2>1, <2>2 DEF TypeOK, workerVars, mainVars
<1>5. LogInv'
  <2>1. UnderWay' = UnderWay \union {t} /\ t \notin UnderWay /\ UnderWay \subseteq Threads
    BY <1>1, <1>3 DEF UnderWay
  <2>2. IsFiniteSet(UnderWay) /\ Cardinality(UnderWay) \in Nat
    BY <2>1, FiniteThreads
  <2>3. Cardinality(UnderWay') = Cardinality(UnderWay) + 1
    BY <2>1, <2>2, FS_AddElement
  <2>4. Len(log) + Cardinality(UnderWay') <= MaxUpdates + 1
    BY <1>1, <1>2, <2>2, <2>3
  <2> QED BY <1>1, <2>4 DEF LogInv, Values
<1>6. UnbornInv'
  BY <1>1, <1>3, UnbornStays
<1>7. ASSUME NEW u \in Threads PROVE RegisterOK(u)'
  <2>1. pc'[u] = "count" <=> pc[u] = "count"
    BY <1>1, <1>3
  <2> QED BY <1>1, <1>2, <1>4, <2>1, RegisterStays DEF workerVars
<1>8. ASSUME NEW u \in Threads PROVE ScanOK(u)'
  <2>1. CASE u = t
    <3>1. old[t] = <<>> /\ fresh[t] = <<>> /\ moved[t] = {} /\ collects[t] = Cardinality(moved[t])
      <4>1. old[t] = <<>> /\ fresh[t] = <<>> /\ moved[t] = {}
        BY <1>1 DEF ScanOK
      <4> QED BY <1>1, <4>1, FS_EmptySet DEF ScanOK, MovedOK
    <3>2. \E n \in began'[t] .. Len(log') : Between(t, n)'
      <4>1. PICK n \in Nat : n = Len(log)
        BY <1>2
      <4>2. 1 .. Len(old'[t]) = {} /\ 1 .. Len(fresh'[t]) = {}
        BY <1>1, <3>1
      <4>3. Between(t, n)'
        BY <4>2 DEF Between
      <4> QED BY <1>1, <1>3, <4>1, <4>3
    <3>3. CopiesOK(t)'
      <4>1. 1 .. Len(old'[t]) = {} /\ 1 .. Len(fresh'[t]) = {}
        BY <1>1, <3>1
      <4> QED BY <4>1 DEF CopiesOK
    <3>4. MovedOK(t)'
      BY <1>1, <3>1, FS_EmptySet DEF MovedOK
    <3> QED BY <1>1, <1>3, <2>1, <3>1, <3>2, <3>3, <3>4 DEF ScanOK
  <2>2. CASE u # t
    <3>1. SameScan(u)
      BY <1>1, <1>3, <2>2 DEF SameScan
    <3> QED BY <1>1, <1>2, <1>4, <3>1, ScanStays
  <2> QED BY <2>1, <2>2
<1> QED BY <1>4, <1>5, <1>6, <1>7, <1>8 DEF ScanInv

\* What the store of t makes of the registers.
LEMMA StoreFacts ==
  ASSUME ScanInv, NEW t \in Threads, Store(t)
  PROVE  /\ registers' \in [Threads -> StampedValue]
         /\ registers'[t].stamp = registers'[t].value /\ registers'[t].snap = result[t]
         /\ registers'[t].value = registers[t].value + 1
         /\ registers'[t].value = numExecutions[t] + 1
         /\ registers'[t].value <= Len(log) /\ Len(log) <= MaxUpdates
         /\ \A u \in Threads \ {t} : registers'[u] = registers[u]
<1>1. /\ TypeOK /\ LogInv /\ RegisterOK(t) /\ pc[t] = "store"
      /\ registers' = [registers EXCEPT ![t] =
                          [stamp |-> @.stamp + 1, value |-> numExecutions[t] + 1,
                           snap |-> result[t]]]
  BY DEF ScanInv, Store
<1>2. /\ registers[t].stamp = registers[t].value
      /\ registers[t].value = numExecutions[t]
      /\ registers[t].value < Len(log)
  <2>1. numExecutions[t] \in Nat
    BY <1>1 DEF TypeOK
  <2> QED BY <1>1, <2>1 DEF RegisterOK, StoredIn
<1>3. registers[t].value \in Nat /\ Len(log) \in Nat
  BY <1>1, Types
<1>4. Len(log) <= MaxUpdates
  <2>1. t \in UnderWay /\ UnderWay \in SUBSET Threads
    BY <1>1 DEF UnderWay
  <2>2. IsFiniteSet(UnderWay) /\ Cardinality(UnderWay) \in Nat
    BY <2>1, FiniteThreads
  <2>3. Cardinality(UnderWay) # 0
    BY <2>1, <2>2, FS_EmptySet
  <2>4. Len(log) + Cardinality(UnderWay) <= MaxUpdates + 1
    BY <1>1 DEF LogInv
  <2>5. Cardinality(UnderWay) >= 1
    BY <2>2, <2>3
  <2> QED BY <1>3, <2>2, <2>4, <2>5
<1>5. [stamp |-> registers[t].stamp + 1, value |-> numExecutions[t] + 1,
       snap |-> result[t]] \in StampedValue
  <2>1. numExecutions[t] + 1 \in Value
    BY <1>2, <1>3, <1>4 DEF Value
  <2>2. result[t] \in Snap \union {NoSnap}
    BY <1>1 DEF TypeOK
  <2>3. registers[t].stamp + 1 \in Nat
    BY <1>2, <1>3
  <2> QED BY <2>1, <2>2, <2>3 DEF StampedValue
<1>6. registers' \in [Threads -> StampedValue]
  BY <1>1, <1>5 DEF TypeOK
<1>7. /\ registers'[t] = [stamp |-> registers[t].stamp + 1,
                          value |-> numExecutions[t] + 1, snap |-> result[t]]
      /\ \A u \in Threads \ {t} : registers'[u] = registers[u]
  BY <1>1 DEF TypeOK
<1> QED BY <1>2, <1>3, <1>4, <1>6, <1>7

LEMMA StoreInv ==
  ASSUME ScanInv, NEW t \in Threads, Store(t)
  PROVE  ScanInv'
<1>1. /\ TypeOK /\ LogInv /\ UnbornInv /\ RegisterOK(t) /\ ScanOK(t) /\ pc[t] = "store"
      /\ log' = Append(log, Values(registers'))
      /\ result' = [result EXCEPT ![t] = NoSnap] /\ pc' = [pc EXCEPT ![t] = "count"]
      /\ UNCHANGED <<old, fresh, moved, began, collects, workerVars, mainVars>>
  BY DEF ScanInv, Store, Goto, scanVars
<1>2. /\ registers' \in [Threads -> StampedValue]
      /\ registers'[t].stamp = registers'[t].value /\ registers'[t].snap = result[t]
      /\ registers'[t].value = registers[t].value + 1
      /\ registers'[t].value = numExecutions[t] + 1
      /\ registers'[t].value <= Len(log) /\ Len(log) <= MaxUpdates
      /\ \A u \in Threads \ {t} : registers'[u] = registers[u]
  BY StoreFacts
<1>3. /\ pc'[t] = "count" /\ result'[t] = NoSnap
      /\ \A u \in Threads \ {t} : pc'[u] = pc[u] /\ result'[u] = result[u]
  BY <1>1 DEF TypeOK
<1>4. Values(registers') \in Snap /\ \A i \in Threads : Values(registers')[i] = registers'[i].value
  <2>1. \A i \in Threads : registers'[i].value \in Value
    BY <1>2 DEF StampedValue
  <2> QED BY <2>1 DEF Values, Snap
<1>5. /\ log \in Seq(Snap) /\ log' \in Seq(Snap) \ {<<>>}
      /\ Len(log) \in Nat \ {0} /\ Len(log') = Len(log) + 1
      /\ log'[Len(log) + 1] = Values(registers')
      /\ \A n \in 1 .. Len(log) : log'[n] = log[n]
  <2>1. log \in Seq(Snap) /\ Len(log) \in Nat \ {0}
    BY <1>1, Types DEF TypeOK
  <2> QED BY <1>1, <1>4, <2>1
<1>6. TypeOK'
  <2>1. result' \in [Threads -> Snap \union {NoSnap}]
    BY <1>1 DEF TypeOK
  <2>2. pc' \in [Threads -> {"unborn", "entry", "spin", "check", "scan", "store",
                             "count", "ended"}]
    BY <1>1 DEF TypeOK
  <2> QED BY <1>1, <1>2, <1>5, <2>1, <2>2 DEF TypeOK, workerVars, mainVars
<1>7. \A i \in Threads : /\ registers[i].value \in Nat /\ registers'[i].value \in Nat
                         /\ registers[i].value <= registers'[i].value
  <2>1. \A i \in Threads : registers[i].value \in Nat /\ registers'[i].value \in Nat
    BY <1>1, <1>2, Types, StampedTypes
  <2>2. ASSUME NEW i \in Threads PROVE registers[i].value <= registers'[i].value
    <3>1. CASE i = t
      BY <1>2, <2>1, <3>1
    <3>2. CASE i # t
      BY <1>2, <2>1, <3>2
    <3> QED BY <3>1, <3>2
  <2> QED BY <2>1, <2>2
<1>8. Grows
  BY <1>5, <1>7 DEF Grows
<1>9. LogInv'
  <2>1. Len(log') + Cardinality(UnderWay') <= MaxUpdates + 1
    <3>1. t \in UnderWay /\ UnderWay' = UnderWay \ {t} /\ UnderWay \in SUBSET Threads
      BY <1>1, <1>3 DEF UnderWay
    <3>2. IsFiniteSet(UnderWay) /\ Cardinality(UnderWay) \in Nat
      BY <3>1, FiniteThreads
    <3>3. Cardinality(UnderWay') = Cardinality(UnderWay) - 1
      BY <3>1, <3>2, FS_RemoveElement
    <3>4. Len(log) + Cardinality(UnderWay) <= MaxUpdates + 1
      BY <1>1 DEF LogInv
    <3> QED BY <1>5, <3>2, <3>3, <3>4
  <2>2. log'[Len(log')] = Values(registers')
    BY <1>5
  <2>3. ASSUME NEW m \in 1 .. Len(log'), NEW n \in 1 .. Len(log'), m <= n,
               NEW i \in Threads
        PROVE  log'[m][i] <= log'[n][i]
    <3>1. CASE n \in 1 .. Len(log)
      <4>0. Len(log) \in Nat /\ Len(log') = Len(log) + 1
        BY <1>5
      <4>1. m \in 1 .. Len(log)
        BY <2>3, <3>1, <4>0
      <4>2. log[m][i] <= log[n][i]
        <5>1. \A k, l \in 1 .. Len(log) : k <= l => \A j \in Threads : log[k][j] <= log[l][j]
          BY <1>1 DEF LogInv
        <5> QED BY <2>3, <3>1, <4>1, <5>1
      <4> QED BY <1>5, <3>1, <4>1, <4>2
    <3>2. CASE m \in 1 .. Len(log) /\ n = Len(log) + 1
      <4>1. log[m][i] <= registers[i].value /\ log[m][i] \in Nat
        BY <1>1, <3>2, LogBehind, Types
      <4>2. log'[m][i] = log[m][i] /\ log'[n][i] = registers'[i].value
        BY <1>4, <1>5, <3>2
      <4> QED BY <1>7, <4>1, <4>2
    <3>3. CASE m = Len(log) + 1 /\ n = Len(log) + 1
      <4>1. log'[m][i] = registers'[i].value /\ log'[n][i] = registers'[i].value
        BY <1>4, <1>5, <3>3
      <4> QED BY <1>7, <4>1
    <3>4. \/ n \in 1 .. Len(log)
          \/ m \in 1 .. Len(log) /\ n = Len(log) + 1
          \/ m = Len(log) + 1 /\ n = Len(log) + 1
      BY <1>5
    <3> QED BY <3>1, <3>2, <3>3, <3>4
  <2> QED BY <2>1, <2>2, <2>3 DEF LogInv
<1>10. UnbornInv'
  BY <1>1, <1>3, UnbornStays
<1>11. RegisterOK(t)'
  <2>1. result[t] # NoSnap /\ result[t] \in ToSet(log')
    BY <1>1, <1>6, <1>8, GrowsTypes DEF ScanOK
  <2>2. registers'[t].value # 0
    BY <1>2, <1>7
  <2>3. StoredIn(t, registers[t])'
    BY <1>2, <1>7, <2>1, <2>2 DEF StoredIn
  <2>4. registers'[t].value = numExecutions'[t] + 1
    BY <1>1, <1>2 DEF workerVars
  <2>5. registers'[t].value < Len(log')
    BY <1>2, <1>5, <1>7
  <2> QED BY <1>3, <2>3, <2>4, <2>5 DEF RegisterOK
<1>12. ASSUME NEW u \in Threads \ {t} PROVE RegisterOK(u)'
  BY <1>1, <1>2, <1>3, <1>6, <1>8, RegisterStays DEF workerVars
<1>13. ScanOK(t)'
  <2>1. old[t] = <<>> /\ fresh[t] = <<>> /\ moved[t] = {} /\ MovedOK(t)
    BY <1>1 DEF ScanOK
  <2>2. CopiesOK(t)'
    <3>1. 1 .. Len(old'[t]) = {} /\ 1 .. Len(fresh'[t]) = {}
      BY <1>1, <2>1
    <3> QED BY <3>1 DEF CopiesOK
  <2>3. MovedOK(t)'
    BY <1>1, <2>1 DEF MovedOK
  <2> QED BY <1>1, <1>3, <2>1, <2>2, <2>3 DEF ScanOK
<1>14. ASSUME NEW u \in Threads \ {t} PROVE ScanOK(u)'
  <2>1. SameScan(u)
    BY <1>1, <1>3 DEF SameScan
  <2> QED BY <1>2, <1>6, <1>8, <2>1, ScanStays
<1> QED BY <1>6, <1>9, <1>10, <1>11, <1>12, <1>13, <1>14 DEF ScanInv

LEMMA CountInv ==
  ASSUME ScanInv, NEW t \in Threads, Count(t)
  PROVE  ScanInv'
<1>1. /\ TypeOK /\ UnbornInv /\ pc[t] = "count"
      /\ numExecutions' = [numExecutions EXCEPT ![t] = @ + 1]
      /\ pc' = [pc EXCEPT ![t] = "check"]
      /\ UNCHANGED <<registers, result, scanVars, threadStatus, mainVars, log>>
  BY DEF ScanInv, Count, Goto
<1>2. /\ pc'[t] = "check" /\ numExecutions'[t] = numExecutions[t] + 1
      /\ numExecutions[t] \in Nat
      /\ \A u \in Threads \ {t} : pc'[u] = pc[u] /\ numExecutions'[u] = numExecutions[u]
  BY <1>1 DEF TypeOK
<1>3. registers[t].value = numExecutions'[t]
  BY <1>1, <1>2 DEF ScanInv, RegisterOK
<1>4. TypeOK'
  <2>1. numExecutions[t] + 1 \in 0 .. MaxUpdates
    <3>1. registers[t].value \in 0 .. MaxUpdates
      BY <1>1, Types, StampedTypes DEF Value
    <3> QED BY <1>2, <1>3, <3>1
  <2>2. numExecutions' \in [Threads -> 0 .. MaxUpdates]
    BY <1>1, <2>1 DEF TypeOK
  <2>3. pc' \in [Threads -> {"unborn", "entry", "spin", "check", "scan", "store",
                             "count", "ended"}]
    BY <1>1 DEF TypeOK
  <2> QED BY <1>1, <2>2, <2>3 DEF TypeOK, scanVars, mainVars
<1>5. Grows
  BY <1>1, UnchangedGrows
<1>6. UnbornInv'
  BY <1>1, <1>2, UnbornStays
<1>7. ASSUME NEW u \in Threads PROVE RegisterOK(u)'
  <2>1. CASE u = t
    <3>1. StoredIn(t, registers[t])'
      <4>1. PICK s : s = registers[t]
        OBVIOUS
      <4>2. StoredIn(t, s)'
        BY <1>1, <4>1, StoredSame DEF ScanInv, RegisterOK
      <4> QED BY <1>1, <4>1, <4>2 DEF StoredIn
    <3>2. registers'[t].value < Len(log')
      BY <1>1 DEF ScanInv, RegisterOK
    <3>3. registers'[t].value = numExecutions'[t] + 0
      BY <1>1, <1>2, <1>3
    <3> QED BY <1>2, <2>1, <3>1, <3>2, <3>3 DEF RegisterOK
  <2>2. CASE u # t
    BY <1>1, <1>2, <1>4, <1>5, <2>2, RegisterStays
  <2> QED BY <2>1, <2>2
<1> QED BY <1>1, <1>2, <1>4, <1>6, <1>7, OutsideKeeps

\* A thread begins or ends.
LEMMA EntryInv ==
  ASSUME ScanInv, NEW t \in Threads, Entry(t) \/ StartWork(t) \/ EndWork(t)
  PROVE  ScanInv'
<1>1. TypeOK /\ UnbornInv
  BY DEF ScanInv
<1>2. PICK place \in {"spin", "check", "ended"} :
        /\ pc[t] \in {"entry", "spin", "check"} /\ pc' = [pc EXCEPT ![t] = place]
  BY DEF Entry, StartWork, EndWork, Goto
<1>3. threadStatus' \in [Threads -> 0 .. 3]
  <2>1. threadStatus \in [Threads -> 0 .. 3]
    BY <1>1 DEF TypeOK
  <2>2. CASE Entry(t)
    <3>1. threadStatus' = [threadStatus EXCEPT ![t] = 1]
      BY <2>2 DEF Entry
    <3> QED BY <2>1, <3>1
  <2>3. CASE StartWork(t) \/ EndWork(t)
    <3>1. threadStatus' = threadStatus
      BY <2>3 DEF StartWork, EndWork, workerVars
    <3> QED BY <2>1, <3>1
  <2> QED BY <2>2, <2>3
<1>4. UNCHANGED <<registers, result, scanVars, numExecutions, mainVars, log>>
  BY DEF Entry, StartWork, EndWork, workerVars
<1>5. pc'[t] = place /\ \A u \in Threads \ {t} : pc'[u] = pc[u]
  BY <1>1, <1>2 DEF TypeOK
<1>6. TypeOK'
  <2>1. pc' \in [Threads -> {"unborn", "entry", "spin", "check", "scan", "store",
                             "count", "ended"}]
    BY <1>1, <1>2 DEF TypeOK
  <2> QED BY <1>1, <1>3, <1>4, <2>1 DEF TypeOK, scanVars, mainVars
<1>7. Grows
  BY <1>1, <1>4, UnchangedGrows
<1>8. \A u \in Threads : /\ pc'[u] = "scan" <=> pc[u] = "scan"
                         /\ pc'[u] = "store" <=> pc[u] = "store"
                         /\ pc'[u] = "count" <=> pc[u] = "count"
                         /\ pc[u] = "unborn" => pc'[u] = "unborn"
  BY <1>2, <1>5
<1>9. UnbornInv'
  BY <1>1, <1>4, <1>8, UnbornStays
<1>10. \A u \in Threads : RegisterOK(u)'
  BY <1>4, <1>6, <1>7, <1>8, RegisterStays
<1> QED BY <1>4, <1>6, <1>8, <1>9, <1>10, OutsideKeeps

-----------------------------------------------------------------------------
(* main() *)

\* A step of main that creates no thread leaves the threads where they are.
LEMMA MainKeeps ==
  ASSUME ScanInv, TypeOK', UnbornInv',
         UNCHANGED <<registers, pc, result, scanVars, numExecutions, log>>
  PROVE  ScanInv'
<1>1. Grows
  BY UnchangedGrows DEF ScanInv
<1>2. \A t \in Threads : RegisterOK(t)'
  BY <1>1, RegisterStays
<1> QED BY <1>2, OutsideKeeps

LEMMA AdvanceTypes ==
  ASSUME TypeOK, NEW here, NEW next, Advance(here, next)
  PROVE  /\ mainIndex' \in Threads /\ mainDoes' \in {here, next}
         /\ mainDoes' = here /\ here # next => mainIndex' = mainIndex + 1
<1>1. mainIndex \in 1 .. N
  BY DEF TypeOK, Threads
<1>2. CASE mainIndex < N
  <2>1. mainDoes' = here /\ mainIndex' = mainIndex + 1
    BY <1>2 DEF Advance
  <2> QED BY <1>1, <1>2, <2>1 DEF Threads
<1>3. CASE ~(mainIndex < N)
  <2>1. mainDoes' = next /\ mainIndex' = 1
    BY <1>3 DEF Advance
  <2> QED BY <1>1, <2>1 DEF Threads
<1> QED BY <1>2, <1>3

LEMMA CreateInv ==
  ASSUME ScanInv, Create
  PROVE  ScanInv'
<1>1. /\ TypeOK /\ UnbornInv /\ mainDoes = "create" /\ mainDoes' = "await"
      /\ pc' = [pc EXCEPT ![mainIndex] = "entry"] /\ mainIndex \in Threads
      /\ UNCHANGED <<registers, result, scanVars, workerVars, mainIndex, numUpdates, log>>
  BY DEF ScanInv, Create, Goto, TypeOK
<1>2. \A i \in mainIndex .. N : i \in Threads /\ pc[i] = "unborn"
  BY <1>1 DEF UnbornInv, Threads
<1>3. /\ pc'[mainIndex] = "entry" /\ pc[mainIndex] = "unborn"
      /\ \A u \in Threads \ {mainIndex} : pc'[u] = pc[u]
  BY <1>1, <1>2 DEF TypeOK, Threads
<1>4. TypeOK'
  <2>1. pc' \in [Threads -> {"unborn", "entry", "spin", "check", "scan", "store",
                             "count", "ended"}]
    BY <1>1 DEF TypeOK
  <2> QED BY <1>1, <2>1 DEF TypeOK, scanVars, workerVars
<1>5. UnbornInv'
  <2>1. ASSUME NEW i \in mainIndex + 1 .. N PROVE pc'[i] = "unborn"
    <3>1. i \in mainIndex .. N /\ i # mainIndex
      BY <1>1 DEF Threads
    <3> QED BY <1>2, <1>3, <3>1
  <2> QED BY <1>1, <2>1 DEF UnbornInv
<1>6. Grows
  BY <1>1, UnchangedGrows
<1>7. \A u \in Threads : /\ pc'[u] = "scan" <=> pc[u] = "scan"
                         /\ pc'[u] = "store" <=> pc[u] = "store"
                         /\ pc'[u] = "count" <=> pc[u] = "count"
  BY <1>3
<1>8. \A u \in Threads : RegisterOK(u)'
  BY <1>1, <1>4, <1>6, <1>7, RegisterStays DEF workerVars
<1> QED BY <1>1, <1>4, <1>5, <1>7, <1>8, OutsideKeeps

LEMMA AwaitInv ==
  ASSUME ScanInv, Await
  PROVE  ScanInv'
<1>1. /\ TypeOK /\ UnbornInv /\ mainDoes = "await" /\ Advance("create", "work")
      /\ UNCHANGED <<registers, pc, result, scanVars, workerVars, numUpdates, log>>
  BY DEF ScanInv, Await
<1>2. /\ mainIndex' \in Threads /\ mainDoes' \in {"create", "work"}
      /\ mainDoes' = "create" => mainIndex' = mainIndex + 1
  BY <1>1, AdvanceTypes
<1>3. TypeOK'
  BY <1>1, <1>2 DEF TypeOK, scanVars, workerVars
<1>4. UnbornInv'
  BY <1>1, <1>2 DEF UnbornInv
<1> QED BY <1>1, <1>3, <1>4, MainKeeps DEF workerVars

LEMMA WorkInv ==
  ASSUME ScanInv, Work
  PROVE  ScanInv'
<1>1. /\ TypeOK /\ mainDoes = "work" /\ Advance("work", "terminate")
      /\ threadStatus' = [threadStatus EXCEPT ![mainIndex] = 2]
      /\ UNCHANGED <<registers, pc, result, scanVars, numExecutions, numUpdates, log>>
  BY DEF ScanInv, Work
<1>2. mainIndex' \in Threads /\ mainDoes' \in {"work", "terminate"}
  BY <1>1, AdvanceTypes
<1>3. TypeOK'
  <2>1. threadStatus' \in [Threads -> 0 .. 3]
    BY <1>1 DEF TypeOK
  <2> QED BY <1>1, <1>2, <2>1 DEF TypeOK, scanVars
<1>4. UnbornInv'
  BY <1>2 DEF UnbornInv
<1> QED BY <1>1, <1>3, <1>4, MainKeeps

LEMMA TerminateInv ==
  ASSUME ScanInv, Terminate
  PROVE  ScanInv'
<1>1. /\ TypeOK /\ mainDoes' = "join"
      /\ threadStatus' = [threadStatus EXCEPT ![mainIndex] = 3]
      /\ UNCHANGED <<registers, pc, result, scanVars, numExecutions, mainIndex,
                     numUpdates, log>>
  BY DEF ScanInv, Terminate
<1>2. TypeOK'
  <2>1. threadStatus' \in [Threads -> 0 .. 3]
    BY <1>1 DEF TypeOK
  <2> QED BY <1>1, <2>1 DEF TypeOK, scanVars
<1>3. UnbornInv'
  BY <1>1 DEF UnbornInv
<1> QED BY <1>1, <1>2, <1>3, MainKeeps

LEMMA JoinInv ==
  ASSUME ScanInv, Join
  PROVE  ScanInv'
<1>1. /\ TypeOK /\ mainDoes = "join" /\ Advance("terminate", "exit")
      /\ numUpdates' = numUpdates + numExecutions[mainIndex]
      /\ UNCHANGED <<registers, pc, result, scanVars, workerVars, log>>
  BY DEF ScanInv, Join
<1>2. mainIndex' \in Threads /\ mainDoes' \in {"terminate", "exit"}
  BY <1>1, AdvanceTypes
<1>3. TypeOK'
  <2>1. numUpdates' \in Nat
    BY <1>1 DEF TypeOK
  <2> QED BY <1>1, <1>2, <2>1 DEF TypeOK, scanVars, workerVars
<1>4. UnbornInv'
  BY <1>2 DEF UnbornInv
<1> QED BY <1>1, <1>3, <1>4, MainKeeps DEF workerVars

-----------------------------------------------------------------------------
(* Every step. *)

\* The invariant holds before main has created a thread.
LEMMA InitInv == Init => ScanInv
<1> SUFFICES ASSUME Init PROVE ScanInv
  OBVIOUS
<1>1. 0 \in Value /\ 0 \in Nat
  BY DEF Value
<1>2. [stamp |-> 0, value |-> 0, snap |-> NoSnap] \in StampedValue
  BY <1>1 DEF StampedValue
<1>3. registers \in [Threads -> StampedValue]
      /\ \A i \in Threads : registers[i] = [stamp |-> 0, value |-> 0, snap |-> NoSnap]
  BY <1>2 DEF Init
<1>4. Values(registers) \in Snap
  BY <1>1, <1>3 DEF Values, Snap
<1>5. log = <<Values(registers)>> /\ log \in Seq(Snap) \ {<<>>} /\ Len(log) = 1
      /\ log[1] = Values(registers)
  BY <1>4 DEF Init
<1>6. TypeOK
  <2>1. <<>> \in Seq(StampedValue) /\ Len(<<>>) = 0 /\ 1 \in Threads
    BY DEF Threads
  <2>2. old \in [Threads -> Seq(StampedValue)] /\ fresh \in [Threads -> Seq(StampedValue)]
        /\ \A t \in Threads : Len(old[t]) \in {0, N} /\ Len(fresh[t]) \in 0 .. N - 1
    BY <2>1 DEF Init
  <2>3. numExecutions \in [Threads -> 0 .. MaxUpdates]
    BY DEF Init
  <2> QED BY <1>3, <1>5, <2>1, <2>2, <2>3 DEF Init, TypeOK, NotMoved
<1>7. LogInv
  <2>1. UnderWay = {}
    BY DEF Init, UnderWay
  <2>2. Cardinality(UnderWay) = 0
    BY <2>1, FS_EmptySet
  <2>3. \A i \in Threads : log[1][i] \in Nat
    BY <1>5, <1>6, Types
  <2>4. \A m, n \in 1 .. Len(log) : m <= n => \A i \in Threads : log[m][i] <= log[n][i]
    BY <1>5, <2>3
  <2> QED BY <1>5, <2>2, <2>4 DEF LogInv
<1>8. UnbornInv
  BY DEF Init, UnbornInv, Threads
<1>9. ASSUME NEW t \in Threads PROVE RegisterOK(t)
  BY <1>1, <1>3, <1>5 DEF RegisterOK, StoredIn, Init
<1>10. ASSUME NEW t \in Threads PROVE ScanOK(t)
  <2>1. /\ old[t] = <<>> /\ fresh[t] = <<>> /\ moved[t] = {} /\ collects[t] = 0
        /\ pc[t] = "unborn" /\ result[t] = NoSnap
    BY DEF Init, NotMoved
  <2>2. CopiesOK(t)
    <3>1. 1 .. Len(old[t]) = {} /\ 1 .. Len(fresh[t]) = {}
      BY <2>1
    <3> QED BY <3>1 DEF CopiesOK
  <2>3. MovedOK(t)
    BY <2>1, FS_EmptySet DEF MovedOK
  <2> QED BY <2>1, <2>2, <2>3 DEF ScanOK
<1> QED BY <1>6, <1>7, <1>8, <1>9, <1>10 DEF ScanInv

\* Every step keeps it.
LEMMA NextInv ==
  ASSUME ScanInv, [Next]_vars
  PROVE  ScanInv'
<1>1. CASE UNCHANGED vars
  <2>1. /\ UNCHANGED <<registers, pc, result, scanVars, numExecutions, mainVars, log>>
        /\ TypeOK'
    BY <1>1 DEF vars, workerVars, scanVars, mainVars, ScanInv, TypeOK
  <2>2. UnbornInv'
    BY <2>1, UnbornStays DEF ScanInv
  <2> QED BY <2>1, <2>2, MainKeeps
<1>2. CASE MainStep
  BY <1>2, CreateInv, AwaitInv, WorkInv, TerminateInv, JoinInv DEF MainStep
<1>3. ASSUME NEW t \in Threads, ThreadStep(t) PROVE ScanInv'
  <2>1. CASE Entry(t) \/ StartWork(t) \/ EndWork(t)
    BY <2>1, EntryInv
  <2>2. CASE BeginUpdate(t)
    BY <2>2, BeginUpdateInv
  <2>3. CASE Collect(t) \/ FirstCollect(t) \/ ReturnValues(t)
    BY <2>3, CollectInv, FirstCollectInv, ReturnValuesInv
  <2>4. ASSUME NEW i \in Threads, Retry(t, i) \/ Borrow(t, i) PROVE ScanInv'
    BY <2>4, RetryInv, BorrowInv
  <2>5. CASE Store(t) \/ Count(t)
    BY <2>5, StoreInv, CountInv
  <2> QED BY <1>3, <2>1, <2>2, <2>3, <2>4, <2>5 DEF ThreadStep
<1> QED BY <1>1, <1>2, <1>3 DEF Next, Exited

-----------------------------------------------------------------------------
(* The count. *)

LEMMA UpdatesFinite ==
  ASSUME NEW S \in SUBSET Threads
  PROVE  IsFiniteSet(Updates(S)) /\ Cardinality(Updates(S)) \in Nat
<1>1. IsFiniteSet(S) /\ IsFiniteSet(1 .. MaxUpdates)
  BY FiniteThreads, FS_Interval
<1>2. IsFiniteSet(S \X (1 .. MaxUpdates))
  BY <1>1, FS_Product
<1>3. IsFiniteSet(Updates(S))
  BY <1>2, FS_Subset DEF Updates
<1> QED BY <1>3, FS_CardinalityType

\* The updates of one more thread.
LEMMA OneMore ==
  ASSUME NEW S \in SUBSET Threads, NEW t \in Threads, t \notin S,
         registers[t].value \in 0 .. MaxUpdates
  PROVE  Cardinality(Updates(S \union {t})) = Cardinality(Updates(S)) + registers[t].value
<1> DEFINE Own == {t} \X (1 .. registers[t].value)
<1>1. Updates(S \union {t}) = Updates(S) \union Own
  <2>1. \A u \in (S \union {t}) \X (1 .. MaxUpdates) :
          u \in Updates(S) \union Own <=> u[2] <= registers[u[1]].value
    BY DEF Updates
  <2>2. Own \subseteq (S \union {t}) \X (1 .. MaxUpdates)
    OBVIOUS
  <2> QED BY <2>1, <2>2 DEF Updates
<1>2. Updates(S) \cap Own = {}
  BY DEF Updates
<1>3. IsFiniteSet(Own) /\ Cardinality(Own) = registers[t].value
  <2>1. IsFiniteSet({t}) /\ Cardinality({t}) = 1
    BY FS_Singleton
  <2>2. PICK n \in 0 .. MaxUpdates : n = registers[t].value
    OBVIOUS
  <2>3. IsFiniteSet(1 .. n) /\ Cardinality(1 .. n) = n
    <3>1. 1 \in Int /\ n \in Int /\ (1 > n => n = 0) /\ n - 1 + 1 = n
      OBVIOUS
    <3> QED BY <3>1, FS_Interval
  <2>4. PICK numbers : numbers = 1 .. n
    OBVIOUS
  <2>5. /\ IsFiniteSet({t} \X numbers)
        /\ Cardinality({t} \X numbers) = Cardinality({t}) * Cardinality(numbers)
    BY <2>1, <2>3, <2>4, FS_Product, Zenon
  <2>6. Cardinality({t} \X numbers) = 1 * n
    BY <2>1, <2>3, <2>4, <2>5, Zenon
  <2> QED BY <2>2, <2>4, <2>5, <2>6
<1>4. Cardinality(Updates(S) \union Own) =
        Cardinality(Updates(S)) + Cardinality(Own) - Cardinality(Updates(S) \cap Own)
  BY <1>3, UpdatesFinite, FS_Union
<1>5. Cardinality(Updates(S) \cap Own) = 0
  BY <1>2, FS_EmptySet
<1>6. Cardinality(Updates(S)) \in Nat /\ registers[t].value \in Nat
  BY UpdatesFinite
<1>7. Cardinality(Updates(S \union {t})) =
        Cardinality(Updates(S)) + registers[t].value - 0
  BY <1>1, <1>3, <1>4, <1>5, Zenon
<1> QED BY <1>6, <1>7

\* Only Store adds an update, that of a thread that has not been joined.
LEMMA StoreSum ==
  ASSUME ScanInv, SumInv, NEW t \in Threads, Store(t)
  PROVE  SumInv'
<1>1. /\ TypeOK /\ pc[t] = "store" /\ pc' = [pc EXCEPT ![t] = "count"]
      /\ log' = Append(log, Values(registers'))
      /\ UNCHANGED <<mainDoes, mainIndex, numUpdates>>
  BY DEF ScanInv, Store, Goto, mainVars
<1>2. /\ registers' \in [Threads -> StampedValue]
      /\ registers'[t].value = registers[t].value + 1
      /\ \A u \in Threads \ {t} : registers'[u] = registers[u]
  BY StoreFacts
<1>3. registers[t].value \in Nat /\ registers'[t].value \in Value
  BY <1>1, <1>2, Types, StampedTypes
<1>4. registers[t].value + 1 \in 1 .. MaxUpdates
  BY <1>2, <1>3 DEF Value
<1>5. Joined' = Joined /\ t \notin Joined /\ Joined \in SUBSET Threads
  BY <1>1 DEF Joined, SumInv
<1>6. PICK new : new = <<t, registers[t].value + 1>>
  OBVIOUS
<1>7. new \in Threads \X (1 .. MaxUpdates) /\ new \notin Updates(Threads)
  BY <1>3, <1>4, <1>6 DEF Updates
<1>8. Updates(Threads)' = Updates(Threads) \union {new}
  <2>1. ASSUME NEW u \in Threads \X (1 .. MaxUpdates)
        PROVE  u \in Updates(Threads)' <=> u \in Updates(Threads) \/ u = new
    <3>1. CASE u[1] = t
      <4>1. u = <<t, u[2]>> /\ u[2] \in 1 .. MaxUpdates
        BY <3>1
      <4>2. u \in Updates(Threads) <=> u[2] <= registers[t].value
        BY <3>1 DEF Updates
      <4>3. u \in Updates(Threads)' <=> u[2] <= registers[t].value + 1
        BY <1>2, <3>1 DEF Updates
      <4>4. u = new <=> u[2] = registers[t].value + 1
        BY <1>6, <4>1
      <4> QED BY <1>3, <4>1, <4>2, <4>3, <4>4
    <3>2. CASE u[1] # t
      BY <1>2, <1>6, <3>2 DEF Updates
    <3> QED BY <3>1, <3>2
  <2> QED BY <1>7, <2>1 DEF Updates
<1>9. Cardinality(Updates(Threads)') = Cardinality(Updates(Threads)) + 1
  <2>1. Threads \in SUBSET Threads
    OBVIOUS
  <2>2. IsFiniteSet(Updates(Threads))
    BY <2>1, UpdatesFinite
  <2> QED BY <1>7, <1>8, <2>2, FS_AddElement
<1>10. Len(log') = Len(log) + 1
  BY <1>1, <1>2 DEF TypeOK
<1>11. Updates(Joined)' = Updates(Joined)
  BY <1>2, <1>5 DEF Updates
<1>12. \A u \in Joined : pc'[u] = pc[u]
  BY <1>1, <1>5 DEF TypeOK
<1>13. Len(log) = Cardinality(Updates(Threads)) + 1 /\ Cardinality(Updates(Threads)) \in Nat
  <2>1. Threads \in SUBSET Threads
    OBVIOUS
  <2> QED BY <2>1, UpdatesFinite DEF SumInv
<1>14. Len(log') = Cardinality(Updates(Threads)') + 1
  BY <1>9, <1>10, <1>13
<1> QED BY <1>1, <1>5, <1>11, <1>12, <1>14 DEF SumInv

\* A step that stores nothing and joins nobody changes no count.
LEMMA SumStays ==
  ASSUME SumInv, UNCHANGED <<registers, log, numUpdates>>, Joined' = Joined,
         \A t \in Joined : pc'[t] = pc[t]
  PROVE  SumInv'
<1>1. Updates(Threads)' = Updates(Threads) /\ Updates(Joined)' = Updates(Joined)
  BY DEF Updates
<1> QED BY <1>1 DEF SumInv

\* The counter of a thread that has ended is the number of its updates.
LEMMA JoinSum ==
  ASSUME ScanInv, SumInv, Join
  PROVE  SumInv'
<1>1. /\ TypeOK /\ mainDoes = "join" /\ Advance("terminate", "exit")
      /\ numUpdates' = numUpdates + numExecutions[mainIndex]
      /\ pc[mainIndex] = "ended" /\ mainIndex \in Threads
      /\ UNCHANGED <<registers, pc, log>>
  BY DEF ScanInv, Join, TypeOK
<1>2. Joined \in SUBSET Threads /\ mainIndex \notin Joined
  BY <1>1 DEF Joined, Threads
<1>3. Joined' = Joined \union {mainIndex}
  <2>1. CASE mainIndex < N
    <3>1. mainDoes' = "terminate" /\ mainIndex' = mainIndex + 1
      BY <1>1, <2>1 DEF Advance
    <3> QED BY <1>1, <3>1 DEF Joined, Threads
  <2>2. CASE ~(mainIndex < N)
    <3>1. mainDoes' = "exit" /\ mainIndex = N
      BY <1>1, <2>2 DEF Advance, Threads
    <3>2. Joined' = Threads
      BY <3>1 DEF Joined
    <3>3. Joined \union {mainIndex} = Threads
      BY <1>1, <3>1 DEF Joined, Threads
    <3> QED BY <3>2, <3>3
  <2> QED BY <2>1, <2>2
<1>4. registers[mainIndex].value \in 0 .. MaxUpdates
      /\ registers[mainIndex].value = numExecutions[mainIndex]
  <2>1. RegisterOK(mainIndex) /\ registers[mainIndex] \in StampedValue
        /\ numExecutions[mainIndex] \in 0 .. MaxUpdates
    BY <1>1 DEF ScanInv, TypeOK
  <2> QED BY <1>1, <2>1 DEF RegisterOK
<1>5. Cardinality(Updates(Joined \union {mainIndex})) =
        Cardinality(Updates(Joined)) + registers[mainIndex].value
  BY <1>1, <1>2, <1>4, OneMore
<1>6. /\ Updates(Threads)' = Updates(Threads)
      /\ Updates(Joined)' = Updates(Joined \union {mainIndex})
  BY <1>1, <1>3 DEF Updates
<1>7. numUpdates' = Cardinality(Updates(Joined)')
  BY <1>1, <1>4, <1>5, <1>6 DEF SumInv
<1>8. \A u \in Joined' : pc'[u] = "ended"
  BY <1>1, <1>3 DEF SumInv
<1> QED BY <1>1, <1>6, <1>7, <1>8 DEF SumInv

LEMMA NextSum ==
  ASSUME ScanInv, SumInv, [Next]_vars
  PROVE  SumInv'
<1>1. CASE UNCHANGED vars
  <2>1. UNCHANGED <<registers, log, numUpdates, mainDoes, mainIndex, pc>>
    BY <1>1 DEF vars, mainVars
  <2>2. Joined' = Joined
    BY <2>1 DEF Joined
  <2> QED BY <2>1, <2>2, SumStays
<1>2. CASE Create
  <2>1. /\ mainDoes = "create" /\ mainDoes' = "await"
        /\ UNCHANGED <<registers, log, numUpdates>>
    BY <1>2 DEF Create
  <2>2. Joined = {} /\ Joined' = {}
    BY <2>1 DEF Joined
  <2> QED BY <2>1, <2>2, SumStays
<1>3. CASE Await \/ Work
  <2>1. /\ UNCHANGED <<registers, log, numUpdates, pc>> /\ mainDoes \in {"await", "work"}
        /\ \/ mainDoes' \in {"create", "work"}
           \/ mainDoes' = "terminate" /\ mainIndex' = 1
    BY <1>3 DEF Await, Work, Advance
  <2>2. Joined = {} /\ Joined' = {}
    BY <2>1 DEF Joined, Threads
  <2> QED BY <2>1, <2>2, SumStays
<1>4. CASE Terminate
  <2>1. /\ UNCHANGED <<registers, log, numUpdates, pc, mainIndex>>
        /\ mainDoes = "terminate" /\ mainDoes' = "join"
    BY <1>4 DEF Terminate
  <2>2. Joined' = Joined
    BY <2>1 DEF Joined
  <2> QED BY <2>1, <2>2, SumStays
<1>5. CASE Join
  BY <1>5, JoinSum
<1>6. ASSUME NEW t \in Threads, ThreadStep(t) PROVE SumInv'
  <2>1. CASE Store(t)
    BY <2>1, StoreSum
  <2>2. CASE ~Store(t)
    <3>1. UNCHANGED <<registers, log, mainVars>> /\ pc[t] # "ended"
      BY <1>6, <2>2 DEF ThreadStep, Entry, StartWork, BeginUpdate, EndWork, Collect,
         FirstCollect, ReturnValues, Retry, Borrow, Count, LastRead, Recollect,
         DiffersFirstAt, Agrees, ReturnFromScan
    <3>2. \A u \in Threads \ {t} : pc'[u] = pc[u]
      BY <1>6, <2>2 DEF ThreadStep, Entry, StartWork, BeginUpdate, EndWork, Collect,
         FirstCollect, ReturnValues, Retry, Borrow, Count, Recollect, ReturnFromScan,
         Goto, ScanInv, TypeOK
    <3>3. Joined' = Joined /\ t \notin Joined /\ Joined \in SUBSET Threads
      BY <3>1 DEF Joined, SumInv, mainVars
    <3> QED BY <3>1, <3>2, <3>3, SumStays DEF mainVars
  <2> QED BY <2>1, <2>2
<1> QED BY <1>1, <1>2, <1>3, <1>4, <1>5, <1>6 DEF Next, MainStep, Exited

LEMMA InitSum == Init => SumInv
<1> SUFFICES ASSUME Init PROVE SumInv
  OBVIOUS
<1>1. Joined = {} /\ Len(log) = 1 /\ numUpdates = 0
  BY DEF Init, Joined
<1>2. Updates(Threads) = {} /\ Updates({}) = {}
  BY DEF Init, Updates
<1> QED BY <1>1, <1>2, FS_EmptySet DEF SumInv

LEMMA AllSummed == SumInv => UpdatesCounted
<1> SUFFICES ASSUME SumInv, mainDoes = "exit" PROVE numUpdates = Len(log) - 1
  BY DEF UpdatesCounted
<1>1. Joined = Threads
  BY DEF Joined
<1>2. Cardinality(Updates(Threads)) \in Nat
  BY UpdatesFinite
<1> QED BY <1>1, <1>2 DEF SumInv

-----------------------------------------------------------------------------
(* The theorems. *)

\* The inductive invariant of project3: of every scan there is an instant
\* between its two collects that its copies enclose, whatever is stored in the
\* meantime (update() and scan()).
THEOREM SnapshotInvariant == Spec => []SnapshotInv
<1>1. Init => SnapshotInv
  BY InitInv, InitSum DEF SnapshotInv
<1>2. SnapshotInv /\ [Next]_vars => SnapshotInv'
  BY NextInv, NextSum DEF SnapshotInv
<1> QED BY <1>1, <1>2, PTL DEF Spec

\* What scan() returns, read register by register or borrowed, is a state that
\* the whole array had at one instant, and so is every snapshot embedded in a
\* register.
THEOREM SnapshotsAreReal == Spec => []SnapshotsReal
<1>1. SnapshotInv => SnapshotsReal
  BY DEF SnapshotInv, ScanInv, ScanOK, RegisterOK, StoredIn, SnapshotsReal
<1> QED BY <1>1, SnapshotInvariant, PTL

\* When the two collects of a scan agree in their stamps, its values are a
\* state that the array had since this scan began: the clean double collect of
\* scan() linearises.
THEOREM CleanCollectsAreCurrent == Spec => []CleanCollectIsCurrent
<1>1. SnapshotInv => CleanCollectIsCurrent
  BY CleanSound DEF SnapshotInv, CleanCollectIsCurrent
<1> QED BY <1>1, SnapshotInvariant, PTL

\* A snapshot that scan() borrows exists, and its owner stored it after this
\* scan began: moved is never a false alarm.
THEOREM BorrowsAreFresh == Spec => []BorrowsOverlap
<1>1. SnapshotInv => BorrowsOverlap
  BY BorrowSound DEF SnapshotInv, BorrowsOverlap, DiffersFirstAt
<1> QED BY <1>1, SnapshotInvariant, PTL

\* scan() is wait-free: for N threads it ends with its (N + 1)st collect at the
\* latest, whatever the others store, for the register of the thread itself
\* never gets into moved.
THEOREM ScansAreWaitFree == Spec => []WaitFree
<1>1. ASSUME ScanInv, NEW t \in Threads PROVE collects[t] <= N
  <2>1. TypeOK /\ MovedOK(t)
    BY <1>1 DEF ScanInv, ScanOK
  <2>2. moved[t] \subseteq Threads \ {t}
    BY <2>1 DEF TypeOK, MovedOK
  <2>3. IsFiniteSet(Threads) /\ Cardinality(Threads) = N
    BY FS_Interval DEF Threads
  <2>4. IsFiniteSet(Threads \ {t}) /\ Cardinality(Threads \ {t}) = N - 1
    BY <2>3, FS_RemoveElement
  <2>5. Cardinality(moved[t]) <= N - 1
    BY <2>2, <2>4, FS_Subset
  <2>6. Cardinality(moved[t]) \in Nat
    BY <2>2, FiniteThreads
  <2> QED BY <2>1, <2>5, <2>6 DEF MovedOK
<1>2. SnapshotInv => WaitFree
  BY <1>1 DEF SnapshotInv, WaitFree
<1> QED BY <1>2, SnapshotInvariant, PTL

\* What main prints is the number of all updates, for main reads the counter of
\* a thread only when the thread has ended (main() and doWork()).
THEOREM AllUpdatesCounted == Spec => []UpdatesCounted
<1>1. SnapshotInv => UpdatesCounted
  BY AllSummed DEF SnapshotInv
<1> QED BY <1>1, SnapshotInvariant, PTL
=============================================================================
