------------------------ MODULE TransactionRefinement ------------------------
(****************************************************************************)
(* TransactionWorkers against the serial database and the validator.        *)
(****************************************************************************)
EXTENDS TransactionWorkers, Validator

\* The N of the command line is 1 at least.  main does not test it: with no
\* worker nothing is logged, and the validator refuses the missing entries.
ASSUME WorkersAssumption == Workers # {}

\* Before-images of what active transactions have overwritten.
DirtyImages ==
    UNION {{records[t][n] : n \in {m \in DOMAIN records[t] :
                                     records[t][m].isUpdated}} :
             t \in {u \in Workers : Active(u)}}

\* The database without the updates that are not committed.
Committed ==
    [r \in Records |->
        IF \E image \in DirtyImages : image.index = r
        THEN (CHOOSE image \in DirtyImages : image.index = r).value
        ELSE db[r]]

\* The transactions that have committed: as many as ids were given out, up to E.
CommitCount == IF currentOrder < LastOrder THEN currentOrder ELSE LastOrder

\* The merged log.
History == [n \in 1 .. CommitCount |-> LogAt(clog, n)]

Serial == INSTANCE SerialDatabase WITH committed <- Committed, history <- History

\* The concurrent transactions implement the serial database: a commit is one
\* serial transaction, every other step (updates, rollbacks) is invisible.
RefinesSerialDatabase == Serial!SerialSpec

\* Once all workers have ended, the validator accepts their log files.
LogsValidate == AllDone => ValidationSucceeds(clog, Records, LastOrder)

-----------------------------------------------------------------------------
(* The inductive invariant behind them. *)

\* The log files hold the ids from 1 on, each of them once.
LogsInv ==
    /\ {log.commitId : log \in LogsOf(clog)} = 1 .. CommitCount
    /\ \A l, m \in Lines(clog) :
         clog[l[1]][l[2]].commitId = clog[m[1]][m[2]].commitId => l = m

\* The records that a transaction has updated and not yet restored hold what it
\* will log, those it has restored their old values.
UpdatesOK(t) ==
    /\ pc[t] # "rollback" => undo[t] = 1
    /\ Active(t) => \A n \in DOMAIN records[t] :
         /\ pc[t] # "rollback" =>
              (records[t][n].isUpdated <=>
                 n # 1 /\ (n < stage[t] \/ pc[t] \in {"finish", "commit"}))
         /\ records[t][n].isUpdated =>
              db[records[t][n].index] = IF n < undo[t] THEN records[t][n].value
                                        ELSE IF n = 2 THEN rj(t) ELSE rk(t)

\* A worker ends when more ids have been given out than transactions were to
\* commit.
IdsOK(t) ==
    /\ commitId[t] <= currentOrder
    /\ pc[t] = "done" => currentOrder > LastOrder

\* The validator's replay of the log comes to the database without the updates
\* that are not committed, over the values that are logged.
ReplayInv ==
    LET after == Replay(clog, Records, LastOrder)
    IN  /\ after[CommitCount] = Committed
        /\ \A n \in 1 .. CommitCount :
             /\ History[n].vj = after[n][History[n].j]
             /\ History[n].vk = after[n][History[n].k]

SerialInv ==
    /\ LockInv /\ LogsInv /\ ReplayInv
    /\ \A t \in Workers : UpdatesOK(t) /\ IdsOK(t)
=============================================================================
