---------------------------- MODULE SerialDatabase ----------------------------
(****************************************************************************)
(* What project2 promises: the committed transactions are executed one      *)
(* after the other, in the order of their commit ids, and no other          *)
(* transaction has an effect.  history is the merged log, in commit order;  *)
(* its entries hold the values a serial execution reads and writes.         *)
(****************************************************************************)
EXTENDS Database, Sequences

CONSTANTS Records, LastOrder

VARIABLES committed, history

serialVars == <<committed, history>>

SerialInit ==
    /\ committed = NewDatabase(Records)
    /\ history = <<>>

\* One whole transaction on three distinct records.
Transaction(i, j, k) ==
    LET vi == committed[i]
        vj == NewJ(vi, committed[j])
        vk == NewK(vi, committed[k])
    IN  /\ Len(history) < LastOrder
        /\ committed' = [committed EXCEPT ![j] = vj, ![k] = vk]
        /\ history' = Append(history, [commitId |-> Len(history) + 1,
                                       i |-> i, j |-> j, k |-> k,
                                       vi |-> vi, vj |-> vj, vk |-> vk])

SerialNext ==
    \E i, j, k \in Records :
        i # j /\ j # k /\ k # i /\ Transaction(i, j, k)

SerialSpec == SerialInit /\ [][SerialNext]_serialVars
=============================================================================
