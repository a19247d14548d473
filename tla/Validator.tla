------------------------------- MODULE Validator -------------------------------
(****************************************************************************)
(* project2's validator program: it collects the entries of all log files,  *)
(* sorts them by commit id and replays them on a fresh database.            *)
(****************************************************************************)
EXTENDS Database, Sequences, FiniteSets

\* The files are a function from workers to sequences of log entries; line n of
\* the file of t is <<t, n>>.
Lines(files) == UNION {{t} \X DOMAIN files[t] : t \in DOMAIN files}

LogCount(files) == Cardinality(Lines(files))

LogsOf(files) ==
    UNION {{files[t][n] : n \in DOMAIN files[t]} : t \in DOMAIN files}

\* The entry that sorting puts at place n when the ids are 1, 2, ...
LogAt(files, n) == CHOOSE log \in LogsOf(files) : log.commitId = n

\* The validator's own records after it has replayed the first n entries.
Replay(files, indices, count) ==
    LET after[n \in 0 .. count] ==
          IF n = 0 THEN NewDatabase(indices)
          ELSE LET log == LogAt(files, n)
                   old == after[n - 1]
                   vi == old[log.i]
               IN  [old EXCEPT ![log.j] = NewJ(vi, @), ![log.k] = NewK(vi, @)]
    IN  after

ValidationSucceeds(files, indices, lastOrder) ==
    /\ LogCount(files) = lastOrder
    /\ \A n \in 1 .. lastOrder : \E log \in LogsOf(files) : log.commitId = n
    /\ LET after == Replay(files, indices, lastOrder)
       IN  \A n \in 1 .. lastOrder :
             LET log == LogAt(files, n)
             IN  log.vj = after[n][log.j] /\ log.vk = after[n][log.k]
=============================================================================
