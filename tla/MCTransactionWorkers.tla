------------------------ MODULE MCTransactionWorkers ------------------------
(* Instances of project2's transaction engine for TLC. *)
EXTENDS TransactionRefinement

\* Workers and records are interchangeable: no definition tells two apart.
Symmetry == Permutations(Workers) \union Permutations(Records)
=============================================================================
