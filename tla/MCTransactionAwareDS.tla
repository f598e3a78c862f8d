------------------------ MODULE MCTransactionAwareDS ------------------------
(***************************************************************************)
(* Small instances of TransactionAwareDS for TLC.  Threads and transactions *)
(* are interchangeable.  Handles are not, since the model picks one among  *)
(* the unused, and so it does with connections unless the pool recycles.    *)
(***************************************************************************)
EXTENDS TransactionAwareDSLease, TLC

\* A bound: no transaction is marked for rollback.
Unmarked == \A t \in Txs : status[t] # "marked"

\* A bound: a transaction is suspended only before another one has begun.
Attended ==
  \A t, u \in Txs :
    IsActive(t) /\ status[u] # "none" /\ t # u => \E th \in Threads : assoc[th] = t

Symmetry == Permutations(Threads) \cup Permutations(Txs)

\* Where the pool recycles it may lend any connection that it has.
SymmetryRecycled == Symmetry \cup Permutations(Conns)

=============================================================================
