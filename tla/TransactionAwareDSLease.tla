----------------------- MODULE TransactionAwareDSLease -----------------------
(***************************************************************************)
(* TransactionAwareDS implements ConnectionLease, as long as a transaction *)
(* stays with one thread and is resolved by it.                             *)
(***************************************************************************)
EXTENDS TransactionAwareDS

\* The connections that the open wrappers of t delegate to, until commit or
\* rollback begins.
InUse == [t \in Txs |-> IF IsActive(t) THEN {handle[h].conn : h \in {x \in Handles : OpenIn(x, t)}}
                                       ELSE {}]

Lease == INSTANCE ConnectionLease
  WITH phase <- status, out <- lent, bound <- asked, leased <- enlisted, inUse <- InUse

\* Every step of the data source, of its pool and of the transaction manager is
\* a step of the lease or changes nothing of it: a transaction is asked once, for
\* one connection, every getConnection of the transaction answers it, also when
\* the enlistment failed, and nobody returns it to the pool before the outcome.
LeaseSpec == Lease!Spec

=============================================================================
