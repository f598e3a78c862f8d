--------------------------- MODULE ConnectionLease ---------------------------
(***************************************************************************)
(* What the transaction-aware data source promises its clients, with       *)
(* nothing of how it keeps the promise: no maps, no monitor, no wrapper.    *)
(*                                                                         *)
(* A connection is in the pool or out of it.  A transaction is bound to at  *)
(* most one connection.  The connection takes part in the transaction, and *)
(* is leased to it, unless the transaction refused it.  While the          *)
(* transaction is active it works on that connection and on no other; until *)
(* its outcome is known nobody gives the connection back.  A transaction   *)
(* marked for rollback may be given a connection it is not bound to: all it *)
(* can still do is roll back.                                               *)
(***************************************************************************)
CONSTANTS
  Txs,     \* transactions
  Conns    \* connections of the pool

VARIABLES
  phase,   \* transaction -> how far it is
  out,     \* connections that are not in the pool
  bound,   \* transaction -> connections it was to work with
  leased,  \* transaction -> those of them that take part in it
  inUse    \* transaction -> connections its client holds open in it

vars == <<phase, out, bound, leased, inUse>>

Phases == {"none", "active", "marked", "completing", "done"}

\* The outcome of t is still open, so what it is bound to must stay with it.
Unresolved(t) == phase[t] \in {"active", "marked", "completing"}

Init ==
  /\ phase = [t \in Txs |-> "none"]
  /\ out = {}
  /\ bound = [t \in Txs |-> {}]
  /\ leased = [t \in Txs |-> {}]
  /\ inUse = [t \in Txs |-> {}]

-----------------------------------------------------------------------------
(* Transactions *)

Begin(t) ==
  /\ phase[t] = "none"
  /\ phase' = [phase EXCEPT ![t] = "active"]
  /\ UNCHANGED <<out, bound, leased, inUse>>

\* setRollbackOnly
Mark(t) ==
  /\ phase[t] = "active"
  /\ phase' = [phase EXCEPT ![t] = "marked"]
  /\ UNCHANGED <<out, bound, leased, inUse>>

\* commit or rollback: the client is done with the transaction.
End(t) ==
  /\ phase[t] \in {"active", "marked"}
  /\ phase' = [phase EXCEPT ![t] = "completing"]
  /\ inUse' = [inUse EXCEPT ![t] = {}]
  /\ UNCHANGED <<out, bound, leased>>

\* The outcome is known.
Settle(t) ==
  /\ phase[t] = "completing"
  /\ phase' = [phase EXCEPT ![t] = "done"]
  /\ UNCHANGED <<out, bound, leased, inUse>>

-----------------------------------------------------------------------------
(* Connections *)

Lend(c) ==
  /\ c \notin out
  /\ out' = out \cup {c}
  /\ UNCHANGED <<phase, bound, leased, inUse>>

\* Never while a transaction bound to the connection is unresolved.
Return(c) ==
  /\ \A t \in Txs : Unresolved(t) => c \notin bound[t]
  /\ out' = out \ {c}
  /\ UNCHANGED <<phase, bound, leased, inUse>>

\* One connection for a transaction, one unresolved transaction for a connection.
Bind(t, c) ==
  /\ phase[t] = "active" /\ bound[t] = {} /\ c \in out
  /\ \A u \in Txs : Unresolved(u) => c \notin bound[u]
  /\ bound' = [bound EXCEPT ![t] = {c}]
  /\ UNCHANGED <<phase, out, inUse>>

\* The connection joins the transaction, ...
Enlist(t, c) == Bind(t, c) /\ leased' = [leased EXCEPT ![t] = {c}]

\* ... or the transaction refuses it, and is given no other.
Refuse(t, c) == Bind(t, c) /\ UNCHANGED leased

\* getConnection answers: the same connection every time.
HandOut(t, c) ==
  /\ phase[t] \in {"active", "marked"} /\ c \in out
  /\ phase[t] = "active" => c \in bound[t]
  /\ inUse[t] \subseteq {c}
  /\ inUse' = [inUse EXCEPT ![t] = {c}]
  /\ UNCHANGED <<phase, out, bound, leased>>

\* The client closes what it held open.
Drop(t) ==
  /\ inUse' = [inUse EXCEPT ![t] = {}]
  /\ UNCHANGED <<phase, out, bound, leased>>

Next ==
  \/ \E t \in Txs : Begin(t) \/ Mark(t) \/ End(t) \/ Settle(t) \/ Drop(t)
  \/ \E c \in Conns : Lend(c) \/ Return(c)
  \/ \E t \in Txs, c \in Conns : Enlist(t, c) \/ Refuse(t, c) \/ HandOut(t, c)

Spec == Init /\ [][Next]_vars

-----------------------------------------------------------------------------
(* What the promise amounts to *)

TypeOK ==
  /\ phase \in [Txs -> Phases]
  /\ out \subseteq Conns
  /\ bound \in [Txs -> SUBSET Conns]
  /\ leased \in [Txs -> SUBSET Conns]
  /\ inUse \in [Txs -> SUBSET Conns]

\* A transaction never takes part through two connections.
OneLease == \A t \in Txs : leased[t] \subseteq bound[t] /\ \A c, d \in bound[t] : c = d

\* What an unresolved transaction is bound to is not in the pool, and no other such
\* transaction is bound to it: no second client can commit its work.
Exclusive ==
  \A t \in Txs : Unresolved(t) =>
    /\ bound[t] \subseteq out
    /\ \A u \in Txs : u # t /\ Unresolved(u) => bound[t] \cap bound[u] = {}

\* The client of an active transaction works inside the transaction, unless the
\* transaction refused the connection it is bound to.
WorksInside ==
  \A t \in Txs : phase[t] = "active" =>
    /\ inUse[t] \subseteq bound[t]
    /\ leased[t] # {} => inUse[t] \subseteq leased[t]

=============================================================================
