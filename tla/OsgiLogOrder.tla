---------------------------- MODULE OsgiLogOrder ----------------------------
(***************************************************************************)
(* OsgiLog implements OrderedLog: through the actor's mailbox, a selective  *)
(* receive and restarts of the bundle, each Log stays an ordered log.       *)
(***************************************************************************)
EXTENDS OsgiLog

Requests(g) == {n \in DOMAIN mailbox[g] : mailbox[g][n].kind = "RemoveAllListeners"}

Order == INSTANCE OrderedLog
  WITH sent <- [g \in Logs |-> Len(mailbox[g])],
       closed <- [g \in Logs |-> Requests(g)],
       file <- written

\* Every step of the bundle, its clients, the framework and the actors appends at
\* most one entry to one Log, sent after all that Log has appended and before any
\* close; nothing takes an entry out of the file or a message out of the count.
OrderSpec == Order!Spec

=============================================================================
