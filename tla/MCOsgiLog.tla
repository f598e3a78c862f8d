----------------------------- MODULE MCOsgiLog -----------------------------
(***************************************************************************)
(* Small instances of OsgiLog for TLC.                                     *)
(***************************************************************************)
EXTENDS OsgiLogOrder

\* A bound: either clients and events send two entries over all starts, or they
\* send any three messages to the first Log while no service comes or goes.
EntriesOrRequests ==
  \/ sends <= 2 /\ \A g \in Logs : \A n \in DOMAIN mailbox[g] :
       mailbox[g][n].kind \in {"LogEntryImpl", "RemoveAllListeners"}
  \/ current <= 1 /\ \A s \in Services : service[s] = "none"

=============================================================================
