-------------------------- MODULE SecurityAccess --------------------------
(***************************************************************************)
(* The security bundle: every start installs a new security manager with   *)
(* one OsgiJdbcSecurityAccess, which builds its connection pool when it is  *)
(* first asked and puts it into a map shared by all of them, under one key; *)
(* stop closes what the map holds.  The manager stays installed after the   *)
(* stop.  The SSH servers' threads log users in: each makes several queries *)
(* on the access of the manager it found.                                   *)
(*                                                                         *)
(* The pool is BoneCP: it connects at the first getConnection, close does   *)
(* nothing before that and is final after it.                               *)
(***************************************************************************)
EXTENDS Naturals, FiniteSets

CONSTANTS
  Threads,    \* threads that authenticate users
  Size,       \* connections of a pool
  MaxStarts,  \* bound: starts of the bundle
  MaxQueries  \* bound: queries of all threads

Starts == 1 .. MaxStarts

\* Assumed by the module that takes this one as an instance.
ConstantsOK ==
  IsFiniteSet(Threads) /\ Size \in Nat \ {0} /\ MaxStarts \in Nat /\ MaxQueries \in Nat

VARIABLES
  started,   \* starts of the bundle; its last manager is the installed one
  bundle,    \* what the last start has come to
  toClose,   \* the pool that stop has read from the map
  dataSources, \* the start whose pool is in the map, 0 if none
  pool,      \* start -> state of the pool of its access
  free,      \* start -> connections in its pool that nobody has
  lost,      \* start -> connections that a failing close has cost it
  pc,        \* thread -> where it is in executeQuery
  access,    \* thread -> the start whose access it asks
  late,      \* history: starts whose pool was put or opened after their stop had read the map
  queries

bundleVars == <<started, bundle, toClose>>
poolVars   == <<dataSources, pool, free, lost, late>>
threadVars == <<pc, access, queries>>
vars == <<bundleVars, poolVars, threadVars>>

Init ==
  /\ started = 0 /\ bundle = "stopped" /\ toClose = 0
  /\ dataSources = 0
  /\ pool = [g \in Starts |-> "none"]
  /\ free = [g \in Starts |-> Size]
  /\ lost = [g \in Starts |-> 0]
  /\ pc = [t \in Threads |-> "idle"]
  /\ access = [t \in Threads |-> 0]
  /\ late = {}
  /\ queries = 0

Goto(t, l) == pc' = [pc EXCEPT ![t] = l]

\* stop of this start has read the map.
Passed(g) == g < started \/ bundle \in {"closing", "stopped"}

Holders(g) == {t \in Threads : access[t] = g /\ pc[t] \in {"query", "finally"}}

-----------------------------------------------------------------------------
(* The activator.                                                          *)

\* A new manager is made from shiro.ini and installed; a file that is wrong
\* raises, and the manager installed before stays.
Start ==
  /\ bundle = "stopped" /\ started < MaxStarts
  /\ started' = started + 1
  /\ bundle' = "active"
  /\ UNCHANGED <<toClose, poolVars, threadVars>>

\* stop reads the one value of the map ...
Stop ==
  /\ bundle = "active"
  /\ toClose' = dataSources
  /\ bundle' = "closing"
  /\ UNCHANGED <<started, poolVars, threadVars>>

\* Waiting for the connections that are out.
CloseWhenIdle ==
  /\ bundle = "closing"
  /\ toClose # 0 /\ pool[toClose] = "open" => free[toClose] = Size
  /\ pool' = [g \in Starts |-> IF g = toClose /\ pool[g] = "open" THEN "closed" ELSE pool[g]]
  /\ bundle' = "stopped"
  /\ toClose' = 0
  /\ UNCHANGED <<started, dataSources, free, lost, late, threadVars>>

\* ... and closes it, without taking it out.
Close ==
  /\ bundle = "closing"
  /\ pool' = [g \in Starts |-> IF g = toClose /\ pool[g] = "open" THEN "closed" ELSE pool[g]]
  /\ bundle' = "stopped"
  /\ toClose' = 0
  /\ UNCHANGED <<started, dataSources, free, lost, late, threadVars>>

-----------------------------------------------------------------------------
(* Logins.                                                                 *)

\* A user comes: the subject is that of the installed manager.
Login(t) ==
  /\ pc[t] = "idle" /\ started > 0 /\ queries < MaxQueries
  /\ access' = [access EXCEPT ![t] = started]
  /\ Goto(t, "dataSource")
  /\ queries' = queries + 1
  /\ UNCHANGED <<bundleVars, poolVars>>

DataSourceIfAbsent(t) ==
  /\ pc[t] = "dataSource"
  /\ LET g == access[t] IN
     IF pool[g] = "none"
     THEN /\ pool' = [pool EXCEPT ![g] = "built"]
          /\ dataSources' = IF dataSources = 0 THEN g ELSE dataSources
          /\ late' = IF Passed(g) THEN late \cup {g} ELSE late
     ELSE UNCHANGED <<pool, dataSources, late>>
  /\ Goto(t, "getConnection")
  /\ UNCHANGED <<bundleVars, free, lost, access, queries>>

\* The lazy dataSource, built by the first that asks while the others wait.
DataSource(t) ==
  /\ pc[t] = "dataSource"
  /\ LET g == access[t] IN
     IF pool[g] = "none"
     THEN /\ pool' = [pool EXCEPT ![g] = "built"]
          /\ dataSources' = g
          /\ late' = IF Passed(g) THEN late \cup {g} ELSE late
     ELSE UNCHANGED <<pool, dataSources, late>>
  /\ Goto(t, "getConnection")
  /\ UNCHANGED <<bundleVars, free, lost, access, queries>>

\* getConnection connects the pool and waits for a connection.
GetConnection(t) ==
  /\ pc[t] = "getConnection"
  /\ LET g == access[t] IN
     /\ pool[g] \in {"built", "open"} /\ free[g] > 0
     /\ pool' = [pool EXCEPT ![g] = "open"]
     /\ late' = IF pool[g] = "built" /\ Passed(g) THEN late \cup {g} ELSE late
     /\ free' = [free EXCEPT ![g] = @ - 1]
  /\ Goto(t, "query")
  /\ UNCHANGED <<bundleVars, dataSources, lost, access, queries>>

\* It raises when the pool is closed or the database cannot be reached.
GetConnectionRaises(t) ==
  /\ pc[t] = "getConnection"
  /\ pool[access[t]] # "open"
  /\ Goto(t, "idle")
  /\ UNCHANGED <<bundleVars, poolVars, access, queries>>

\* The query runs, and may raise anywhere.
Query(t) ==
  /\ pc[t] = "query"
  /\ Goto(t, "finally")
  /\ UNCHANGED <<bundleVars, poolVars, access, queries>>

\* The finally block closes the statement, if there is one, and the connection.
\* The thread goes on to the next query of the login, or is done with it.
Finally(t) ==
  /\ pc[t] = "finally"
  /\ free' = [free EXCEPT ![access[t]] = @ + 1]
  /\ \/ Goto(t, "idle") /\ UNCHANGED queries
     \/ queries < MaxQueries /\ Goto(t, "dataSource") /\ queries' = queries + 1
  /\ UNCHANGED <<bundleVars, dataSources, pool, lost, late, access>>

\* An exception of the statement's close leaves the block before conn.close.
FinallyRaises(t) ==
  /\ pc[t] = "finally"
  /\ lost' = [lost EXCEPT ![access[t]] = @ + 1]
  /\ Goto(t, "idle")
  /\ UNCHANGED <<bundleVars, dataSources, pool, free, late, access, queries>>

Asks(t) ==
  \/ DataSource(t) \/ GetConnection(t) \/ GetConnectionRaises(t)
  \/ Query(t) \/ Finally(t) \/ FinallyRaises(t)

Next ==
  \/ Start \/ Stop \/ Close
  \/ \E t \in Threads : Login(t) \/ Asks(t)

Spec == Init /\ [][Next]_vars

-----------------------------------------------------------------------------
(* Properties.                                                             *)

TypeOK ==
  /\ started \in 0 .. MaxStarts
  /\ bundle \in {"active", "closing", "stopped"}
  /\ toClose \in 0 .. MaxStarts /\ dataSources \in 0 .. MaxStarts
  /\ pool \in [Starts -> {"none", "built", "open", "closed"}]
  /\ free \in [Starts -> 0 .. Size] /\ lost \in [Starts -> 0 .. Size]
  /\ pc \in [Threads -> {"idle", "dataSource", "getConnection", "query", "finally"}]
  /\ access \in [Threads -> 0 .. MaxStarts]
  /\ late \subseteq Starts
  /\ queries \in 0 .. MaxQueries

\* Every connection is in the pool, with a query under way, or was lost to a
\* statement that could not be closed; an exception anywhere else costs none.
Conserved == \A g \in Starts : free[g] + Cardinality(Holders(g)) + lost[g] = Size

\* A pool outlives the stop of its bundle only when a login built it after the stop of
\* its own start had looked at the map, or had built it before and took the first
\* connection, which is what opens it, after.
LeaksOnlyLate ==
  (\E g \in Starts : pool[g] = "open" /\ (g < started \/ bundle = "stopped")) => late # {}

=============================================================================
