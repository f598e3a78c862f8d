------------------------ MODULE ServerBundlesProofs ------------------------
(***************************************************************************)
(* Theorems about ServerBundles, for any administrators, commands, shells,  *)
(* logins and restarts: what a stop leaves behind, and that what is         *)
(* restarted comes back.                                                   *)
(***************************************************************************)
EXTENDS ServerBundles, FiniteSetTheorems, SequenceTheorems, TLAPS

-----------------------------------------------------------------------------
(* The shells.  The thread of a start and its stop go through the shells in *)
(* one order, so each state of a start is a prefix that has been started    *)
(* and a prefix of that which has been shut down.                           *)

Fresh(g) ==
  /\ job[g] = Shells!Over /\ stopper[g] = Shells!Over
  /\ \A k \in Shells!Shells : shell[g][k] = "new"

\* A shell was started only after all before it had come up.
InOrder(g) == \A j, k \in Shells!Shells :
  j < k /\ shell[g][k] # "new" => shell[g][j] \in {"listening", "shut"}

\* A thread has brought up the shells before its place and touched no other.
UpTo(g) == Shells!Starting(g) => \A k \in Shells!Shells :
  IF k < job[g] THEN shell[g][k] \in {"listening", "shut"} ELSE shell[g][k] = "new"

\* stop has been at the shells before its place and at no other.
ShutUpTo(g) == \A k \in Shells!Shells :
  /\ stopper[g] <= k => shell[g][k] # "shut"
  /\ k < stopper[g] /\ g \notin overlaps => shell[g][k] # "listening"

StartInv(g) ==
  /\ g > shellStarts => Fresh(g)
  /\ InOrder(g) /\ UpTo(g) /\ ShutUpTo(g)
  /\ stopper[g] > 0 /\ g \notin overlaps => ~Shells!Starting(g)

ShellInv == Shells!TypeOK /\ \A g \in Shells!Starts : StartInv(g)

-----------------------------------------------------------------------------
(* The pools.                                                              *)

\* A thread inside a query asks an access that was made, and holds a connection.
AccessInv == \A t \in Threads : pc[t] # "idle" => access[t] \in 1 .. securityStarts

\* Without a late login, the pool of the last start is the one in the map, and a
\* pool that is open after its stop has begun is the one stop will close.
PoolInv ==
  /\ \A g \in Security!Starts : pool[g] # "none" => g <= securityStarts
  /\ late = {} => \A g \in Security!Starts :
       /\ g = securityStarts /\ bundle = "active" /\ pool[g] # "none" => dataSources = g
       /\ pool[g] = "open" /\ Security!Passed(g)
            => bundle = "closing" /\ g = securityStarts /\ toClose = g

SecurityInv == Security!TypeOK /\ Security!Conserved /\ AccessInv /\ PoolInv

-----------------------------------------------------------------------------
(* The commands.                                                           *)

CommandTypes ==
  /\ op \in [Callers -> Ops]
  /\ doing \in [Callers -> {"idle", "start", "stop", "stopping"}]
  /\ given \in 0 .. MaxCommands
  /\ disturbed \subseteq Bundles \cup {Unknown}
  /\ args \in [Callers -> Seq(Bundles \cup {Unknown})]
  /\ \A a \in Callers : doing[a] = "idle" <=> args[a] = <<>>

\* A start command stops nothing, a stop command has named all its bundles.
CommandInv == \A a \in Callers :
  /\ op[a] = "start" => doing[a] \in {"idle", "start"}
  /\ op[a] = "stop" => \A n \in DOMAIN args[a] : args[a][n] \in disturbed

\* Somebody restarts b and will start it.
Restarting(b) == \E a \in Callers :
  /\ doing[a] \in {"start", "stopping"}
  /\ Head(args[a]) = b

ActiveInv == \A b \in Bundles \ disturbed : EverStarted(b) => Active(b) \/ Restarting(b)

Inv == CommandTypes /\ CommandInv /\ ActiveInv /\ ShellInv /\ SecurityInv

-----------------------------------------------------------------------------
(* Every step is one of the shells or leaves them alone, likewise the pools. *)

LEMMA ShellStep ==
  ASSUME [Next]_vars
  PROVE  [Shells!Next]_shellVars
<1> USE DEF bundleVars, shellVars
<1>1. ASSUME NEW a \in Callers, Command(a)
      PROVE  [Shells!Next]_shellVars
  BY <1>1 DEF Command, NotFound, StartAgain, CallStart, StartRaises, StopAgain, CallStop,
              Starts, Stops, Shells!Next
<1>2. ASSUME NEW a \in Admins, NEW c \in Commands, Execute(a, c)
      PROVE  [Shells!Next]_shellVars
  BY <1>2 DEF Execute
<1>3. CASE ShellStops BY <1>3 DEF ShellStops, Shells!Next
<1>4. CASE SecurityStops BY <1>4 DEF SecurityStops
<1>5. ASSUME NEW g \in Shells!Starts, ShellStarts(g)
      PROVE  [Shells!Next]_shellVars
  BY <1>5 DEF ShellStarts, Shells!Next
<1>6. ASSUME NEW t \in Threads, Login(t) \/ Queries(t)
      PROVE  [Shells!Next]_shellVars
  BY <1>6 DEF Login, Queries
<1>7. CASE UNCHANGED vars BY <1>7 DEF vars
<1> QED BY <1>1, <1>2, <1>3, <1>4, <1>5, <1>6, <1>7 DEF Next

LEMMA SecurityStep ==
  ASSUME [Next]_vars
  PROVE  [Security!Next]_securityVars
<1> USE DEF bundleVars, securityVars
<1>1. ASSUME NEW a \in Callers, Command(a)
      PROVE  [Security!Next]_securityVars
  BY <1>1 DEF Command, NotFound, StartAgain, CallStart, StartRaises, StopAgain, CallStop,
              Starts, Stops, Security!Next
<1>2. ASSUME NEW a \in Admins, NEW c \in Commands, Execute(a, c)
      PROVE  [Security!Next]_securityVars
  BY <1>2 DEF Execute
<1>3. CASE ShellStops BY <1>3 DEF ShellStops
<1>4. CASE SecurityStops BY <1>4 DEF SecurityStops, Security!Next
<1>5. ASSUME NEW g \in Shells!Starts, ShellStarts(g)
      PROVE  [Security!Next]_securityVars
  BY <1>5 DEF ShellStarts
<1>6. ASSUME NEW t \in Threads, Login(t) \/ Queries(t)
      PROVE  [Security!Next]_securityVars
  BY <1>6 DEF Login, Queries, Security!Next
<1>7. CASE UNCHANGED vars BY <1>7 DEF vars
<1> QED BY <1>1, <1>2, <1>3, <1>4, <1>5, <1>6, <1>7 DEF Next

-----------------------------------------------------------------------------
(* The shells keep ShellInv.                                               *)

LEMMA ShellConstants == NShells \in Nat \ {0} /\ MaxStarts \in Nat
  BY CommandsAssumption DEF Shells!ConstantsOK

LEMMA ShellInit == Shells!Init => ShellInv
  BY ShellConstants DEF Shells!Init, ShellInv, Shells!TypeOK, Shells!Starts, Shells!Shells,
     Shells!Over, Fresh, InOrder, UpTo, ShutUpTo, StartInv, Shells!Starting

\* A step that concerns one start need only keep what is said of that one.
LEMMA OneStart ==
  ASSUME ShellInv, Shells!TypeOK', NEW g \in Shells!Starts, StartInv(g)',
         shellStarts' = shellStarts,
         \A h \in Shells!Starts : h # g =>
           /\ job'[h] = job[h] /\ stopper'[h] = stopper[h] /\ shell'[h] = shell[h]
           /\ h \in overlaps' <=> h \in overlaps
  PROVE  ShellInv'
<1>1. ASSUME NEW h \in Shells!Starts, h # g
      PROVE  StartInv(h)'
  BY <1>1 DEF ShellInv, StartInv, Fresh, InOrder, UpTo, ShutUpTo, Shells!Starting, Shells!Starts,
              Shells!Shells, Shells!Over
<1> QED BY <1>1 DEF ShellInv, Shells!Starts

LEMMA StartShellKeeps ==
  ASSUME ShellInv, NEW g \in Shells!Starts, Shells!StartShell(g)
  PROVE  ShellInv'
<1> USE ShellConstants DEF Shells!Starts, Shells!Shells, Shells!Over, Shells!Starting
<1> DEFINE k == job[g]
<1>a. Shells!TypeOK /\ StartInv(g) BY DEF ShellInv
<1>1. /\ k \in Shells!Shells
      /\ UNCHANGED <<shellStarts, stopper, overlaps>>
  BY DEF Shells!StartShell
<1>2. PICK s \in {"listening", "failed", "taken"} :
        /\ shell' = [shell EXCEPT ![g][k] = s]
        /\ job' = [job EXCEPT ![g] = IF s = "listening" THEN k + 1 ELSE Shells!Over]
  BY DEF Shells!StartShell, Shells!SetShell
<1>3. /\ \A j \in Shells!Shells : shell'[g][j] = IF j = k THEN s ELSE shell[g][j]
      /\ job'[g] = IF s = "listening" THEN k + 1 ELSE Shells!Over
  BY <1>a, <1>1, <1>2 DEF Shells!TypeOK
<1>d. Shells!TypeOK'
  <2>1. job' \in [Shells!Starts -> 1 .. Shells!Over]
    BY <1>a, <1>1, <1>2 DEF Shells!TypeOK
  <2>2. [shell[g] EXCEPT ![k] = s]
          \in [Shells!Shells -> {"new", "listening", "failed", "taken", "shut"}]
    BY <1>a, <1>1 DEF Shells!TypeOK
  <2>3. shell' \in [Shells!Starts -> [Shells!Shells ->
                      {"new", "listening", "failed", "taken", "shut"}]]
    BY <1>a, <1>2, <2>2 DEF Shells!TypeOK
  <2> QED BY <1>a, <1>1, <2>1, <2>3 DEF Shells!TypeOK
<1>4. \A h \in Shells!Starts : h # g => job'[h] = job[h] /\ shell'[h] = shell[h]
  BY <1>a, <1>1, <1>2 DEF Shells!TypeOK
<1>b. \A j \in Shells!Shells :
        IF j < k THEN shell[g][j] \in {"listening", "shut"} ELSE shell[g][j] = "new"
  BY <1>a, <1>1 DEF StartInv, UpTo
<1>c. k \in Nat /\ stopper[g] \in Nat /\ g <= shellStarts
  BY <1>a, <1>1 DEF Shells!TypeOK, StartInv, Fresh
<1>5. InOrder(g)'
  <2> SUFFICES ASSUME NEW i \in Shells!Shells, NEW j \in Shells!Shells, i < j,
                      shell'[g][j] # "new"
               PROVE  shell'[g][i] \in {"listening", "shut"}
    BY DEF InOrder
  <2>1. j <= k BY <1>3, <1>b, <1>c
  <2> QED BY <2>1, <1>3, <1>b, <1>c
<1>6. UpTo(g)'
  BY <1>3, <1>b, <1>c DEF UpTo
<1>7. ShutUpTo(g)'
  BY <1>a, <1>1, <1>3, <1>c DEF StartInv, ShutUpTo
<1>8. StartInv(g)'
  BY <1>a, <1>1, <1>5, <1>6, <1>7, <1>c DEF StartInv, Shells!TypeOK
<1> QED BY <1>1, <1>d, <1>4, <1>8, OneStart

LEMMA StopKeeps ==
  ASSUME ShellInv, NEW g \in Shells!Starts,
         Shells!Stop(g) \/ Shells!Shutdown(g) \/ Shells!ShutdownRaises(g)
  PROVE  ShellInv'
<1> USE ShellConstants DEF Shells!Starts, Shells!Shells, Shells!Over, Shells!Starting
<1>a. Shells!TypeOK /\ StartInv(g) BY DEF ShellInv
<1>1. CASE Shells!Stop(g)
  <2>1. /\ Shells!TypeOK' /\ stopper[g] = 0 /\ stopper'[g] = 1
        /\ UNCHANGED <<shellStarts, job, shell>>
        /\ g \notin overlaps' => job[g] \notin Shells!Shells
        /\ \A h \in Shells!Starts : h # g =>
             stopper'[h] = stopper[h] /\ (h \in overlaps' <=> h \in overlaps)
    BY <1>1, <1>a DEF Shells!Stop, Shells!Active, Shells!TypeOK
  <2>2. StartInv(g)'
    BY <2>1, <1>a DEF StartInv, Fresh, InOrder, UpTo, ShutUpTo
  <2> QED BY <2>1, <2>2, OneStart
<1>2. CASE Shells!Shutdown(g)
  <2> DEFINE k == stopper[g]
  <2>1. k \in Shells!Shells /\ UNCHANGED <<shellStarts, job, overlaps>>
    BY <1>2 DEF Shells!Shutdown, Shells!Stopping
  <2> DEFINE shut == [shell[g] EXCEPT ![k] = IF @ = "listening" THEN "shut" ELSE @]
  <2>a. shut \in [Shells!Shells -> {"new", "listening", "failed", "taken", "shut"}]
    BY <1>a, <2>1 DEF Shells!TypeOK
  <2>b. shell' = [shell EXCEPT ![g] = shut]
    BY <1>2, <1>a, <2>1 DEF Shells!Shutdown, Shells!SetShell, Shells!TypeOK
  <2>c. Shells!TypeOK'
    BY <1>2, <1>a, <2>1, <2>a, <2>b DEF Shells!Shutdown, Shells!TypeOK
  <2>2. /\ stopper'[g] = k + 1
        /\ \A j \in Shells!Shells : shell'[g][j] =
             IF j = k /\ shell[g][k] = "listening" THEN "shut" ELSE shell[g][j]
        /\ \A h \in Shells!Starts : h # g => stopper'[h] = stopper[h] /\ shell'[h] = shell[h]
    BY <1>2, <1>a, <2>1, <2>b DEF Shells!Shutdown, Shells!TypeOK
  <2>3. g <= shellStarts BY <2>1, <1>a DEF StartInv, Fresh, Shells!TypeOK
  <2>4. InOrder(g)' /\ UpTo(g)'
    BY <2>1, <2>2, <1>a DEF StartInv, InOrder, UpTo
  <2>5. ShutUpTo(g)'
    BY <2>1, <2>2, <1>a DEF StartInv, ShutUpTo
  <2>6. StartInv(g)' BY <2>1, <2>2, <2>3, <2>4, <2>5, <1>a DEF StartInv, Shells!TypeOK
  <2> QED BY <2>1, <2>c, <2>2, <2>6, OneStart
<1>3. CASE Shells!ShutdownRaises(g)
  <2> DEFINE k == stopper[g]
  <2>1. /\ k \in Shells!Shells /\ UNCHANGED <<shellStarts, job, shell, overlaps>>
        /\ shell[g][k] # "listening"
    BY <1>3 DEF Shells!ShutdownRaises, Shells!Stopping
  <2>2. /\ stopper'[g] = Shells!Over /\ Shells!TypeOK'
        /\ \A h \in Shells!Starts : h # g => stopper'[h] = stopper[h]
    BY <1>3, <1>a, <2>1 DEF Shells!ShutdownRaises, Shells!TypeOK
  <2>3. g <= shellStarts BY <2>1, <1>a DEF StartInv, Fresh, Shells!TypeOK
  <2>4. \A j \in Shells!Shells : j > k => shell[g][j] = "new"
    BY <2>1, <1>a DEF StartInv, InOrder, ShutUpTo
  <2>5. ShutUpTo(g)'
    BY <2>1, <2>2, <2>4, <1>a DEF StartInv, ShutUpTo
  <2>6. StartInv(g)' BY <2>1, <2>2, <2>3, <2>5, <1>a DEF StartInv, InOrder, UpTo, Shells!TypeOK
  <2> QED BY <2>1, <2>2, <2>6, OneStart
<1> QED BY <1>1, <1>2, <1>3

LEMMA StartKeeps ==
  ASSUME ShellInv, Shells!Start
  PROVE  ShellInv'
<1> USE ShellConstants DEF Shells!Starts, Shells!Shells, Shells!Over, Shells!Starting
<1>0. PICK g \in Shells!Starts : g = shellStarts + 1
  BY DEF ShellInv, Shells!TypeOK, Shells!Start
<1>1. Shells!TypeOK /\ g > shellStarts /\ Fresh(g)
  BY <1>0 DEF ShellInv, StartInv, Shells!TypeOK, Shells!Start
<1>2. /\ shellStarts' = g /\ job'[g] = 1 /\ stopper'[g] = 0 /\ UNCHANGED <<shell, overlaps>>
      /\ \A h \in Shells!Starts : h # g => job'[h] = job[h] /\ stopper'[h] = stopper[h]
      /\ Shells!TypeOK'
  BY <1>0, <1>1 DEF Shells!Start, Shells!TypeOK
<1>3. StartInv(g)'
  BY <1>1, <1>2 DEF StartInv, Fresh, InOrder, UpTo, ShutUpTo, Shells!TypeOK
<1>4. ASSUME NEW h \in Shells!Starts, h # g
      PROVE  StartInv(h)'
  BY <1>0, <1>1, <1>2, <1>4 DEF ShellInv, StartInv, Fresh, InOrder, UpTo, ShutUpTo, Shells!TypeOK
<1> QED BY <1>2, <1>3, <1>4 DEF ShellInv

LEMMA ShellKept ==
  ASSUME ShellInv, [Shells!Next]_shellVars
  PROVE  ShellInv'
<1>1. CASE UNCHANGED shellVars
  BY <1>1 DEF shellVars, ShellInv, Shells!TypeOK, StartInv, Fresh, InOrder, UpTo, ShutUpTo,
              Shells!Starting, Shells!Starts, Shells!Shells, Shells!Over
<1> QED BY <1>1, StartKeeps, StartShellKeeps, StopKeeps DEF Shells!Next

-----------------------------------------------------------------------------
(* The pools keep SecurityInv.  The connections of a start are counted one   *)
(* thread at a time.                                                       *)

\* The instance has its own copies of two operators of FiniteSets.
LEMMA SameFiniteSets ==
  ASSUME NEW S
  PROVE  /\ Security!IsFiniteSet(S) <=> IsFiniteSet(S)
         /\ Security!Cardinality(S) = Cardinality(S)
<1>1. Security!IsFiniteSet(S) <=> IsFiniteSet(S)
  BY DEF Security!IsFiniteSet, IsFiniteSet
<1>2. Security!Cardinality(S) = Cardinality(S)
  BY DEF Security!Cardinality, Cardinality
<1> QED BY <1>1, <1>2

LEMMA SecurityConstants ==
  /\ IsFiniteSet(Threads) /\ Size \in Nat \ {0}
  /\ MaxStarts \in Nat /\ MaxQueries \in Nat
  BY CommandsAssumption, SameFiniteSets DEF Security!ConstantsOK

LEMMA SecurityInit == Security!Init => SecurityInv
<1> SUFFICES ASSUME Security!Init PROVE SecurityInv
  OBVIOUS
<1> USE SecurityConstants DEF Security!Init, Security!Starts
<1>1. Security!TypeOK BY DEF Security!TypeOK
<1>2. ASSUME NEW g \in Security!Starts
      PROVE  free[g] + Cardinality(Security!Holders(g)) + lost[g] = Size
  <2>1. Security!Holders(g) = {} BY DEF Security!Holders
  <2> QED BY <2>1, FS_EmptySet
<1>3. AccessInv /\ PoolInv BY DEF AccessInv, PoolInv, Security!Passed
<1> QED BY <1>1, <1>2, <1>3, SameFiniteSets DEF SecurityInv, Security!Conserved

LEMMA HoldersFinite ==
  ASSUME NEW g
  PROVE  IsFiniteSet(Security!Holders(g)) /\ Cardinality(Security!Holders(g)) \in Nat
BY SecurityConstants, FS_Subset, FS_CardinalityType DEF Security!Holders

\* Who holds what, and the sum, stay where they are.
LEMMA SameHolders ==
  ASSUME Security!Conserved,
         \A g \in Security!Starts : /\ Security!Holders(g)' = Security!Holders(g)
                                   /\ free'[g] = free[g] /\ lost'[g] = lost[g]
  PROVE  Security!Conserved'
BY DEF Security!Conserved, Security!Starts

LEMMA ActivatorKeeps ==
  ASSUME SecurityInv, Security!Start \/ Security!Stop \/ Security!Close
  PROVE  SecurityInv'
<1> USE SecurityConstants DEF Security!threadVars
<1>a. Security!TypeOK /\ Security!Conserved /\ AccessInv /\ PoolInv BY DEF SecurityInv
<1>1. UNCHANGED <<pc, access, queries, free, lost, late>>
  BY DEF Security!Start, Security!Stop, Security!Close, Security!poolVars
<1>2. Security!TypeOK'
  <2> USE <1>a, <1>1 DEF Security!TypeOK, Security!poolVars, Security!Starts
  <2>1. CASE Security!Start BY <2>1 DEF Security!Start
  <2>2. CASE Security!Stop BY <2>2 DEF Security!Stop
  <2>3. CASE Security!Close
    <3>1. pool' \in [Security!Starts -> {"none", "built", "open", "closed"}]
      BY <2>3 DEF Security!Close
    <3> QED BY <2>3, <3>1 DEF Security!Close
  <2> QED BY <2>1, <2>2, <2>3
<1>3. Security!Conserved' BY <1>a, <1>1, SameHolders DEF Security!Holders
<1>4. AccessInv'
  BY <1>a, <1>1 DEF AccessInv, Security!TypeOK, Security!Start, Security!Stop, Security!Close
<1>5. PoolInv'
  <2> USE <1>a DEF PoolInv, Security!Passed, Security!TypeOK, Security!Starts, Security!poolVars
  <2>1. CASE Security!Start BY <2>1 DEF Security!Start
  <2>2. CASE Security!Stop BY <2>2 DEF Security!Stop
  <2>3. CASE Security!Close BY <2>3, <1>1 DEF Security!Close
  <2> QED BY <2>1, <2>2, <2>3
<1> QED BY <1>2, <1>3, <1>4, <1>5 DEF SecurityInv

\* A login and the steps of a query that neither take nor give a connection.
LEMMA ThreadKeeps ==
  ASSUME SecurityInv, NEW t \in Threads,
         \/ Security!Login(t) \/ Security!DataSource(t) \/ Security!GetConnectionRaises(t)
         \/ Security!Query(t)
  PROVE  SecurityInv'
<1> USE SecurityConstants DEF Security!Goto
<1>a. Security!TypeOK /\ Security!Conserved /\ AccessInv /\ PoolInv BY DEF SecurityInv
<1>1. UNCHANGED <<securityStarts, bundle, toClose, free, lost>>
  BY DEF Security!Login, Security!DataSource, Security!GetConnectionRaises, Security!Query,
     Security!bundleVars, Security!poolVars
<1>2. Security!TypeOK'
  <2> USE <1>a, <1>1 DEF Security!TypeOK, Security!Starts, AccessInv
  <2>1. CASE Security!Login(t) BY <2>1 DEF Security!Login, Security!poolVars
  <2>2. CASE Security!DataSource(t)
    <3>1. access[t] \in Security!Starts BY <2>2 DEF Security!DataSource
    <3>2. CASE pool[access[t]] = "none"
      <4>1. late' \subseteq Security!Starts BY <2>2, <3>1, <3>2 DEF Security!DataSource
      <4>2. /\ dataSources' = access[t]
            /\ pool' = [pool EXCEPT ![access[t]] = "built"]
            /\ pc' = [pc EXCEPT ![t] = "getConnection"]
            /\ UNCHANGED <<access, queries>>
        BY <2>2, <3>2 DEF Security!DataSource
      <4> QED BY <3>1, <4>1, <4>2
    <3>3. CASE pool[access[t]] # "none" BY <2>2, <3>3 DEF Security!DataSource
    <3> QED BY <3>2, <3>3
  <2>3. CASE Security!GetConnectionRaises(t) \/ Security!Query(t)
    BY <2>3 DEF Security!GetConnectionRaises, Security!Query, Security!poolVars
  <2> QED BY <2>1, <2>2, <2>3
<1>3. \A u \in Threads : u # t => pc'[u] = pc[u] /\ access'[u] = access[u]
  BY <1>a DEF Security!Login, Security!DataSource, Security!GetConnectionRaises, Security!Query,
     Security!TypeOK
<1>4. /\ pc'[t] \in {"query", "finally"} <=> pc[t] \in {"query", "finally"}
      /\ pc[t] \in {"query", "finally"} => access'[t] = access[t]
  BY <1>a DEF Security!Login, Security!DataSource, Security!GetConnectionRaises, Security!Query,
     Security!TypeOK
<1>5. Security!Conserved'
  BY <1>a, <1>1, <1>3, <1>4, SameHolders DEF Security!Holders
<1>6. AccessInv'
  <2>1. CASE Security!Login(t)
    BY <2>1, <1>a, <1>1, <1>3 DEF AccessInv, Security!Login, Security!TypeOK
  <2>2. CASE ~Security!Login(t)
    BY <2>2, <1>a, <1>1, <1>3 DEF AccessInv, Security!DataSource, Security!GetConnectionRaises,
       Security!Query, Security!TypeOK
  <2> QED BY <2>1, <2>2
<1>7. PoolInv'
  <2> USE <1>a, <1>1 DEF PoolInv, Security!Passed, Security!TypeOK, Security!Starts
  <2>1. CASE Security!DataSource(t)
    <3>1. PICK g \in Security!Starts : g = access[t] /\ g <= securityStarts
      BY <2>1 DEF AccessInv, Security!DataSource
    <3>2. CASE pool[g] # "none" BY <2>1, <3>1, <3>2 DEF Security!DataSource
    <3>3. CASE pool[g] = "none"
      <4>1. /\ dataSources' = g
            /\ \A h \in Security!Starts : pool'[h] = IF h = g THEN "built" ELSE pool[h]
            /\ late' = IF Security!Passed(g) THEN late \cup {g} ELSE late
        BY <2>1, <3>1, <3>3 DEF Security!DataSource
      <4>2. CASE Security!Passed(g) BY <4>1, <4>2, <3>1
      <4>3. CASE ~Security!Passed(g) BY <4>1, <4>3, <3>1, <1>2
      <4> QED BY <4>2, <4>3
    <3> QED BY <3>2, <3>3
  <2>2. CASE ~Security!DataSource(t)
    BY <2>2 DEF Security!Login, Security!GetConnectionRaises, Security!Query, Security!poolVars
  <2> QED BY <2>1, <2>2
<1> QED BY <1>2, <1>5, <1>6, <1>7 DEF SecurityInv

\* The pool gives a connection.
LEMMA GetConnectionKeeps ==
  ASSUME SecurityInv, NEW t \in Threads, Security!GetConnection(t)
  PROVE  SecurityInv'
<1> USE SecurityConstants DEF Security!Goto
<1> DEFINE g == access[t]
<1>a. Security!TypeOK /\ Security!Conserved /\ AccessInv /\ PoolInv BY DEF SecurityInv
<1>1. /\ UNCHANGED <<securityStarts, bundle, toClose, dataSources, lost, access, queries>>
      /\ pc[t] = "getConnection" /\ free[g] > 0 /\ pool[g] \in {"built", "open"}
  BY DEF Security!GetConnection, Security!bundleVars
<1>2. g \in 1 .. securityStarts /\ g \in Security!Starts
  BY <1>a, <1>1 DEF AccessInv, Security!TypeOK, Security!Starts
<1>3. /\ \A u \in Threads : pc'[u] = IF u = t THEN "query" ELSE pc[u]
      /\ \A h \in Security!Starts : free'[h] = IF h = g THEN free[h] - 1 ELSE free[h]
      /\ \A h \in Security!Starts : pool'[h] = IF h = g THEN "open" ELSE pool[h]
  BY <1>a, <1>2 DEF Security!GetConnection, Security!TypeOK
<1>4. Security!TypeOK'
  BY <1>a, <1>1, <1>2 DEF Security!TypeOK, Security!GetConnection
<1>5. Security!Conserved'
  <2>1. ASSUME NEW h \in Security!Starts
        PROVE  free'[h] + Cardinality(Security!Holders(h)') + lost'[h] = Size
    <3>a. free[h] + Cardinality(Security!Holders(h)) + lost[h] = Size
      BY <1>a, SameFiniteSets DEF Security!Conserved
    <3>1. CASE h = g
      <4>1. Security!Holders(h)' = Security!Holders(h) \cup {t} /\ t \notin Security!Holders(h)
        BY <1>1, <1>3, <3>1 DEF Security!Holders
      <4>2. Cardinality(Security!Holders(h)') = Cardinality(Security!Holders(h)) + 1
        BY <4>1, HoldersFinite, FS_AddElement
      <4> QED BY <3>a, <3>1, <4>2, <1>1, <1>3, <1>a, HoldersFinite DEF Security!TypeOK
    <3>2. CASE h # g
      <4>1. Security!Holders(h)' = Security!Holders(h)
        BY <1>1, <1>3, <3>2 DEF Security!Holders
      <4> QED BY <3>a, <3>2, <4>1, <1>1, <1>3
    <3> QED BY <3>1, <3>2
  <2> QED BY <2>1, SameFiniteSets DEF Security!Conserved, Security!Starts
<1>6. AccessInv' BY <1>a, <1>1, <1>3 DEF AccessInv
<1>7. PoolInv'
  BY <1>a, <1>1, <1>2, <1>3 DEF PoolInv, Security!GetConnection, Security!Passed, Security!TypeOK,
     Security!Starts
<1> QED BY <1>4, <1>5, <1>6, <1>7 DEF SecurityInv

\* It takes the connection back, or loses it.
LEMMA FinallyKeeps ==
  ASSUME SecurityInv, NEW t \in Threads, Security!Finally(t) \/ Security!FinallyRaises(t)
  PROVE  SecurityInv'
<1> USE SecurityConstants DEF Security!Goto
<1>a. Security!TypeOK /\ Security!Conserved /\ AccessInv /\ PoolInv BY DEF SecurityInv
<1>1. /\ UNCHANGED <<securityStarts, bundle, toClose, dataSources, pool, late, access>>
      /\ pc[t] = "finally"
  BY DEF Security!Finally, Security!FinallyRaises, Security!bundleVars
<1>2. PICK g \in Security!Starts : g = access[t]
  BY <1>a, <1>1 DEF AccessInv, Security!TypeOK, Security!Starts
<1>3. /\ pc'[t] \in {"idle", "dataSource"}
      /\ \A u \in Threads : u # t => pc'[u] = pc[u]
      /\ \A h \in Security!Starts : h # g => free'[h] = free[h] /\ lost'[h] = lost[h]
      /\ free'[g] + lost'[g] = free[g] + lost[g] + 1
      /\ free'[g] \in Nat /\ lost'[g] \in Nat
  <2>1. CASE Security!Finally(t)
    BY <2>1, <1>a, <1>2 DEF Security!Finally, Security!TypeOK
  <2>2. CASE Security!FinallyRaises(t)
    BY <2>2, <1>a, <1>2 DEF Security!FinallyRaises, Security!TypeOK
  <2> QED BY <2>1, <2>2
<1>5. \A h \in Security!Starts :
        free'[h] + Cardinality(Security!Holders(h)') + lost'[h] = Size
  <2> SUFFICES ASSUME NEW h \in Security!Starts
               PROVE  free'[h] + Cardinality(Security!Holders(h)') + lost'[h] = Size
    OBVIOUS
  <2>a. free[h] + Cardinality(Security!Holders(h)) + lost[h] = Size
    BY <1>a, SameFiniteSets DEF Security!Conserved
  <2>1. CASE h = g
    <3>1. Security!Holders(h)' = Security!Holders(h) \ {t} /\ t \in Security!Holders(h)
      BY <1>1, <1>2, <1>3, <2>1 DEF Security!Holders
    <3>2. Cardinality(Security!Holders(h)') = Cardinality(Security!Holders(h)) - 1
      BY <3>1, HoldersFinite, FS_RemoveElement
    <3> QED BY <2>a, <2>1, <3>2, <1>3, <1>a, <1>2, HoldersFinite DEF Security!TypeOK
  <2>2. CASE h # g
    <3>1. Security!Holders(h)' = Security!Holders(h)
      BY <1>1, <1>2, <1>3, <2>2 DEF Security!Holders
    <3> QED BY <2>a, <2>2, <3>1, <1>3
  <2> QED BY <2>1, <2>2
<1>4. Security!TypeOK'
  <2>1. IsFiniteSet(Security!Holders(g)') /\ Cardinality(Security!Holders(g)') \in Nat
    BY SecurityConstants, FS_Subset, FS_CardinalityType DEF Security!Holders
  <2>2. free'[g] \in 0 .. Size /\ lost'[g] \in 0 .. Size BY <1>2, <1>3, <1>5, <2>1
  <2>3. CASE Security!Finally(t)
    <3>1. free' \in [Security!Starts -> 0 .. Size] /\ lost' = lost
      BY <2>2, <2>3, <1>a, <1>2 DEF Security!Finally, Security!TypeOK
    <3>2. queries' \in 0 .. MaxQueries
      BY <2>3, <1>a DEF Security!Finally, Security!TypeOK
    <3> QED BY <2>3, <3>1, <3>2, <1>a, <1>1 DEF Security!Finally, Security!TypeOK
  <2>4. CASE Security!FinallyRaises(t)
    <3>1. lost' \in [Security!Starts -> 0 .. Size] /\ UNCHANGED <<free, queries>>
      BY <2>2, <2>4, <1>a, <1>2 DEF Security!FinallyRaises, Security!TypeOK
    <3> QED BY <2>4, <3>1, <1>a, <1>1 DEF Security!FinallyRaises, Security!TypeOK
  <2> QED BY <2>3, <2>4
<1>6. Security!Conserved' BY <1>5, SameFiniteSets DEF Security!Conserved, Security!Starts
<1>7. AccessInv' BY <1>a, <1>1, <1>3 DEF AccessInv
<1>8. PoolInv' BY <1>a, <1>1 DEF PoolInv, Security!Passed, Security!Starts
<1> QED BY <1>4, <1>6, <1>7, <1>8 DEF SecurityInv

LEMMA SecurityKept ==
  ASSUME SecurityInv, [Security!Next]_securityVars
  PROVE  SecurityInv'
<1>1. CASE UNCHANGED securityVars
  <2>1. Security!Conserved'
    BY <1>1, SameHolders DEF securityVars, SecurityInv, Security!Holders
  <2> QED BY <1>1, <2>1 DEF securityVars, SecurityInv, Security!TypeOK, AccessInv, PoolInv,
             Security!Passed, Security!Starts
<1> QED BY <1>1, ActivatorKeeps, ThreadKeeps, GetConnectionKeeps, FinallyKeeps
        DEF Security!Next, Security!Asks

-----------------------------------------------------------------------------
(* The commands.                                                           *)

LEMMA TailFacts ==
  ASSUME NEW S, NEW s \in Seq(S), s # <<>>
  PROVE  /\ Tail(s) \in Seq(S)
         /\ Tail(s) = <<>> <=> Len(s) = 1
         /\ \A n \in DOMAIN Tail(s) : n + 1 \in DOMAIN s /\ Tail(s)[n] = s[n + 1]
         /\ 1 \in DOMAIN s /\ Head(s) = s[1] /\ Head(s) \in S
<1>1. Len(s) \in Nat \ {0} /\ DOMAIN s = 1 .. Len(s) BY EmptySeq, LenProperties
<1>2. /\ Tail(s) \in Seq(S) /\ Len(Tail(s)) = Len(s) - 1
      /\ \A i \in 1 .. Len(Tail(s)) : Tail(s)[i] = s[i + 1]
      /\ Head(s) \in S
  BY HeadTailProperties
<1>3. DOMAIN Tail(s) = 1 .. Len(Tail(s)) /\ Len(Tail(s)) \in Nat BY <1>2, LenProperties
<1>4. Tail(s) = <<>> => Len(Tail(s)) = 0 BY EmptySeq
<1>5. Tail(s) # <<>> => Len(Tail(s)) # 0 BY <1>2, EmptySeq
<1>6. Head(s) = s[1] BY <1>1
<1> QED BY <1>1, <1>2, <1>3, <1>4, <1>5, <1>6

NoBadCommand == CommandTypes /\ CommandInv

\* The next argument is taken up.
LEMMA NextArgKeeps ==
  ASSUME NoBadCommand, NEW a \in Callers, doing[a] # "idle", NextArg(a),
         disturbed \subseteq disturbed', disturbed' \subseteq Bundles \cup {Unknown}
  PROVE  NoBadCommand'
<1> USE DEF NoBadCommand, CommandTypes
<1>1. args[a] \in Seq(Bundles \cup {Unknown}) /\ args[a] # <<>> /\ op[a] \in Ops
  OBVIOUS
<1>2. /\ args' = [args EXCEPT ![a] = Tail(args[a])]
      /\ doing' = [doing EXCEPT ![a] = IF Len(args[a]) = 1 THEN "idle" ELSE FirstCall(op[a])]
      /\ UNCHANGED <<op, given>>
  BY DEF NextArg
<1>3. FirstCall(op[a]) \in {"start", "stop"} /\ (op[a] = "start" => FirstCall(op[a]) = "start")
  BY DEF FirstCall
<1>4. CommandTypes' BY <1>1, <1>2, <1>3, TailFacts
<1>5. CommandInv'
  <2> SUFFICES ASSUME NEW u \in Callers
               PROVE  /\ op'[u] = "start" => doing'[u] \in {"idle", "start"}
                      /\ op'[u] = "stop" => \A n \in DOMAIN args'[u] : args'[u][n] \in disturbed'
    BY DEF CommandInv
  <2>1. CASE u = a BY <2>1, <1>1, <1>2, <1>3, TailFacts DEF CommandInv
  <2>2. CASE u # a BY <2>2, <1>2 DEF CommandInv
  <2> QED BY <2>1, <2>2
<1> QED BY <1>4, <1>5

\* A restart goes on to start, whatever else goes on to the next argument.
LEMMA AfterStopKeeps ==
  ASSUME NoBadCommand, NEW a \in Callers, doing[a] \in {"stop", "stopping"}, AfterStop(a),
         disturbed' = disturbed
  PROVE  NoBadCommand'
<1> USE DEF NoBadCommand, CommandTypes
<1>1. CASE op[a] = "restart"
  BY <1>1 DEF AfterStop, CommandInv
<1>2. CASE op[a] # "restart"
  BY <1>2, NextArgKeeps DEF AfterStop
<1> QED BY <1>1, <1>2

LEMMA CommandKeeps ==
  ASSUME NoBadCommand, NEW a \in Callers, Command(a)
  PROVE  NoBadCommand'
<1> USE DEF NoBadCommand, CommandTypes, At
<1>1. CASE NotFound(a) \/ StartAgain(a) \/ CallStart(a)
  <2>1. NextArg(a) /\ disturbed' = disturbed /\ doing[a] # "idle"
    BY <1>1 DEF NotFound, StartAgain, CallStart
  <2> QED BY <2>1, NextArgKeeps
<1>2. CASE StartRaises(a)
  <2>1. NextArg(a) /\ disturbed' = disturbed \cup {Head(args[a])} /\ doing[a] # "idle"
    BY <1>2 DEF StartRaises
  <2>2. args[a] \in Seq(Bundles \cup {Unknown}) /\ args[a] # <<>> BY <2>1
  <2>3. Head(args[a]) \in Bundles \cup {Unknown} BY <2>2, TailFacts
  <2> QED BY <2>1, <2>3, NextArgKeeps
<1>3. CASE StopAgain(a)
  BY <1>3, AfterStopKeeps DEF StopAgain
<1>4. CASE CallStop(a)
  BY <1>4 DEF CallStop, CommandInv
<1> QED BY <1>1, <1>2, <1>3, <1>4 DEF Command

LEMMA ExecuteKeeps ==
  ASSUME NoBadCommand, NEW a \in Callers, NEW c \in Commands, Execute(a, c)
  PROVE  NoBadCommand'
<1> USE CommandsAssumption DEF NoBadCommand, CommandTypes
<1>1. c.op \in Ops /\ c.args \in Seq(Bundles \cup {Unknown}) /\ c.args # <<>>
  BY DEF Execute
<1>2. disturbed \subseteq disturbed' /\ disturbed' \subseteq Bundles \cup {Unknown}
  BY <1>1 DEF Execute
<1>3. CommandTypes' BY <1>1, <1>2 DEF Execute, FirstCall
<1>4. CommandInv' BY <1>1, <1>2 DEF Execute, FirstCall, CommandInv
<1> QED BY <1>3, <1>4

LEMMA ContinuesKeeps ==
  ASSUME NoBadCommand, NEW b \in Bundles, NEW raised \in BOOLEAN, Continues(b, raised)
  PROVE  NoBadCommand'
<1> USE DEF NoBadCommand, CommandTypes
<1>1. CASE UNCHANGED commandVars BY <1>1 DEF commandVars, CommandInv
<1>2. ASSUME NEW a \in Callers, doing[a] = "stopping",
             IF raised THEN NextArg(a) ELSE AfterStop(a),
             disturbed' = IF raised THEN disturbed \cup {b} ELSE disturbed
      PROVE  NoBadCommand'
  <2>1. CASE raised BY <1>2, <2>1, NextArgKeeps
  <2>2. CASE ~raised BY <1>2, <2>2, AfterStopKeeps
  <2> QED BY <2>1, <2>2
<1> QED BY <1>1, <1>2 DEF Continues

-----------------------------------------------------------------------------
(* What is restarted comes back: ActiveInv.                                *)

\* One caller moves; what it was about to start is active or still its own.
LEMMA OneCaller ==
  ASSUME ActiveInv, NEW a \in Callers,
         \A u \in Callers : u # a => doing'[u] = doing[u] /\ args'[u] = args[u],
         disturbed \subseteq disturbed',
         \A b \in Bundles \ disturbed' :
           /\ EverStarted(b)' => EverStarted(b) \/ Active(b)'
           /\ Active(b) => Active(b)' \/ Restarting(b)'
           /\ doing[a] \in {"start", "stopping"} /\ Head(args[a]) = b
                => Active(b)' \/ Restarting(b)'
  PROVE  ActiveInv'
<1> SUFFICES ASSUME NEW b \in Bundles \ disturbed', EverStarted(b)'
             PROVE  Active(b)' \/ Restarting(b)'
  BY DEF ActiveInv, Bundles
<1>1. CASE Active(b)' BY <1>1
<1>2. CASE Active(b) BY <1>2
<1>3. CASE Restarting(b)
  <2>1. PICK u \in Callers : doing[u] \in {"start", "stopping"} /\ Head(args[u]) = b
    BY <1>3 DEF Restarting
  <2>2. CASE u = a BY <2>1, <2>2
  <2>3. CASE u # a
    <3>1. doing'[u] = doing[u] /\ args'[u] = args[u] BY <2>3
    <3> QED BY <2>1, <3>1 DEF Restarting
  <2> QED BY <2>2, <2>3
<1>4. b \in Bundles \ disturbed OBVIOUS
<1> QED BY <1>1, <1>2, <1>3, <1>4 DEF ActiveInv

\* Which bundles are active depends on these variables, and so does whether one
\* was ever started.
LEMMA SameBundles ==
  ASSUME UNCHANGED bundleVars, NEW b
  PROVE  (Active(b)' <=> Active(b)) /\ (EverStarted(b)' <=> EverStarted(b))
BY DEF bundleVars, shellVars, securityVars, Active, EverStarted, Shells!Active

LEMMA NextArgMoves ==
  ASSUME CommandTypes, NEW a \in Callers, NextArg(a)
  PROVE  \A u \in Callers : u # a => doing'[u] = doing[u] /\ args'[u] = args[u]
BY DEF NextArg, CommandTypes

LEMMA CommandBrings ==
  ASSUME CommandTypes, ActiveInv, ShellInv, SecurityInv, NEW a \in Callers, Command(a)
  PROVE  ActiveInv'
<1>1. CASE NotFound(a)
  <2>1. Head(args[a]) \notin Bundles BY <1>1 DEF NotFound, Unknown, Bundles
  <2> QED BY <1>1, <2>1, NextArgMoves, SameBundles, OneCaller DEF NotFound
<1>2. CASE StartAgain(a)
  BY <1>2, NextArgMoves, SameBundles, OneCaller DEF StartAgain
<1>3. CASE CallStart(a)
  <2> DEFINE b == Head(args[a])
  <2>1. Starts(b) /\ NextArg(a) /\ disturbed' = disturbed BY <1>3 DEF CallStart
  <2>2. CASE b = "shell"
    <3>1. Shells!Start /\ UNCHANGED securityVars BY <2>1, <2>2 DEF Starts
    <3>2. Active("shell")'
      <4>1. shellStarts' \in Shells!Starts /\ stopper'[shellStarts'] = 0
        BY <3>1, ShellConstants DEF Shells!Start, ShellInv, Shells!TypeOK, Shells!Starts
      <4> QED BY <4>1 DEF Active, Shells!Active, Shells!Starts
    <3>3. /\ Active("security")' <=> Active("security")
          /\ EverStarted("security")' <=> EverStarted("security")
      BY <3>1 DEF securityVars, Active, EverStarted
    <3> QED BY <2>1, <2>2, <3>2, <3>3, NextArgMoves, OneCaller DEF Bundles
  <2>3. CASE b = "security"
    <3>1. Security!Start /\ UNCHANGED shellVars BY <2>1, <2>3 DEF Starts
    <3>2. Active("security")' BY <3>1 DEF Active, Security!Start
    <3>3. /\ Active("shell")' <=> Active("shell")
          /\ EverStarted("shell")' <=> EverStarted("shell")
      BY <3>1 DEF shellVars, Active, EverStarted, Shells!Active
    <3> QED BY <2>1, <2>3, <3>2, <3>3, NextArgMoves, OneCaller DEF Bundles
  <2> QED BY <2>1, <2>2, <2>3 DEF Starts
<1>4. CASE StartRaises(a)
  BY <1>4, NextArgMoves, SameBundles, OneCaller DEF StartRaises
<1>5. CASE StopAgain(a)
  <2>1. /\ \A u \in Callers : u # a => doing'[u] = doing[u] /\ args'[u] = args[u]
        /\ doing[a] = "stop" /\ disturbed' = disturbed /\ UNCHANGED bundleVars
    BY <1>5, NextArgMoves DEF StopAgain, AfterStop, At, CommandTypes
  <2> QED BY <2>1, SameBundles, OneCaller
<1>6. CASE CallStop(a)
  <2> DEFINE b == Head(args[a])
  <2>1. /\ Stops(b) /\ disturbed' = disturbed /\ args' = args
        /\ doing' = [doing EXCEPT ![a] = "stopping"] /\ doing[a] = "stop"
    BY <1>6 DEF CallStop, At
  <2>2. Restarting(b)' BY <2>1 DEF Restarting, CommandTypes
  <2>3. ASSUME NEW c \in Bundles, c # b
        PROVE  Active(c)' <=> Active(c)
    <3>1. CASE b = "shell"
      BY <2>1, <2>3, <3>1 DEF Stops, Active, Bundles, securityVars
    <3>2. CASE b = "security"
      BY <2>1, <2>3, <3>2 DEF Stops, Active, Bundles, shellVars, Shells!Active
    <3> QED BY <2>1, <3>1, <3>2 DEF Stops
  <2>4. UNCHANGED <<shellStarts, securityStarts>>
    BY <2>1 DEF Stops, Shells!Stop, Security!Stop, shellVars, securityVars
  <2>5. \A c \in Bundles : EverStarted(c)' <=> EverStarted(c) BY <2>4 DEF EverStarted
  <2>6. \A u \in Callers : u # a => doing'[u] = doing[u] /\ args'[u] = args[u]
    BY <2>1 DEF CommandTypes
  <2> QED BY <2>1, <2>2, <2>3, <2>5, <2>6, OneCaller
<1> QED BY <1>1, <1>2, <1>3, <1>4, <1>5, <1>6 DEF Command

LEMMA ExecuteBrings ==
  ASSUME CommandTypes, ActiveInv, NEW a \in Callers, NEW c \in Commands, Execute(a, c)
  PROVE  ActiveInv'
<1>1. \A u \in Callers : u # a => doing'[u] = doing[u] /\ args'[u] = args[u]
  BY DEF Execute, CommandTypes
<1>2. doing[a] = "idle" /\ disturbed \subseteq disturbed' /\ UNCHANGED bundleVars
  BY DEF Execute
<1> QED BY <1>1, <1>2, SameBundles, OneCaller

\* The end of a stop: a restart is now about to start the bundle, a stop command
\* has named it, and an exception is on record.
LEMMA ContinuesBrings ==
  ASSUME NoBadCommand, ActiveInv, NEW b \in Bundles, NEW raised \in BOOLEAN,
         Continues(b, raised),
         \A c \in Bundles : (Active(c) => Active(c)') /\ (EverStarted(c)' => EverStarted(c))
  PROVE  ActiveInv'
<1> USE DEF NoBadCommand
<1>1. CASE UNCHANGED commandVars
  <2>1. \A c \in Bundles : Restarting(c) => Restarting(c)'
    BY <1>1 DEF commandVars, Restarting
  <2>2. disturbed' = disturbed BY <1>1 DEF commandVars
  <2> QED BY <2>1, <2>2 DEF ActiveInv
<1>2. ASSUME NEW a \in Callers, doing[a] = "stopping", Head(args[a]) = b,
             IF raised THEN NextArg(a) ELSE AfterStop(a),
             disturbed' = IF raised THEN disturbed \cup {b} ELSE disturbed
      PROVE  ActiveInv'
  <2>1. CASE raised
    BY <1>2, <2>1, NextArgMoves, OneCaller
  <2>2. CASE ~raised /\ op[a] = "restart"
    <3>1. doing' = [doing EXCEPT ![a] = "start"] /\ args' = args
      BY <1>2, <2>2 DEF AfterStop
    <3>2. Restarting(b)' BY <1>2, <3>1 DEF Restarting, CommandTypes
    <3>3. \A u \in Callers : u # a => doing'[u] = doing[u] /\ args'[u] = args[u]
      BY <3>1 DEF CommandTypes
    <3> QED BY <1>2, <2>2, <3>2, <3>3, OneCaller
  <2>3. CASE ~raised /\ op[a] # "restart"
    <3>1. op[a] = "stop" BY <1>2, <2>3 DEF CommandTypes, CommandInv, Ops
    <3>2. args[a] \in Seq(Bundles \cup {Unknown}) /\ args[a] # <<>>
      BY <1>2 DEF CommandTypes
    <3>3. b \in disturbed BY <1>2, <3>1, <3>2, TailFacts DEF CommandInv
    <3> QED BY <1>2, <2>3, <3>3, NextArgMoves, OneCaller DEF AfterStop
  <2> QED BY <2>1, <2>2, <2>3
<1> QED BY <1>1, <1>2 DEF Continues

-----------------------------------------------------------------------------
(* The invariant and the theorems.                                         *)

LEMMA InitInv == Init => Inv
<1> SUFFICES ASSUME Init PROVE Inv
  OBVIOUS
<1>1. <<"security", "shell">> \in Seq(Bundles \cup {Unknown}) /\ <<"security", "shell">> # <<>>
  BY DEF Bundles
<1>2. CommandTypes
  <2>1. <<>> \in Seq(Bundles \cup {Unknown}) BY EmptySeq
  <2>2. args \in [Callers -> Seq(Bundles \cup {Unknown})] BY <1>1, <2>1 DEF Init
  <2>3. \A a \in Callers : doing[a] = "idle" <=> args[a] = <<>> BY <1>1 DEF Init
  <2> QED BY <2>2, <2>3, CommandsAssumption DEF Init, CommandTypes, Ops
<1>3. CommandInv BY DEF Init, CommandInv, Callers
<1>4. ActiveInv
  BY ShellConstants DEF Init, ActiveInv, EverStarted, Shells!Init, Security!Init
<1> QED BY <1>2, <1>3, <1>4, ShellInit, SecurityInit DEF Init, Inv

LEMMA Kept ==
  ASSUME Inv, [Next]_vars
  PROVE  Inv'
<1>a. CommandTypes /\ CommandInv /\ ActiveInv /\ ShellInv /\ SecurityInv BY DEF Inv
<1>1. ShellInv' BY <1>a, ShellStep, ShellKept
<1>2. SecurityInv' BY <1>a, SecurityStep, SecurityKept
<1>b. NoBadCommand BY <1>a DEF NoBadCommand
<1>3. NoBadCommand' /\ ActiveInv'
  <2>1. ASSUME NEW a \in Callers, Command(a)
        PROVE  NoBadCommand' /\ ActiveInv'
    BY <1>a, <1>b, <2>1, CommandKeeps, CommandBrings
  <2>2. ASSUME NEW a \in Admins, NEW c \in Commands, Execute(a, c)
        PROVE  NoBadCommand' /\ ActiveInv'
    <3>1. a \in Callers BY DEF Callers
    <3> QED BY <1>a, <1>b, <2>2, <3>1, ExecuteKeeps, ExecuteBrings
  <2>3. CASE ShellStops
    <3>1. PICK raised \in BOOLEAN : Continues("shell", raised)
      BY <2>3 DEF ShellStops
    <3>2. PICK g \in Shells!Starts : Shells!Shutdown(g) \/ Shells!ShutdownRaises(g)
      BY <2>3 DEF ShellStops
    <3>3. \A h \in Shells!Starts : stopper[h] = 0 => stopper'[h] = 0
      BY <1>a, <3>2, ShellConstants DEF Shells!Shutdown, Shells!ShutdownRaises, Shells!Stopping,
         Shells!Shells, ShellInv, Shells!TypeOK
    <3>4. UNCHANGED <<shellStarts, securityVars>>
      BY <2>3 DEF ShellStops, Shells!Shutdown, Shells!ShutdownRaises
    <3>5. \A c \in Bundles : (Active(c) => Active(c)') /\ (EverStarted(c)' => EverStarted(c))
      BY <3>3, <3>4 DEF Active, EverStarted, Shells!Active, Shells!Starts, securityVars
    <3>6. "shell" \in Bundles BY DEF Bundles
    <3> QED BY <1>a, <1>b, <3>1, <3>5, <3>6, ContinuesKeeps, ContinuesBrings
  <2>4. CASE SecurityStops
    <3>1. Continues("security", FALSE) BY <2>4 DEF SecurityStops
    <3>2. bundle = "closing" /\ UNCHANGED <<shellVars, securityStarts>>
      BY <2>4 DEF SecurityStops, Security!Close
    <3>3. \A c \in Bundles : (Active(c) => Active(c)') /\ (EverStarted(c)' => EverStarted(c))
      BY <3>2 DEF Active, EverStarted, Shells!Active, shellVars, Bundles
    <3>4. "security" \in Bundles BY DEF Bundles
    <3> QED BY <1>a, <1>b, <3>1, <3>3, <3>4, ContinuesKeeps, ContinuesBrings
  <2>5. CASE \/ \E g \in Shells!Starts : ShellStarts(g)
             \/ \E t \in Threads : Login(t) \/ Queries(t)
             \/ UNCHANGED vars
    <3>1. UNCHANGED commandVars /\ UNCHANGED <<shellStarts, stopper, securityStarts, bundle>>
      BY <2>5 DEF ShellStarts, Login, Queries, vars, bundleVars, shellVars, securityVars,
         Shells!StartShell, Security!Login, Security!Asks, Security!DataSource,
         Security!GetConnection, Security!GetConnectionRaises, Security!Query,
         Security!Finally, Security!FinallyRaises, Security!bundleVars
    <3> QED BY <1>a, <1>b, <3>1 DEF commandVars, NoBadCommand, CommandTypes, CommandInv, ActiveInv,
           Restarting, Active, EverStarted, Shells!Active
  <2> QED BY <2>1, <2>2, <2>3, <2>4, <2>5 DEF Next
<1> QED BY <1>1, <1>2, <1>3 DEF NoBadCommand, Inv

LEMMA Invariance == Spec => []Inv
BY InitInv, Kept, PTL DEF Spec

\* Under the commands and beside the pools, the shells do what ShellActivator says.
THEOREM ImplementsShells == Spec => Shells!Spec
<1>1. Init => Shells!Init BY DEF Init
<1>2. [Next]_vars => [Shells!Next]_(Shells!vars) BY ShellStep DEF shellVars, Shells!vars
<1> QED BY <1>1, <1>2, PTL DEF Spec, Shells!Spec

\* Under the commands and beside the shells, the pools do what SecurityAccess says.
THEOREM ImplementsSecurity == Spec => Security!Spec
<1>1. Init => Security!Init BY DEF Init
<1>2. [Next]_vars => [Security!Next]_(Security!vars)
  BY SecurityStep DEF securityVars, Security!vars, Security!bundleVars, Security!poolVars,
     Security!threadVars
<1> QED BY <1>1, <1>2, PTL DEF Spec, Security!Spec

\* Every variable of the composition and of the two bundles keeps its type, for any
\* administrators, commands and bounds.
THEOREM TypeCorrect == Spec => []TypeOK
<1>1. Inv => TypeOK
  BY DEF Inv, CommandTypes, ShellInv, SecurityInv, TypeOK
<1> QED BY <1>1, Invariance, PTL

\* A stop that did not overlap the thread of its start leaves no shell listening,
\* whichever shell failed to start and whichever shutdown raised.
THEOREM ShellsStopCleanHolds == Spec => []ShellsStopClean
<1>1. Inv => ShellsStopClean
  BY ShellConstants DEF Inv, ShellInv, StartInv, ShutUpTo, ShellsStopClean, Shells!CleanStop,
     Shells!Listening, Shells!Over, Shells!Shells
<1> QED BY <1>1, Invariance, PTL

\* A pool is open after the stop of its bundle only if some login was late.
THEOREM PoolsStopCleanHolds == Spec => []PoolsStopClean
<1>1. Inv => PoolsStopClean
  BY DEF Inv, SecurityInv, Security!TypeOK, PoolInv, PoolsStopClean, Security!LeaksOnlyLate,
     Security!Passed, Security!Starts
<1> QED BY <1>1, Invariance, PTL

\* Every connection of a security pool is in the pool, with a query, or lost to a
\* statement that could not be closed.
THEOREM ConnectionsConservedHolds == Spec => []ConnectionsConserved
<1>1. Inv => ConnectionsConserved
  BY DEF Inv, SecurityInv, ConnectionsConserved
<1> QED BY <1>1, Invariance, PTL

\* When the last of any number of interleaved commands is done, every bundle that
\* was started, that no stop command named and no call raised for, is active.
THEOREM RestartComesBackHolds == Spec => []RestartComesBack
<1>1. Inv => RestartComesBack
  BY DEF Inv, ActiveInv, Restarting, RestartComesBack
<1> QED BY <1>1, Invariance, PTL


-----------------------------------------------------------------------------
(* Ports.  Only a stop that overlapped the thread of its start can leave a   *)
(* shell listening, so without one each start finds its ports free.         *)

\* The stop of every start but the last is over; a thread that has ended brought
\* up all its shells or met one that would not start; no port was taken.
PortInv ==
  /\ \A g \in Shells!Starts : g < shellStarts => stopper[g] = Shells!Over
  /\ \A g \in Shells!Starts : job[g] = Shells!Over /\ g <= shellStarts =>
       \/ \A k \in Shells!Shells : shell[g][k] \in {"listening", "shut"}
       \/ \E k \in Shells!Shells : shell[g][k] \in {"failed", "taken"}
  /\ overlaps = {} => \A g \in Shells!Starts : \A k \in Shells!Shells : shell[g][k] # "taken"

LEMMA PortInit == Shells!Init => PortInv
  BY ShellConstants DEF Shells!Init, PortInv, Shells!Starts, Shells!Shells, Shells!Over

\* The port a thread asks for is free of the shells of every other start.
LEMMA PortIsFree ==
  ASSUME ShellInv, PortInv, overlaps = {}, NEW g \in Shells!Starts, Shells!Starting(g)
  PROVE  Shells!PortFree(job[g])
<1> USE ShellConstants DEF Shells!Starts, Shells!Shells, Shells!Over
<1>a. Shells!TypeOK BY DEF ShellInv
<1>1. job[g] \in Shells!Shells /\ g \in Nat /\ shellStarts \in Nat
  BY <1>a DEF Shells!Starting, Shells!TypeOK
<1>2. stopper[g] = 0
  <2>1. stopper[g] \in Nat BY <1>a DEF Shells!TypeOK
  <2>2. ~(stopper[g] > 0) BY DEF ShellInv, StartInv
  <2> QED BY <2>1, <2>2
<1>3. g = shellStarts
  <2>1. ~(g < shellStarts) BY <1>2 DEF PortInv
  <2>2. ~(g > shellStarts) BY <1>1 DEF ShellInv, StartInv, Fresh
  <2> QED BY <1>1, <2>1, <2>2
<1> SUFFICES ASSUME NEW h \in Shells!Starts PROVE shell[h][job[g]] # "listening"
  BY DEF Shells!PortFree
<1>4. CASE h = g
  BY <1>1, <1>4 DEF ShellInv, StartInv, UpTo
<1>5. CASE h > shellStarts
  BY <1>1, <1>5 DEF ShellInv, StartInv, Fresh
<1>6. CASE h < shellStarts
  <2>1. stopper[h] = Shells!Over BY <1>6 DEF PortInv
  <2>2. job[g] < stopper[h] BY <1>1, <2>1
  <2> QED BY <1>1, <2>2 DEF ShellInv, StartInv, ShutUpTo
<1> QED BY <1>1, <1>3, <1>4, <1>5, <1>6

LEMMA PortKept ==
  ASSUME ShellInv, PortInv, [Shells!Next]_shellVars
  PROVE  PortInv'
<1> USE ShellConstants DEF Shells!Starts, Shells!Shells, Shells!Over
<1>a. Shells!TypeOK BY DEF ShellInv
<1>b. /\ shellStarts \in Nat
      /\ job \in [Shells!Starts -> 1 .. Shells!Over] /\ stopper \in [Shells!Starts -> 0 .. Shells!Over]
      /\ shell \in [Shells!Starts -> [Shells!Shells -> {"new", "listening", "failed", "taken", "shut"}]]
      /\ overlaps \subseteq Shells!Starts
  BY <1>a DEF Shells!TypeOK
<1>1. CASE Shells!Start
  <2>1. /\ shellStarts' = shellStarts + 1 /\ UNCHANGED <<shell, overlaps>>
        /\ job' = [job EXCEPT ![shellStarts + 1] = 1]
        /\ stopper' = [stopper EXCEPT ![shellStarts + 1] = 0]
        /\ \A h \in Shells!Starts : h = shellStarts => stopper[h] = Shells!Over
        /\ shellStarts + 1 \in Shells!Starts
    BY <1>1, <1>b DEF Shells!Start, Shells!Down
  <2>2. \A h \in Shells!Starts : h < shellStarts' => stopper'[h] = Shells!Over
    BY <1>b, <2>1 DEF PortInv
  <2>3. \A h \in Shells!Starts : job'[h] = Shells!Over /\ h <= shellStarts' => job[h] = Shells!Over /\ h <= shellStarts
    BY <1>b, <2>1
  <2> QED BY <2>1, <2>2, <2>3 DEF PortInv
<1>2. ASSUME NEW g \in Shells!Starts, Shells!StartShell(g) PROVE PortInv'
  <2> DEFINE k == job[g]
  <2>1. k \in Shells!Shells /\ UNCHANGED <<shellStarts, stopper, overlaps>> /\ Shells!Starting(g)
    BY <1>2 DEF Shells!StartShell, Shells!Starting
  <2>2. PICK s \in {"listening", "failed", "taken"} :
          /\ shell' = [shell EXCEPT ![g][k] = s]
          /\ job' = [job EXCEPT ![g] = IF s = "listening" THEN k + 1 ELSE Shells!Over]
          /\ s = "taken" => ~Shells!PortFree(k)
    BY <1>2 DEF Shells!StartShell, Shells!SetShell
  <2>3. /\ \A j \in Shells!Shells : shell'[g][j] = IF j = k THEN s ELSE shell[g][j]
        /\ job'[g] = IF s = "listening" THEN k + 1 ELSE Shells!Over
        /\ \A h \in Shells!Starts : h # g => job'[h] = job[h] /\ shell'[h] = shell[h]
    BY <1>b, <2>1, <2>2
  <2>4. job'[g] = Shells!Over => \/ \A j \in Shells!Shells : shell'[g][j] \in {"listening", "shut"}
                                 \/ \E j \in Shells!Shells : shell'[g][j] \in {"failed", "taken"}
    <3>1. CASE s = "listening"
      <4>1. \A j \in Shells!Shells : j < k => shell[g][j] \in {"listening", "shut"}
        BY <2>1 DEF ShellInv, StartInv, UpTo
      <4> QED BY <2>1, <2>3, <3>1, <4>1
    <3>2. CASE s # "listening" BY <2>1, <2>3, <3>2
    <3> QED BY <3>1, <3>2
  <2>5. overlaps = {} => s # "taken"
    BY <2>1, <2>2, PortIsFree
  <2>6. overlaps' = {} => \A h \in Shells!Starts : \A j \in Shells!Shells : shell'[h][j] # "taken"
    BY <2>1, <2>3, <2>5 DEF PortInv
  <2>7. \A h \in Shells!Starts : h < shellStarts' => stopper'[h] = Shells!Over
    BY <2>1 DEF PortInv
  <2>8. \A h \in Shells!Starts : job'[h] = Shells!Over /\ h <= shellStarts' =>
          \/ \A j \in Shells!Shells : shell'[h][j] \in {"listening", "shut"}
          \/ \E j \in Shells!Shells : shell'[h][j] \in {"failed", "taken"}
    BY <2>1, <2>3, <2>4 DEF PortInv
  <2> QED BY <2>6, <2>7, <2>8 DEF PortInv
<1>3. ASSUME NEW g \in Shells!Starts,
             Shells!Stop(g) \/ Shells!Shutdown(g) \/ Shells!ShutdownRaises(g)
      PROVE  PortInv'
  <2>1. /\ UNCHANGED <<shellStarts, job>> /\ overlaps \subseteq overlaps'
        /\ g < shellStarts => FALSE
        /\ \A h \in Shells!Starts : h # g => stopper'[h] = stopper[h]
    BY <1>3, <1>b DEF Shells!Stop, Shells!Shutdown, Shells!ShutdownRaises, Shells!Active,
       Shells!Stopping, PortInv
  <2>2. \A h \in Shells!Starts : \A j \in Shells!Shells :
          \/ shell'[h][j] = shell[h][j]
          \/ shell[h][j] = "listening" /\ shell'[h][j] = "shut"
    <3>1. CASE UNCHANGED shell BY <3>1
    <3>2. CASE shell[g][stopper[g]] = "listening" /\ Shells!SetShell(g, stopper[g], "shut")
      BY <1>b, <3>2 DEF Shells!SetShell
    <3> QED BY <1>3, <3>1, <3>2 DEF Shells!Stop, Shells!Shutdown, Shells!ShutdownRaises
  <2>3. \A h \in Shells!Starts : h < shellStarts' => stopper'[h] = Shells!Over
    BY <2>1 DEF PortInv
  <2>4. overlaps' = {} => \A h \in Shells!Starts : \A j \in Shells!Shells : shell'[h][j] # "taken"
    <3>1. overlaps' = {} => overlaps = {} BY <2>1
    <3> QED BY <2>2, <3>1 DEF PortInv
  <2>5. ASSUME NEW h \in Shells!Starts, job'[h] = Shells!Over, h <= shellStarts'
        PROVE  \/ \A j \in Shells!Shells : shell'[h][j] \in {"listening", "shut"}
               \/ \E j \in Shells!Shells : shell'[h][j] \in {"failed", "taken"}
    <3>1. \/ \A j \in Shells!Shells : shell[h][j] \in {"listening", "shut"}
          \/ \E j \in Shells!Shells : shell[h][j] \in {"failed", "taken"}
      BY <2>1, <2>5 DEF PortInv
    <3>2. CASE \A j \in Shells!Shells : shell[h][j] \in {"listening", "shut"}
      BY <2>2, <3>2
    <3>3. CASE \E j \in Shells!Shells : shell[h][j] \in {"failed", "taken"}
      <4>1. PICK j \in Shells!Shells : shell[h][j] \in {"failed", "taken"} BY <3>3
      <4>2. shell'[h][j] = shell[h][j] BY <2>2, <4>1
      <4> QED BY <4>1, <4>2
    <3> QED BY <3>1, <3>2, <3>3
  <2> QED BY <2>3, <2>4, <2>5 DEF PortInv
<1>4. CASE UNCHANGED shellVars
  BY <1>4 DEF shellVars, PortInv
<1> QED BY <1>1, <1>2, <1>3, <1>4 DEF Shells!Next

LEMMA PortInvariance == Spec => [](ShellInv /\ PortInv)
<1>1. Init => PortInv BY PortInit DEF Init
<1>2. Inv /\ PortInv /\ [Next]_vars => PortInv'
  BY ShellStep, PortKept DEF Inv
<1>3. Inv => ShellInv BY DEF Inv
<1> QED BY <1>1, <1>2, <1>3, Invariance, PTL DEF Spec

\* What ShellsComeUp waits for, as a state: when the thread of a start has ended and
\* its bundle is active, every shell listens unless one failed for a reason of its
\* own; a port was taken only after a stop that overlapped a starting thread.
ShellsCameUp ==
  /\ (\E g \in Shells!Starts : \E k \in Shells!Shells : shell[g][k] = "taken") => overlaps # {}
  /\ \A g \in Shells!Starts : Shells!Active(g) /\ ~Shells!Starting(g) =>
       \/ Shells!Listening(g) = Shells!Shells
       \/ \E k \in Shells!Shells : shell[g][k] = "failed"
       \/ overlaps # {}

THEOREM ShellsCameUpHolds == Spec => []ShellsCameUp
<1>1. ShellInv /\ PortInv => ShellsCameUp
  <2> USE ShellConstants DEF Shells!Starts, Shells!Shells, Shells!Over
  <2> SUFFICES ASSUME ShellInv, PortInv PROVE ShellsCameUp
    OBVIOUS
  <2>1. ASSUME NEW g \in Shells!Starts, Shells!Active(g), ~Shells!Starting(g), overlaps = {}
        PROVE  \/ Shells!Listening(g) = Shells!Shells
               \/ \E k \in Shells!Shells : shell[g][k] = "failed"
    <3>1. job[g] = Shells!Over /\ g <= shellStarts /\ stopper[g] = 0
      BY <2>1 DEF ShellInv, Shells!TypeOK, Shells!Active, Shells!Starting
    <3>2. \A k \in Shells!Shells : shell[g][k] # "shut"
      BY <3>1 DEF ShellInv, StartInv, ShutUpTo
    <3>3. \A k \in Shells!Shells : shell[g][k] # "taken"
      BY <2>1 DEF PortInv
    <3>4. \/ \A k \in Shells!Shells : shell[g][k] \in {"listening", "shut"}
          \/ \E k \in Shells!Shells : shell[g][k] \in {"failed", "taken"}
      BY <3>1 DEF PortInv
    <3> QED BY <3>2, <3>3, <3>4 DEF Shells!Listening
  <2> QED BY <2>1 DEF PortInv, ShellsCameUp
<1> QED BY <1>1, PortInvariance, PTL


-----------------------------------------------------------------------------
(* Whose call a stop is.  The framework lets one caller into a bundle's stop; *)
(* the last step of that stop has one caller to return to.                  *)

\* b is between the call of its stop and the end of it.
Halting(b) == IF b = "shell" THEN \E g \in Shells!Starts : Shells!Stopping(g)
                             ELSE bundle = "closing"

StopsOf(b) == {a \in Callers : doing[a] = "stopping" /\ Head(args[a]) = b}

HaltInv ==
  /\ \A a \in Callers : doing[a] = "stopping" => Head(args[a]) \in Bundles
  /\ \A b \in Bundles : Halting(b) <=> StopsOf(b) # {}
  /\ \A b \in Bundles : \A a, u \in StopsOf(b) : a = u

\* Only the last start of the shells can be stopping.
LEMMA LastStops ==
  ASSUME ShellInv, PortInv, NEW g \in Shells!Starts,
         Shells!Stopping(g) \/ Shells!Active(g)
  PROVE  /\ g = shellStarts
         /\ \A h \in Shells!Starts : h # g => stopper[h] = Shells!Over
<1> USE ShellConstants DEF Shells!Starts, Shells!Shells, Shells!Over
<1>1. shellStarts \in Nat /\ g \in Nat BY DEF ShellInv, Shells!TypeOK
<1>2. \A h \in Shells!Starts : h # shellStarts => stopper[h] = Shells!Over
  BY <1>1 DEF ShellInv, StartInv, Fresh, PortInv
<1>3. stopper[g] # Shells!Over \/ g = shellStarts
  BY DEF Shells!Stopping, Shells!Active
<1> QED BY <1>2, <1>3

\* A step in which no caller enters or leaves a stop.
LEMMA HaltFrame ==
  ASSUME HaltInv,
         \A b \in Bundles : Halting(b)' <=> Halting(b),
         \A a \in Callers : \/ doing'[a] # "stopping" /\ doing[a] # "stopping"
                            \/ doing'[a] = doing[a] /\ args'[a] = args[a]
  PROVE  HaltInv'
<1>1. \A b \in Bundles : StopsOf(b)' = StopsOf(b) BY DEF StopsOf
<1> QED BY <1>1 DEF HaltInv

LEMMA SameHalting ==
  ASSUME UNCHANGED <<stopper, bundle>>
  PROVE  \A b : Halting(b)' <=> Halting(b)
BY DEF Halting, Shells!Stopping, Shells!Starts

LEMMA NextArgNotStopping ==
  ASSUME CommandTypes, NEW a \in Callers, NextArg(a)
  PROVE  /\ doing'[a] # "stopping"
         /\ \A u \in Callers : u # a => doing'[u] = doing[u] /\ args'[u] = args[u]
BY DEF NextArg, CommandTypes, FirstCall

LEMMA AfterStopNotStopping ==
  ASSUME CommandTypes, NEW a \in Callers, AfterStop(a)
  PROVE  /\ doing'[a] # "stopping"
         /\ \A u \in Callers : u # a => doing'[u] = doing[u] /\ args'[u] = args[u]
BY NextArgNotStopping DEF AfterStop, CommandTypes

\* The call that begins the stop of b.
LEMMA HaltBegins ==
  ASSUME Inv, PortInv, HaltInv, NEW a \in Callers, CallStop(a)
  PROVE  HaltInv'
<1>0. PICK b : b = Head(args[a]) OBVIOUS
<1>a. CommandTypes /\ ShellInv BY DEF Inv
<1>1. /\ Stops(b) /\ args' = args /\ doing[a] = "stop"
      /\ doing' = [doing EXCEPT ![a] = "stopping"]
  BY <1>0 DEF CallStop, At
<1>2. b \in Bundles BY <1>1 DEF Stops, Bundles
<1>3. ~Halting(b) /\ Halting(b)' /\ \A c \in Bundles : c # b => (Halting(c)' <=> Halting(c))
  <2>1. ASSUME NEW g \in Shells!Starts, Shells!Stop(g), UNCHANGED securityVars, b = "shell"
        PROVE  ~Halting(b) /\ Halting(b)'
    <3>1. Shells!Active(g) /\ stopper' = [stopper EXCEPT ![g] = 1] BY <2>1 DEF Shells!Stop
    <3>2. \A h \in Shells!Starts : stopper[h] \in {0, Shells!Over}
      BY <1>a, <3>1, LastStops DEF Shells!Active
    <3>3. ~Halting(b)
      BY <2>1, <3>2, ShellConstants DEF Halting, Shells!Stopping, Shells!Shells, Shells!Over
    <3>4. stopper'[g] = 1 BY <1>a, <3>1 DEF ShellInv, Shells!TypeOK
    <3>5. Halting(b)'
      BY <2>1, <3>4, ShellConstants DEF Halting, Shells!Stopping, Shells!Shells, Shells!Starts
    <3> QED BY <3>3, <3>5
  <2>2. CASE b = "shell" /\ (\E g \in Shells!Starts : Shells!Stop(g)) /\ UNCHANGED securityVars
    <3>1. Halting("security")' <=> Halting("security") BY <2>2 DEF Halting, securityVars
    <3> QED BY <2>1, <2>2, <3>1 DEF Bundles
  <2>3. CASE b = "security" /\ Security!Stop /\ UNCHANGED shellVars
    <3>1. ~Halting(b) /\ Halting(b)' BY <2>3 DEF Halting, Security!Stop
    <3>2. Halting("shell")' <=> Halting("shell")
      BY <2>3 DEF Halting, shellVars, Shells!Stopping, Shells!Starts
    <3> QED BY <2>3, <3>1, <3>2 DEF Bundles
  <2> QED BY <1>1, <2>2, <2>3 DEF Stops
<1>4. /\ doing'[a] = "stopping" /\ \A u \in Callers : u # a => doing'[u] = doing[u]
      /\ Head(args'[a]) = b
  BY <1>a, <1>0, <1>1 DEF CommandTypes
<1>5. StopsOf(b) = {} BY <1>2, <1>3 DEF HaltInv
<1>6. StopsOf(b)' = {a} BY <1>1, <1>4, <1>5 DEF StopsOf
<1>7. \A c \in Bundles : c # b => StopsOf(c)' = StopsOf(c) BY <1>0, <1>1, <1>4 DEF StopsOf
<1>8. \A u \in Callers : doing'[u] = "stopping" => Head(args'[u]) \in Bundles
  BY <1>1, <1>2, <1>4 DEF HaltInv
<1> QED BY <1>2, <1>3, <1>5, <1>6, <1>7, <1>8 DEF HaltInv

\* A step of the stop of b, the last of which returns to its caller.
LEMMA HaltGoesOn ==
  ASSUME CommandTypes, HaltInv, NEW b \in Bundles, NEW raised \in BOOLEAN, Continues(b, raised),
         Halting(b)' <=> ~Stopped(b)', Halting(b),
         \A c \in Bundles : c # b => (Halting(c)' <=> Halting(c))
  PROVE  HaltInv'
<1>1. CASE ~Stopped(b)'
  <2>1. UNCHANGED commandVars BY <1>1 DEF Continues
  <2> QED BY <1>1, <2>1, HaltFrame DEF commandVars
<1>2. CASE Stopped(b)'
  <2>1. PICK a \in Callers : /\ doing[a] = "stopping" /\ Head(args[a]) = b
                             /\ IF raised THEN NextArg(a) ELSE AfterStop(a)
    BY <1>2 DEF Continues
  <2>2. /\ doing'[a] # "stopping"
        /\ \A u \in Callers : u # a => doing'[u] = doing[u] /\ args'[u] = args[u]
    BY <2>1, NextArgNotStopping, AfterStopNotStopping
  <2>3. a \in StopsOf(b) BY <2>1 DEF StopsOf
  <2>4. \A u \in StopsOf(b) : u = a BY <2>3 DEF HaltInv
  <2>5. StopsOf(b)' = {} BY <2>2, <2>4 DEF StopsOf
  <2>6. \A c \in Bundles : c # b => StopsOf(c)' = StopsOf(c) BY <2>1, <2>2 DEF StopsOf
  <2>7. \A u \in Callers : doing'[u] = "stopping" => Head(args'[u]) \in Bundles
    BY <2>2 DEF HaltInv
  <2> QED BY <1>2, <2>5, <2>6, <2>7 DEF HaltInv
<1> QED BY <1>1, <1>2

LEMMA HaltKept ==
  ASSUME Inv, PortInv, HaltInv, [Next]_vars
  PROVE  HaltInv'
<1>a. CommandTypes /\ ShellInv BY DEF Inv
<1>b. Shells!TypeOK BY <1>a DEF ShellInv
<1>1. ASSUME NEW a \in Callers, NextArg(a) \/ AfterStop(a), doing[a] # "stopping",
             \A b \in Bundles : Halting(b)' <=> Halting(b)
      PROVE  HaltInv'
  BY <1>1, <1>a, NextArgNotStopping, AfterStopNotStopping, HaltFrame
<1>2. ASSUME NEW a \in Callers, Command(a) PROVE HaltInv'
  <2>1. CASE NotFound(a)
    <3>1. UNCHANGED <<stopper, bundle>> /\ NextArg(a) BY <2>1 DEF NotFound, bundleVars, shellVars, securityVars
    <3>2. doing[a] # "stopping"
      BY <2>1 DEF NotFound, HaltInv, Unknown, Bundles
    <3> QED BY <1>1, <3>1, <3>2, SameHalting
  <2>2. CASE StartAgain(a) \/ StartRaises(a) \/ StopAgain(a)
    <3>1. UNCHANGED <<stopper, bundle>> /\ (NextArg(a) \/ AfterStop(a)) /\ doing[a] # "stopping"
      BY <2>2 DEF StartAgain, StartRaises, StopAgain, At, bundleVars, shellVars, securityVars
    <3> QED BY <1>1, <3>1, SameHalting
  <2>3. CASE CallStart(a)
    <3>1. Starts(Head(args[a])) /\ NextArg(a) /\ doing[a] = "start" BY <2>3 DEF CallStart, At
    <3>2. CASE Shells!Start /\ UNCHANGED securityVars
      <4>1. \A g \in Shells!Starts : Shells!Stopping(g)' <=> Shells!Stopping(g)
        <5>1. stopper' = [stopper EXCEPT ![shellStarts + 1] = 0]
          BY <3>2 DEF Shells!Start
        <5>2. \A g \in Shells!Starts : g > shellStarts => stopper[g] = Shells!Over
          BY <1>a DEF ShellInv, StartInv, Fresh
        <5>3. shellStarts + 1 > shellStarts BY <1>b, ShellConstants DEF Shells!TypeOK
        <5> QED BY <1>b, <5>1, <5>2, <5>3, ShellConstants
                DEF Shells!Stopping, Shells!Shells, Shells!Over, Shells!TypeOK
      <4>2. \A b \in Bundles : Halting(b)' <=> Halting(b)
        BY <3>2, <4>1 DEF Halting, securityVars, Shells!Starts
      <4> QED BY <1>1, <3>1, <4>2
    <3>3. CASE Security!Start /\ UNCHANGED shellVars
      <4>1. \A b \in Bundles : Halting(b)' <=> Halting(b)
        BY <3>3 DEF Halting, shellVars, Shells!Starts, Shells!Stopping, Security!Start
      <4> QED BY <1>1, <3>1, <4>1
    <3> QED BY <3>1, <3>2, <3>3 DEF Starts
  <2>4. CASE CallStop(a) BY <2>4, HaltBegins
  <2> QED BY <1>2, <2>1, <2>2, <2>3, <2>4 DEF Command
<1>3. ASSUME NEW a \in Admins, NEW c \in Commands, Execute(a, c) PROVE HaltInv'
  <2>1. a \in Callers BY DEF Callers
  <2>2. UNCHANGED <<stopper, bundle>> BY <1>3 DEF Execute, bundleVars, shellVars, securityVars
  <2>3. doing'[a] # "stopping" /\ doing[a] # "stopping"
        /\ \A u \in Callers : u # a => doing'[u] = doing[u] /\ args'[u] = args[u]
    BY <1>3, <1>a, <2>1 DEF Execute, CommandTypes, FirstCall
  <2> QED BY <2>2, <2>3, SameHalting, HaltFrame
<1>4. CASE ShellStops
  <2> USE ShellConstants DEF Shells!Shells, Shells!Over
  <2>1. PICK raised \in BOOLEAN, g \in Shells!Starts :
          /\ Continues("shell", raised)
          /\ Shells!Shutdown(g) \/ Shells!ShutdownRaises(g)
    BY <1>4 DEF ShellStops
  <2>2. /\ Shells!Stopping(g) /\ shellStarts' = shellStarts
        /\ stopper'[g] = stopper[g] + 1 \/ stopper'[g] = Shells!Over
        /\ \A h \in Shells!Starts : h # g => stopper'[h] = stopper[h]
    BY <1>b, <2>1 DEF Shells!Shutdown, Shells!ShutdownRaises, Shells!TypeOK
  <2>3. g = shellStarts /\ \A h \in Shells!Starts : h # g => stopper[h] = Shells!Over
    BY <1>a, <2>2, LastStops
  <2>4. Halting("shell") BY <2>2 DEF Halting
  <2>5. stopper'[g] \in Shells!Shells \/ stopper'[g] = Shells!Over
    BY <2>2 DEF Shells!Stopping
  <2>6. Stopped("shell")' <=> stopper'[g] = Shells!Over
    BY <2>2, <2>3 DEF Stopped, Shells!Down, Shells!Starts
  <2>7. Halting("shell")' <=> stopper'[g] \in Shells!Shells
    BY <2>2, <2>3 DEF Halting, Shells!Stopping, Shells!Starts
  <2>8. Halting("security")' <=> Halting("security")
    BY <1>4 DEF ShellStops, Halting, securityVars
  <2>9. Halting("shell")' <=> ~Stopped("shell")' BY <2>5, <2>6, <2>7
  <2> QED BY <1>a, <2>1, <2>4, <2>8, <2>9, HaltGoesOn DEF Bundles
<1>5. CASE SecurityStops
  <2>1. Continues("security", FALSE) /\ bundle = "closing" /\ bundle' = "stopped" /\ UNCHANGED shellVars
    BY <1>5 DEF SecurityStops, Security!Close
  <2>2. Halting("security") /\ ~Halting("security")' /\ Stopped("security")'
    BY <2>1 DEF Halting, Stopped
  <2>3. Halting("shell")' <=> Halting("shell")
    BY <2>1 DEF Halting, shellVars, Shells!Stopping, Shells!Starts
  <2> QED BY <1>a, <2>1, <2>2, <2>3, HaltGoesOn DEF Bundles
<1>6. CASE \/ \E g \in Shells!Starts : ShellStarts(g)
           \/ \E t \in Threads : Login(t) \/ Queries(t)
           \/ UNCHANGED vars
  <2>1. UNCHANGED commandVars /\ UNCHANGED <<stopper, bundle>>
    BY <1>6 DEF ShellStarts, Login, Queries, vars, bundleVars, shellVars, securityVars,
       Shells!StartShell, Security!Login, Security!Asks, Security!DataSource,
       Security!GetConnection, Security!GetConnectionRaises, Security!Query,
       Security!Finally, Security!FinallyRaises, Security!bundleVars
  <2> QED BY <2>1, SameHalting, HaltFrame DEF commandVars
<1> QED BY <1>2, <1>3, <1>4, <1>5, <1>6 DEF Next

LEMMA HaltInvariance == Spec => []HaltInv
<1>1. Init => HaltInv
  <2> SUFFICES ASSUME Init PROVE HaltInv
    OBVIOUS
  <2>1. \A a \in Callers : doing[a] # "stopping" BY DEF Init
  <2>2. \A b \in Bundles : ~Halting(b)
    BY ShellConstants DEF Init, Shells!Init, Security!Init, Halting, Shells!Stopping,
       Shells!Shells, Shells!Over, Shells!Starts
  <2> QED BY <2>1, <2>2 DEF HaltInv, StopsOf
<1>2. Inv /\ PortInv /\ HaltInv /\ [Next]_vars => HaltInv'
  BY HaltKept
<1> QED BY <1>1, <1>2, Invariance, PortInvariance, PTL DEF Spec

\* A stop under way is the call of exactly one command, which waits for that bundle,
\* and no command waits in a stop that is not under way: what CommandEnds needs for
\* its last step, and why two administrators never both return from one stop.
StopHasOneCaller ==
  \A b \in Bundles :
    /\ Halting(b) <=> \E a \in Callers : doing[a] = "stopping" /\ Head(args[a]) = b
    /\ \A a, u \in Callers :
         /\ doing[a] = "stopping" /\ Head(args[a]) = b
         /\ doing[u] = "stopping" /\ Head(args[u]) = b
         => a = u

THEOREM StopHasOneCallerHolds == Spec => []StopHasOneCaller
<1>1. HaltInv => StopHasOneCaller
  BY DEF HaltInv, StopsOf, StopHasOneCaller
<1> QED BY <1>1, HaltInvariance, PTL

\* Every bundle is at all times active, stopped or in a stop that one command makes:
\* a command that is about to start or stop it finds one of its guards true or waits
\* for another command's call, and nobody waits for a bundle that nobody moves.
NoBundleIsStuck ==
  \A b \in Bundles : Active(b) \/ Stopped(b) \/ StopsOf(b) # {}

THEOREM NoBundleIsStuckHolds == Spec => []NoBundleIsStuck
<1>1. Inv /\ HaltInv => NoBundleIsStuck
  <2> SUFFICES ASSUME Inv, HaltInv, NEW b \in Bundles, ~Active(b), ~Stopped(b)
               PROVE  Halting(b)
    BY DEF NoBundleIsStuck, HaltInv
  <2>1. CASE b = "security"
    BY <2>1 DEF Inv, SecurityInv, Security!TypeOK, Active, Stopped, Halting
  <2>2. CASE b = "shell"
    <3>1. PICK g \in Shells!Starts : g = shellStarts /\ stopper[g] # Shells!Over
      BY <2>2 DEF Stopped, Shells!Down
    <3>2. stopper[g] # 0 BY <2>2, <3>1 DEF Active, Shells!Active
    <3>3. stopper[g] \in 0 .. Shells!Over BY DEF Inv, ShellInv, Shells!TypeOK
    <3>4. Shells!Stopping(g)
      BY <3>1, <3>2, <3>3, ShellConstants DEF Shells!Stopping, Shells!Shells, Shells!Over
    <3> QED BY <2>2, <3>4 DEF Halting
  <2> QED BY <2>1, <2>2 DEF Bundles
<1> QED BY <1>1, Invariance, HaltInvariance, PTL

=============================================================================
