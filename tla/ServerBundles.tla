--------------------------- MODULE ServerBundles ---------------------------
(***************************************************************************)
(* The shell and the security bundle under the commands osgi:start,         *)
(* osgi:stop and osgi:restart: administrators name bundles one after the    *)
(* other, the framework calls the activators of ShellActivator and of       *)
(* SecurityAccess, one caller at a time for each bundle, and the threads    *)
(* that these have started go on meanwhile.  Users log in through the       *)
(* shells that listen.                                                      *)
(***************************************************************************)
EXTENDS Naturals, Sequences, FiniteSets

CONSTANTS
  Kernel,       \* the thread of the kernel, which starts both bundles
  Admins,       \* threads that execute commands
  Commands,     \* [op, args]: the commands they may give
  MaxCommands,  \* bound: commands given
  NShells, Threads, Size, MaxStarts, MaxQueries

Ops     == {"start", "stop", "restart"}
Bundles == {"security", "shell"}
Unknown == "unknown"   \* an argument that names no bundle, or no number

Callers == Admins \cup {Kernel}
Console == 2           \* the dynamy shell, which takes these commands

VARIABLES
  op,        \* administrator -> the command under way
  args,      \* administrator -> its arguments, from the one it is at
  doing,     \* administrator -> the call it is at for that argument
  given,     \* commands given
  disturbed, \* history: bundles some stop command named or some call raised for
  shellStarts, job, stopper, shell, overlaps,
  securityStarts, bundle, toClose, dataSources, pool, free, lost, pc, access, late, queries

Shells   == INSTANCE ShellActivator WITH started <- shellStarts
Security == INSTANCE SecurityAccess WITH started <- securityStarts

ASSUME CommandsAssumption ==
  /\ Shells!ConstantsOK /\ Security!ConstantsOK
  /\ Kernel \notin Admins
  /\ MaxCommands \in Nat
  /\ \A c \in Commands : c.op \in Ops /\ c.args \in Seq(Bundles \cup {Unknown})

commandVars == <<op, args, doing, given, disturbed>>
shellVars == <<shellStarts, job, stopper, shell, overlaps>>
securityVars == <<securityStarts, bundle, toClose, dataSources, pool, free, lost, pc,
                  access, late, queries>>
bundleVars == <<shellVars, securityVars>>
vars == <<commandVars, bundleVars>>

Init ==
  /\ op = [a \in Callers |-> "start"]
  /\ args = [a \in Callers |-> IF a = Kernel THEN <<"security", "shell">> ELSE <<>>]
  /\ doing = [a \in Callers |-> IF a = Kernel THEN "start" ELSE "idle"]
  /\ given = 0
  /\ disturbed = {}
  /\ Shells!Init /\ Security!Init

-----------------------------------------------------------------------------
(* The framework's view of a bundle.                                       *)

Active(b) == IF b = "shell" THEN \E g \in Shells!Starts : Shells!Active(g)
                            ELSE bundle = "active"

Stopped(b) == IF b = "shell" THEN Shells!Down ELSE bundle = "stopped"

\* start and stop as the bundle's own code takes them.
Starts(b) ==
  \/ b = "shell" /\ Shells!Start /\ UNCHANGED securityVars
  \/ b = "security" /\ Security!Start /\ UNCHANGED shellVars

Stops(b) ==
  \/ b = "shell" /\ (\E g \in Shells!Starts : Shells!Stop(g)) /\ UNCHANGED securityVars
  \/ b = "security" /\ Security!Stop /\ UNCHANGED shellVars

-----------------------------------------------------------------------------
(* OsgiBundleCommand.execute: one argument after the other, whatever the    *)
(* one before has raised.                                                   *)

FirstCall(o) == IF o = "start" THEN "start" ELSE "stop"

\* To the next argument.
NextArg(a) ==
  /\ args' = [args EXCEPT ![a] = Tail(@)]
  /\ doing' = [doing EXCEPT ![a] = IF Len(args[a]) = 1 THEN "idle" ELSE FirstCall(op[a])]
  /\ UNCHANGED <<op, given>>

AfterStopNext(a) == NextArg(a)

\* executeBundle has come back from stop.
AfterStop(a) ==
  IF op[a] = "restart"
  THEN doing' = [doing EXCEPT ![a] = "start"] /\ UNCHANGED <<op, args, given>>
  ELSE NextArg(a)

Execute(a, c) ==
  /\ doing[a] = "idle" /\ given < MaxCommands /\ c.args # <<>>
  /\ \E g \in Shells!Starts : Console \in Shells!Listening(g)
  /\ given' = given + 1
  /\ op' = [op EXCEPT ![a] = c.op]
  /\ args' = [args EXCEPT ![a] = c.args]
  /\ doing' = [doing EXCEPT ![a] = FirstCall(c.op)]
  /\ disturbed' = IF c.op = "stop" THEN disturbed \cup {c.args[n] : n \in DOMAIN c.args}
                                   ELSE disturbed
  /\ UNCHANGED bundleVars

At(a, call) == doing[a] = call /\ Head(args[a]) # Unknown

NotFound(a) ==
  /\ doing[a] # "idle" /\ Head(args[a]) = Unknown
  /\ NextArg(a)
  /\ UNCHANGED <<disturbed, bundleVars>>

\* start of a bundle that is active does nothing.
StartAgain(a) ==
  /\ At(a, "start") /\ Active(Head(args[a]))
  /\ NextArg(a)
  /\ UNCHANGED <<disturbed, bundleVars>>

CallStart(a) ==
  /\ At(a, "start") /\ Starts(Head(args[a]))
  /\ NextArg(a)
  /\ UNCHANGED disturbed

\* A configuration that is wrong keeps a bundle from starting, a port of the shells
\* that is no number in the constructor of their activator.
StartRaises(a) ==
  /\ At(a, "start") /\ Stopped(Head(args[a]))
  /\ NextArg(a)
  /\ disturbed' = disturbed \cup {Head(args[a])}
  /\ UNCHANGED bundleVars

StopAgain(a) ==
  /\ At(a, "stop") /\ Stopped(Head(args[a]))
  /\ AfterStop(a)
  /\ UNCHANGED <<disturbed, bundleVars>>

CallStop(a) ==
  /\ At(a, "stop") /\ Stops(Head(args[a]))
  /\ doing' = [doing EXCEPT ![a] = "stopping"]
  /\ UNCHANGED <<op, args, given, disturbed>>

\* The stop of b goes on; with its last step the call returns to who made it.
Continues(b, raised) ==
  IF Stopped(b)'
  THEN \E a \in Callers :
         /\ doing[a] = "stopping" /\ Head(args[a]) = b
         /\ IF raised THEN NextArg(a) ELSE AfterStop(a)
         /\ disturbed' = IF raised THEN disturbed \cup {b} ELSE disturbed
  ELSE UNCHANGED commandVars

ShellStops ==
  /\ \E g \in Shells!Starts :
       \/ Shells!Shutdown(g) /\ Continues("shell", FALSE)
       \/ Shells!ShutdownRaises(g) /\ Continues("shell", TRUE)
  /\ UNCHANGED securityVars

SecurityStops ==
  /\ Security!Close
  /\ Continues("security", FALSE)
  /\ UNCHANGED shellVars

Command(a) ==
  \/ NotFound(a) \/ StartAgain(a) \/ CallStart(a) \/ StartRaises(a)
  \/ StopAgain(a) \/ CallStop(a)

-----------------------------------------------------------------------------
(* The threads of the bundles.                                             *)

ShellStarts(g) ==
  Shells!StartShell(g) /\ UNCHANGED <<commandVars, securityVars>>

\* Only a shell that listens lets a user in.
Login(t) ==
  /\ \E g \in Shells!Starts : Shells!Listening(g) # {}
  /\ Security!Login(t)
  /\ UNCHANGED <<commandVars, shellVars>>

Queries(t) ==
  Security!Asks(t) /\ UNCHANGED <<commandVars, shellVars>>

Next ==
  \/ \E a \in Callers : Command(a)
  \/ \E a \in Admins, c \in Commands : Execute(a, c)
  \/ ShellStops \/ SecurityStops
  \/ \E g \in Shells!Starts : ShellStarts(g)
  \/ \E t \in Threads : Login(t) \/ Queries(t)

Spec == Init /\ [][Next]_vars

Fairness ==
  /\ \A a \in Callers : WF_vars(Command(a))
  /\ WF_vars(ShellStops) /\ WF_vars(SecurityStops)
  /\ WF_vars(\E g \in Shells!Starts : ShellStarts(g))

FairSpec == Spec /\ Fairness

-----------------------------------------------------------------------------
(* Properties.                                                             *)

TypeOK ==
  /\ op \in [Callers -> Ops]
  /\ doing \in [Callers -> {"idle", "start", "stop", "stopping"}]
  /\ given \in 0 .. MaxCommands
  /\ disturbed \subseteq Bundles \cup {Unknown}
  /\ \A a \in Callers :
       /\ args[a] \in Seq(Bundles \cup {Unknown})
       /\ doing[a] = "idle" <=> args[a] = <<>>
  /\ Shells!TypeOK /\ Security!TypeOK

EverStarted(b) == (IF b = "shell" THEN shellStarts ELSE securityStarts) > 0

\* However the restarts of several administrators interleave, a bundle that was
\* started is active when the last of them is done, as long as no stop command
\* named it and no call on it raised.
RestartComesBack ==
  (\A a \in Callers : doing[a] = "idle") =>
    \A b \in Bundles \ disturbed : EverStarted(b) => Active(b)

\* Every command comes to its end: no bundle keeps it, whatever is raised.
CommandEnds == \A a \in Callers : doing[a] # "idle" ~> doing[a] = "idle"

ShellsStopClean == Shells!CleanStop
PoolsStopClean  == Security!LeaksOnlyLate
ConnectionsConserved == Security!Conserved
ShellsComeUp == Shells!ShellsComeUp

=============================================================================
