-------------------------- MODULE ShellActivator --------------------------
(***************************************************************************)
(* The activator of the shell bundle.  start hands the start of the three  *)
(* SSH shells to a thread of its own and returns; stop shuts them down in  *)
(* the thread that stops the bundle, whatever the other one is doing.      *)
(* The framework makes an activator for every start of the bundle, so the  *)
(* shells of two starts share nothing but their ports.                     *)
(***************************************************************************)
EXTENDS Naturals

CONSTANTS
  NShells,    \* shells of an activator: 1 is system, 2 dynamy, 3 scripting
  MaxStarts   \* bound: starts of the bundle

\* Assumed by the module that takes this one as an instance.
ConstantsOK == NShells \in Nat \ {0} /\ MaxStarts \in Nat

Shells == 1 .. NShells
Starts == 1 .. MaxStarts
Over   == NShells + 1

VARIABLES
  started,   \* starts of the bundle so far
  job,       \* start -> the shell its thread starts next, Over when it has ended
  stopper,   \* start -> the shell stop shuts down next; 0 before stop, Over after it
  shell,     \* start -> shell -> state of its SshServer
  overlaps   \* history: starts whose stop began while their thread was at work

vars == <<started, job, stopper, shell, overlaps>>

Init ==
  /\ started = 0
  /\ job = [g \in Starts |-> Over]
  /\ stopper = [g \in Starts |-> Over]
  /\ shell = [g \in Starts |-> [k \in Shells |-> "new"]]
  /\ overlaps = {}

Active(g)    == g = started /\ stopper[g] = 0
Stopping(g)  == stopper[g] \in Shells
Starting(g)  == job[g] \in Shells
Listening(g) == {k \in Shells : shell[g][k] = "listening"}

Down == \A g \in Starts : g = started => stopper[g] = Over

SetShell(g, k, s) == shell' = [shell EXCEPT ![g][k] = s]

-----------------------------------------------------------------------------
(* The two callbacks of the framework and the thread of the executor.      *)

\* Activator.start submits the thread.
Start ==
  /\ Down /\ started < MaxStarts
  /\ started' = started + 1
  /\ job' = [job EXCEPT ![started + 1] = 1]
  /\ stopper' = [stopper EXCEPT ![started + 1] = 0]
  /\ UNCHANGED <<shell, overlaps>>

PortFree(k) == \A h \in Starts : shell[h][k] # "listening"

StartShellGoingOn(g) ==
  /\ Starting(g)
  /\ \/ PortFree(job[g]) /\ SetShell(g, job[g], "listening")
     \/ SetShell(g, job[g], IF PortFree(job[g]) THEN "failed" ELSE "taken")
  /\ job' = [job EXCEPT ![g] = @ + 1]
  /\ UNCHANGED <<started, stopper, overlaps>>

\* start of the next shell.  It raises when the port is taken, or for a reason
\* of its own; the exception ends the thread and is kept in the Future that
\* nobody asks.
StartShell(g) ==
  /\ Starting(g)
  /\ LET k == job[g] IN
     \/ /\ PortFree(k)
        /\ SetShell(g, k, "listening")
        /\ job' = [job EXCEPT ![g] = k + 1]
     \/ /\ SetShell(g, k, IF PortFree(k) THEN "failed" ELSE "taken")
        /\ job' = [job EXCEPT ![g] = Over]
  /\ UNCHANGED <<started, stopper, overlaps>>

\* Activator.stop is called.
Stop(g) ==
  /\ Active(g)
  /\ stopper' = [stopper EXCEPT ![g] = 1]
  /\ overlaps' = IF Starting(g) THEN overlaps \cup {g} ELSE overlaps
  /\ UNCHANGED <<started, job, shell>>

ShutdownNothing(g) ==
  /\ Stopping(g)
  /\ stopper' = [stopper EXCEPT ![g] = @ + 1]
  /\ UNCHANGED <<started, job, shell, overlaps>>

Shutdown(g) ==
  /\ Stopping(g)
  /\ LET k == stopper[g] IN
     IF shell[g][k] = "listening" THEN SetShell(g, k, "shut") ELSE UNCHANGED shell
  /\ stopper' = [stopper EXCEPT ![g] = @ + 1]
  /\ UNCHANGED <<started, job, overlaps>>

\* stop of a server that does not listen may raise, which ends Activator.stop.
\* The bundle is stopped all the same.
ShutdownRaises(g) ==
  /\ Stopping(g) /\ shell[g][stopper[g]] # "listening"
  /\ stopper' = [stopper EXCEPT ![g] = Over]
  /\ UNCHANGED <<started, job, shell, overlaps>>

Next ==
  \/ Start
  \/ \E g \in Starts : Stop(g) \/ StartShell(g) \/ Shutdown(g) \/ ShutdownRaises(g)

Spec == Init /\ [][Next]_vars

-----------------------------------------------------------------------------
(* Properties.                                                             *)

TypeOK ==
  /\ started \in 0 .. MaxStarts
  /\ job \in [Starts -> 1 .. Over]
  /\ stopper \in [Starts -> 0 .. Over]
  /\ shell \in [Starts -> [Shells -> {"new", "listening", "failed", "taken", "shut"}]]
  /\ overlaps \subseteq Starts

\* After a stop that did not overlap the starting thread, no shell of that start
\* listens, even when one of them failed to start and shutting another down
\* raised: start and stop go through the shells in one order.
CleanStop == \A g \in Starts :
  stopper[g] = Over /\ g \notin overlaps => Listening(g) = {}

\* A start brings up all the shells, unless one of them cannot start for a reason
\* of its own or the bundle is told to stop.  It never finds a port taken by a shell
\* of an earlier start, except after a stop that overlapped a starting thread.
ShellsComeUp == \A g \in Starts :
  (g = started /\ Starting(g)) ~>
    \/ Listening(g) = Shells
    \/ \E k \in Shells : shell[g][k] = "failed"
    \/ ~Active(g)
    \/ overlaps # {}

=============================================================================
