---------------------------- MODULE KernelBoot ----------------------------
(***************************************************************************)
(* The kernel: Main, ServerSetup and DynamyServer, run by several          *)
(* processes over one server directory.                                    *)
(*                                                                         *)
(* A process sets the directory up on its first start, file by file with   *)
(* the marker .initialized last, starts the OSGi framework and installs    *)
(* the bundles of initial.list.  It may be killed between any two steps,   *)
(* told to end by TERM or INT, and launched again; what is on disk, the    *)
(* files and the framework's bundle cache, outlives it.  Files and bundles *)
(* are numbered in the order in which the code treats them.                *)
(***************************************************************************)
EXTENDS Naturals

CONSTANTS
  Procs,        \* processes started in the server directory
  NoProc,       \* nobody has the bundle cache
  NFiles,       \* files that initialize copies; 1 is kernel.properties
  NBundles,     \* lines of initial.list; 1 is the handler of mvn: URLs
  Starts,       \* bundles listed with !start
  Levels,       \* bundles listed with a start level
  Mvn,          \* bundles with an mvn: URL
  Hanging,      \* bundles that may take more than a minute to stop
  MaxLaunches,  \* bound: launches of all processes
  MaxKills      \* bound: processes killed

Files   == 1 .. NFiles
Bundles == 1 .. NBundles

ASSUME ConstantsAssumption ==
  /\ NoProc \notin Procs
  /\ NFiles \in Nat \ {0}
  /\ NBundles \in Nat
  /\ Starts \subseteq Bundles /\ Levels \subseteq Bundles /\ Mvn \subseteq Bundles
  /\ Hanging \subseteq Bundles
  /\ MaxLaunches \in Nat /\ MaxKills \in Nat

VARIABLES
  disk,       \* file -> what is in the server directory
  marker,     \* does .initialized exist?
  installed, autostart, levelled,  \* the framework's bundle cache, on disk
  lock,       \* the process whose framework has the bundle cache
  running,    \* bundles active in that framework
  pc,         \* process -> where its main thread is
  mode,       \* process -> its argument
  next,       \* process -> the file or the bundle the main thread is at
  latch,      \* process -> has stopSignal been counted down?
  failed,     \* process -> bundles whose installation raised in this run
  fw,         \* process -> state of its framework
  jvm,        \* process -> how far its JVM has shut down
  launches, kills

cacheVars == <<installed, autostart, levelled>>
diskVars  == <<disk, marker>>
mainVars  == <<pc, next>>
bounds    == <<launches, kills>>
vars == <<diskVars, cacheVars, lock, running, mainVars, mode, latch, failed, fw, jvm, bounds>>

-----------------------------------------------------------------------------
(* A process.  The hook is registered by the initializer of Main once the  *)
(* server object exists, so a JVM that ends before simply goes down.       *)

SettingUp == {"check", "copy", "fill", "construct"}
Serving   == {"boot", "start", "install", "startBundle", "level", "await", "returned"}
Ended     == {"stopped", "dead"}

Running(p) == jvm[p] # "down" /\ pc[p] \notin Ended \cup {"returned"}

HasHook(p) == pc[p] \in Serving \cup Ended

\* Signal.handle has replaced the JVM's handling of INT, for good.
HasHandler(p) == mode[p] = "serve" /\ pc[p] \in (Serving \ {"boot"}) \cup {"dead"}

Goto(p, l) == pc' = [pc EXCEPT ![p] = l]

\* The JVM of p is gone, and its framework with it.
Gone(p) ==
  /\ Goto(p, "down")
  /\ next' = [next EXCEPT ![p] = 1]
  /\ latch' = [latch EXCEPT ![p] = FALSE]
  /\ failed' = [failed EXCEPT ![p] = {}]
  /\ fw' = [fw EXCEPT ![p] = "new"]
  /\ jvm' = [jvm EXCEPT ![p] = "down"]
  /\ lock' = IF lock = p THEN NoProc ELSE lock
  /\ running' = IF lock = p THEN {} ELSE running
  /\ mode' = [mode EXCEPT ![p] = "serve"]
  /\ UNCHANGED <<diskVars, cacheVars>>

Launch(p) ==
  /\ pc[p] = "down"
  /\ launches < MaxLaunches
  /\ launches' = launches + 1
  /\ \E m \in {"serve", "install"} : mode' = [mode EXCEPT ![p] = m]
  /\ Goto(p, "check")
  /\ jvm' = [jvm EXCEPT ![p] = "up"]
  /\ UNCHANGED <<diskVars, cacheVars, lock, running, next, latch, failed, fw, kills>>

\* The process is killed, or an error of the disk ends its set-up.
Kill(p) ==
  /\ jvm[p] # "down"
  /\ kills < MaxKills
  /\ kills' = kills + 1
  /\ Gone(p)
  /\ UNCHANGED launches

-----------------------------------------------------------------------------
(* ServerSetup.initialize, called by the initializer of Main.  An          *)
(* exception ends the process: no hook is registered yet.                  *)

fileStep == UNCHANGED <<cacheVars, lock, running, mode, latch, failed, fw, jvm, bounds>>

CheckInitMarking(p) ==
  /\ Running(p) /\ pc[p] = "check"
  /\ Goto(p, IF marker THEN "construct" ELSE "copy")
  /\ marker' = TRUE
  /\ UNCHANGED <<disk, next>> /\ fileStep

CheckInit(p) ==
  /\ Running(p) /\ pc[p] = "check"
  /\ Goto(p, IF marker THEN "construct" ELSE "copy")
  /\ UNCHANGED <<diskVars, next>> /\ fileStep

AtFile(p) == Running(p) /\ pc[p] = "copy" /\ next[p] \in Files

CopyCreateReplacing(p) ==
  /\ AtFile(p)
  /\ disk' = [disk EXCEPT ![next[p]] = "partial"]
  /\ Goto(p, "fill")
  /\ UNCHANGED <<marker, next>> /\ fileStep

CopyCreateSkipping(p) ==
  /\ AtFile(p)
  /\ IF disk[next[p]] = "absent"
     THEN disk' = [disk EXCEPT ![next[p]] = "partial"] /\ Goto(p, "fill") /\ UNCHANGED next
     ELSE next' = [next EXCEPT ![p] = @ + 1] /\ UNCHANGED <<disk, pc>>
  /\ UNCHANGED marker /\ fileStep

\* Files.copy creates the target and fills it; a target that exists raises.
CopyCreate(p) ==
  /\ AtFile(p)
  /\ disk[next[p]] = "absent"
  /\ disk' = [disk EXCEPT ![next[p]] = "partial"]
  /\ Goto(p, "fill")
  /\ UNCHANGED <<marker, next>> /\ fileStep

CopyFill(p) ==
  /\ Running(p) /\ pc[p] = "fill"
  /\ disk' = [disk EXCEPT ![next[p]] = "whole"]
  /\ next' = [next EXCEPT ![p] = @ + 1]
  /\ Goto(p, "copy")
  /\ UNCHANGED marker /\ fileStep

AllCopied(p) == Running(p) /\ pc[p] = "copy" /\ next[p] = NFiles + 1

CreateMarker(p) ==
  /\ AllCopied(p)
  /\ ~marker
  /\ marker' = TRUE
  /\ Goto(p, "construct")
  /\ next' = [next EXCEPT ![p] = 1]
  /\ UNCHANGED disk /\ fileStep

SetUpRaises(p) ==
  \/ AtFile(p) /\ disk[next[p]] # "absent"
  \/ AllCopied(p) /\ marker

SetUpFails(p) ==
  /\ SetUpRaises(p)
  /\ Gone(p)
  /\ UNCHANGED bounds

\* new DynamyServer reads kernel.properties; then the hook is registered.
Construct(p) ==
  /\ Running(p) /\ pc[p] = "construct"
  /\ Goto(p, "boot")
  /\ UNCHANGED <<diskVars, next>> /\ fileStep

Initialize(p) ==
  \/ CheckInit(p) \/ CopyCreate(p) \/ CopyFill(p) \/ CreateMarker(p)
  \/ SetUpFails(p) \/ Construct(p)

-----------------------------------------------------------------------------
(* main, DynamyServer.start and DynamyServer.install.                      *)

\* Signal.handle, or straight to install().
HandleSignals(p) ==
  /\ Running(p) /\ pc[p] = "boot"
  /\ Goto(p, "start")
  /\ UNCHANGED <<diskVars, next>> /\ fileStep

\* framework.start() takes the bundle cache and starts the bundles marked
\* there, those that can.
FrameworkStart(p) ==
  /\ Running(p) /\ pc[p] = "start"
  /\ lock = NoProc
  /\ lock' = p
  /\ fw' = [fw EXCEPT ![p] = "active"]
  /\ \E up \in SUBSET (installed \cap autostart) : running' = up
  /\ Goto(p, "install")
  /\ UNCHANGED <<diskVars, cacheVars, next, mode, latch, failed, jvm, bounds>>

\* Another process has the cache: start raises and main ends.
FrameworkLocked(p) ==
  /\ Running(p) /\ pc[p] = "start"
  /\ lock # NoProc
  /\ Goto(p, "dead")
  /\ UNCHANGED <<diskVars, next>> /\ fileStep

AtBundle(p, l) == Running(p) /\ pc[p] = l /\ next[p] \in Bundles

\* What is left to do for bundle b, or the next bundle.
Proceed(p, b, rest) ==
  LET l == IF "startBundle" \in rest /\ b \in Starts THEN "startBundle"
           ELSE IF "level" \in rest /\ b \in Levels THEN "level" ELSE "install"
  IN /\ Goto(p, l)
     /\ next' = IF l = "install" THEN [next EXCEPT ![p] = @ + 1] ELSE next

bundleStep == UNCHANGED <<diskVars, lock, mode, latch, fw, jvm, bounds>>

\* The handler of its URL is there.
Reachable(b) == b \in Mvn => 1 \in running

InstallBundleOnce(p) ==
  /\ AtBundle(p, "install")
  /\ LET b == next[p] IN
     /\ fw[p] # "stopped"
     /\ b \in installed \/ Reachable(b)
     /\ installed' = installed \cup {b}
     /\ Proceed(p, b, IF b \in installed THEN {} ELSE {"startBundle", "level"})
  /\ UNCHANGED <<autostart, levelled, running, failed>> /\ bundleStep

\* installBundle answers a bundle that is installed, without its URL.
InstallBundle(p) ==
  /\ AtBundle(p, "install")
  /\ LET b == next[p] IN
     /\ fw[p] # "stopped"
     /\ b \in installed \/ Reachable(b)
     /\ installed' = installed \cup {b}
     /\ Proceed(p, b, {"startBundle", "level"})
  /\ UNCHANGED <<autostart, levelled, running, failed>> /\ bundleStep

\* start() notes that the bundle is to be started, then starts it unless the
\* framework is on its way down.
StartBundle(p) ==
  /\ AtBundle(p, "startBundle")
  /\ fw[p] # "stopped"
  /\ autostart' = autostart \cup {next[p]}
  /\ running' = IF fw[p] = "active" THEN running \cup {next[p]} ELSE running
  /\ Proceed(p, next[p], {"level"})
  /\ UNCHANGED <<installed, levelled, failed>> /\ bundleStep

SetStartLevel(p) ==
  /\ AtBundle(p, "level")
  /\ fw[p] # "stopped"
  /\ levelled' = levelled \cup {next[p]}
  /\ Proceed(p, next[p], {})
  /\ UNCHANGED <<installed, autostart, running, failed>> /\ bundleStep

\* Download, resolution or the activator may fail, and anything on a framework
\* that is not active.
CanRaise(p) ==
  \/ AtBundle(p, "install") /\ (next[p] \notin installed \/ fw[p] # "active")
  \/ AtBundle(p, "startBundle") /\ (next[p] \notin running \/ fw[p] # "active")
  \/ AtBundle(p, "level") /\ fw[p] # "active"

BundleFailsEndingLoop(p) ==
  /\ CanRaise(p)
  /\ failed' = [failed EXCEPT ![p] = @ \cup {next[p]}]
  /\ Goto(p, "install")
  /\ next' = [next EXCEPT ![p] = NBundles + 1]
  /\ UNCHANGED <<cacheVars, running>> /\ bundleStep

\* The exception is caught and the loop goes on with the next bundle.
BundleFails(p) ==
  /\ CanRaise(p)
  /\ failed' = [failed EXCEPT ![p] = @ \cup {next[p]}]
  /\ autostart' = IF pc[p] = "startBundle" /\ fw[p] # "stopped"
                  THEN autostart \cup {next[p]} ELSE autostart
  /\ Goto(p, "install")
  /\ next' = [next EXCEPT ![p] = @ + 1]
  /\ UNCHANGED <<installed, levelled, running>> /\ bundleStep

BundlesDone(p) == Running(p) /\ pc[p] = "install" /\ next[p] = NBundles + 1

ServeNewLatch(p) ==
  /\ BundlesDone(p) /\ mode[p] = "serve"
  /\ Goto(p, "await")
  /\ latch' = [latch EXCEPT ![p] = FALSE]
  /\ UNCHANGED <<diskVars, cacheVars, lock, running, next, mode, failed, fw, jvm, bounds>>

\* start: drivers, then JMX, whose failure is caught; then stopSignal.await.
Serve(p) ==
  /\ BundlesDone(p) /\ mode[p] = "serve"
  /\ Goto(p, "await")
  /\ UNCHANGED <<diskVars, next>> /\ fileStep

\* Nobody catches what a driver raises: main ends, the bundles stay up.
DriversRaise(p) ==
  /\ BundlesDone(p) /\ mode[p] = "serve"
  /\ Goto(p, "dead")
  /\ UNCHANGED <<diskVars, next>> /\ fileStep

\* framework.stop() returns at once; on one that is not active it does nothing.
FrameworkStop(p) == fw' = [fw EXCEPT ![p] = IF @ = "active" THEN "stopping" ELSE @]

\* install: framework.stop, then System.exit, which waits for the hook.
Installed(p) ==
  /\ BundlesDone(p) /\ mode[p] = "install"
  /\ FrameworkStop(p)
  /\ jvm' = [jvm EXCEPT ![p] = IF @ = "up" THEN "exit" ELSE @]
  /\ Goto(p, "stopped")
  /\ UNCHANGED <<diskVars, cacheVars, lock, running, next, mode, latch, failed, bounds>>

Await(p) ==
  /\ Running(p) /\ pc[p] = "await"
  /\ latch[p]
  /\ Goto(p, "returned")
  /\ UNCHANGED <<diskVars, next>> /\ fileStep

Boot(p) ==
  \/ HandleSignals(p) \/ FrameworkStart(p) \/ FrameworkLocked(p)
  \/ InstallBundle(p) \/ StartBundle(p) \/ SetStartLevel(p) \/ BundleFails(p)
  \/ Serve(p) \/ DriversRaise(p) \/ Installed(p) \/ Await(p)

-----------------------------------------------------------------------------
(* Signals, the shutdown hook and the framework's own thread.              *)

stopStep == UNCHANGED <<diskVars, cacheVars, lock, running, mainVars, mode, latch, failed, bounds>>

\* INT with the handler in place: the latch.
Interrupt(p) ==
  /\ jvm[p] = "up" /\ HasHandler(p)
  /\ latch' = [latch EXCEPT ![p] = TRUE]
  /\ UNCHANGED <<diskVars, cacheVars, lock, running, mainVars, mode, failed, fw, jvm, bounds>>

\* TERM, INT without the handler, or the last thread of the program has ended:
\* the JVM runs the hook, if there is one, while main goes on.
Terminate(p) ==
  /\ jvm[p] = "up"
  /\ IF HasHook(p) THEN jvm' = [jvm EXCEPT ![p] = "exit"] /\ UNCHANGED fw /\ stopStep
     ELSE Gone(p) /\ UNCHANGED bounds

\* An exception has ended main before any bundle that keeps the JVM up.
MainDied(p) == pc[p] = "dead" /\ fw[p] = "new" /\ Terminate(p)

HookStopOnly(p) ==
  /\ jvm[p] = "exit"
  /\ Gone(p) /\ UNCHANGED bounds

\* The hook's dynamyServer.stop.  "early": there was nothing to stop yet.
HookStop(p) ==
  /\ jvm[p] = "exit"
  /\ FrameworkStop(p)
  /\ jvm' = [jvm EXCEPT ![p] = IF fw[p] = "new" THEN "early" ELSE "wait"]
  /\ stopStep

\* A bundle still active keeps the framework from stopping.
Hangs == running \cap Hanging # {}

FrameworkStopped(p) ==
  /\ fw[p] = "stopping"
  /\ fw' = [fw EXCEPT ![p] = "stopped"]
  /\ running' = {}
  /\ lock' = NoProc
  /\ UNCHANGED <<diskVars, cacheVars, mainVars, mode, latch, failed, jvm, bounds>>

Waiting(p) == jvm[p] \in {"early", "wait"}

\* waitForStop returns: the framework is stopped, or was never started.
HookReturns(p) ==
  /\ Waiting(p) /\ fw[p] \in {"new", "stopped"}
  /\ Gone(p) /\ UNCHANGED bounds

\* waitForStop(0).
HookTimeoutNever(p) == FALSE

\* waitForStop gives up after a minute.
HookTimeout(p) ==
  /\ Waiting(p)
  /\ fw[p] = "active" \/ (Hangs /\ fw[p] = "stopping")
  /\ Gone(p) /\ UNCHANGED bounds

Shutdown(p) == HookStop(p) \/ HookReturns(p) \/ HookTimeout(p)

-----------------------------------------------------------------------------
(* The administrator: edits a configuration file, clears the directory     *)
(* while nothing runs in it, stops or uninstalls a bundle from a shell of  *)
(* a server that has started.                                              *)

Edit ==
  /\ \E f \in Files : disk[f] = "whole" /\ disk' = [disk EXCEPT ![f] = "edited"]
  /\ UNCHANGED <<marker, cacheVars, lock, running, mainVars, mode, latch, failed, fw, jvm, bounds>>

Clear ==
  /\ \A p \in Procs : pc[p] = "down"
  /\ disk' = [f \in Files |-> "absent"]
  /\ marker' = FALSE
  /\ installed' = {} /\ autostart' = {} /\ levelled' = {}
  /\ UNCHANGED <<lock, running, mainVars, mode, latch, failed, fw, jvm, bounds>>

StopOrUninstall ==
  /\ \E p \in Procs : pc[p] = "await" /\ fw[p] = "active"
  /\ \E b \in Bundles :
       /\ running' = running \ {b}
       /\ autostart' = autostart \ {b}
       /\ installed' \in {installed, installed \ {b}}
       /\ levelled' = levelled \cap installed'
  /\ UNCHANGED <<diskVars, lock, mainVars, mode, latch, failed, fw, jvm, bounds>>

-----------------------------------------------------------------------------

Init ==
  /\ disk = [f \in Files |-> "absent"]
  /\ marker = FALSE
  /\ installed = {} /\ autostart = {} /\ levelled = {}
  /\ lock = NoProc /\ running = {}
  /\ pc = [p \in Procs |-> "down"]
  /\ mode = [p \in Procs |-> "serve"]
  /\ next = [p \in Procs |-> 1]
  /\ latch = [p \in Procs |-> FALSE]
  /\ failed = [p \in Procs |-> {}]
  /\ fw = [p \in Procs |-> "new"]
  /\ jvm = [p \in Procs |-> "down"]
  /\ launches = 0 /\ kills = 0

Next ==
  \/ \E p \in Procs :
       \/ Launch(p) \/ Kill(p)
       \/ Initialize(p) \/ Boot(p)
       \/ Interrupt(p) \/ Terminate(p) \/ Shutdown(p) \/ FrameworkStopped(p)
  \/ Edit \/ Clear \/ StopOrUninstall

Spec == Init /\ [][Next]_vars

\* A main thread runs, a JVM whose main died or that shuts down goes on with it,
\* and the framework ends its stop unless a bundle hangs for ever.
Fairness ==
  \A p \in Procs :
    /\ WF_vars(Initialize(p)) /\ WF_vars(Boot(p))
    /\ WF_vars(MainDied(p)) /\ WF_vars(Shutdown(p))
    /\ WF_vars(~Hangs /\ FrameworkStopped(p))

FairSpec == Spec /\ Fairness

-----------------------------------------------------------------------------
(* Properties.                                                             *)

Contents == {"absent", "partial", "whole", "edited"}

\* Types of the variables.
TypeOK ==
  /\ disk \in [Files -> Contents]
  /\ marker \in BOOLEAN
  /\ installed \subseteq Bundles /\ autostart \subseteq Bundles
  /\ levelled \subseteq Bundles /\ running \subseteq Bundles
  /\ lock \in Procs \cup {NoProc}
  /\ pc \in [Procs -> {"down"} \cup SettingUp \cup Serving \cup Ended]
  /\ mode \in [Procs -> {"serve", "install"}]
  /\ next \in [Procs -> Nat]
  /\ latch \in [Procs -> BOOLEAN]
  /\ failed \in [Procs -> SUBSET Bundles]
  /\ fw \in [Procs -> {"new", "active", "stopping", "stopped"}]
  /\ jvm \in [Procs -> {"down", "up", "exit", "early", "wait"}]
  /\ launches \in 0 .. MaxLaunches /\ kills \in 0 .. MaxKills

Complete == \A f \in Files : disk[f] \in {"whole", "edited"}

PastSetUp(p) == pc[p] \in {"construct"} \cup Serving \cup Ended

\* Whatever was killed and whoever else was setting up the same directory, a
\* directory that is marked as initialized, or that a server was built on, has
\* every file complete.
SetUpComplete == marker \/ (\E p \in Procs : PastSetUp(p)) => Complete

\* The program never overwrites a file the administrator has edited; only
\* clearing the directory removes it.
KeepsEdits ==
  [][\A f \in Files : disk[f] = "edited" => disk'[f] = "edited" \/ Clear]_vars

\* p has copied something and is not done.
Author(p) == pc[p] = "fill" \/ (pc[p] = "copy" /\ next[p] > 1)

\* A set-up that was cut short: a file without a marker and without its author.
Interrupted == disk[1] # "absent" /\ ~marker /\ \A p \in Procs : ~Author(p)

\* No process takes a set-up over that another one left, or joins one: initialize
\* raises at the first file, until the directory is cleared.
NeverResumed ==
  [][/\ Interrupted => Interrupted' \/ Clear
     /\ \A p, q \in Procs : Author(p) /\ Author(q)' => p = q]_vars

AsListed(b) ==
  /\ b \in installed
  /\ b \in Starts => b \in running /\ b \in autostart
  /\ b \in Levels => b \in levelled

\* When installBundles is through, every bundle that did not raise in this run is
\* as initial.list has it, whatever earlier runs left half done, other bundles
\* did, or an administrator stopped or uninstalled.
ListHonoured ==
  \A p \in Procs : BundlesDone(p) /\ fw[p] = "active" =>
    \A b \in Bundles \ failed[p] : AsListed(b)

\* A shutdown that finds the framework started stops all bundles before the JVM
\* goes down, also after install(), whose own stop does not wait.  For a JVM that
\* is not killed and while no bundle that may hang is active.
StopsBundles ==
  [][\A p \in Procs : /\ jvm[p] \in {"exit", "wait"} /\ jvm'[p] = "down"
                      /\ ~Hangs /\ kills' = kills
                      => lock # p]_vars

\* INT that the handler received is not forgotten, even if main was still
\* starting: main returns, ends, or the JVM goes down.
InterruptHeard == \A p \in Procs : latch[p] ~> pc[p] \notin Serving \ {"returned"}

\* A JVM that begins to shut down goes down, even if a bundle never stops.
GoesDown == \A p \in Procs : jvm[p] = "exit" ~> jvm[p] = "down"

=============================================================================
