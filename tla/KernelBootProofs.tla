------------------------- MODULE KernelBootProofs -------------------------
(***************************************************************************)
(* Theorems about KernelBoot, for any number of processes, files and       *)
(* bundles: the types, what a set-up leaves on disk, that the list of      *)
(* bundles is honoured, and that bundles are stopped before the JVM ends.  *)
(***************************************************************************)
EXTENDS KernelBoot, TLAPS

Booting == {"down", "check", "construct", "boot", "start"}
Looping == {"install", "startBundle", "level"}

\* The definitions that say what a step leaves alone.
USE DEF Goto, fileStep, bundleStep, stopStep, mainVars, cacheVars, diskVars, bounds

-----------------------------------------------------------------------------
(* Types.                                                                  *)

\* A JVM that goes down leaves values of the right types.
LEMMA GoneType ==
  ASSUME TypeOK, NEW p \in Procs, Gone(p), UNCHANGED launches, kills' \in 0 .. MaxKills
  PROVE  TypeOK'
  BY DEF TypeOK, Gone, Contents, SettingUp, Serving, Ended

\* Every variable keeps its type.
THEOREM TypeCorrect == Spec => []TypeOK
<1> USE ConstantsAssumption DEF ConstantsAssumption
<1>1. Init => TypeOK
  <2> SUFFICES ASSUME Init PROVE TypeOK
    OBVIOUS
  <2> USE DEF Init, Contents, SettingUp, Serving, Ended
  <2>1. disk \in [Files -> Contents] /\ marker \in BOOLEAN
    OBVIOUS
  <2>2. pc \in [Procs -> {"down"} \cup SettingUp \cup Serving \cup Ended]
    OBVIOUS
  <2>3. mode \in [Procs -> {"serve", "install"}] /\ latch \in [Procs -> BOOLEAN]
    OBVIOUS
  <2>4. next \in [Procs -> Nat] /\ failed \in [Procs -> SUBSET Bundles]
    OBVIOUS
  <2>5. /\ fw \in [Procs -> {"new", "active", "stopping", "stopped"}]
        /\ jvm \in [Procs -> {"down", "up", "exit", "early", "wait"}]
    OBVIOUS
  <2>6. launches \in 0 .. MaxLaunches /\ kills \in 0 .. MaxKills
    OBVIOUS
  <2> QED BY <2>1, <2>2, <2>3, <2>4, <2>5, <2>6 DEF TypeOK
<1>2. TypeOK /\ [Next]_vars => TypeOK'
  <2> SUFFICES ASSUME TypeOK, [Next]_vars PROVE TypeOK'
    OBVIOUS
  <2> USE DEF Contents, SettingUp, Serving, Ended
  <2>1. ASSUME NEW p \in Procs, Launch(p) PROVE TypeOK'
    BY <2>1 DEF TypeOK, Launch
  <2>2. ASSUME NEW p \in Procs, Kill(p) PROVE TypeOK'
    <3>1. kills' \in 0 .. MaxKills
      BY <2>2 DEF Kill, TypeOK
    <3> QED BY <2>2, <3>1, GoneType DEF Kill
  <2>3. ASSUME NEW p \in Procs, Initialize(p) PROVE TypeOK'
    <3>1. CASE CheckInit(p) BY <3>1 DEF TypeOK, CheckInit
    <3>2. CASE CopyCreate(p) BY <3>2 DEF TypeOK, CopyCreate
    <3>3. CASE CopyFill(p)
      <4>1. next' \in [Procs -> Nat] BY <3>3 DEF TypeOK, CopyFill
      <4>2. disk' \in [Files -> Contents] BY <3>3 DEF TypeOK, CopyFill
      <4> QED BY <3>3, <4>1, <4>2 DEF TypeOK, CopyFill
    <3>4. CASE CreateMarker(p) BY <3>4 DEF TypeOK, CreateMarker
    <3>5. CASE SetUpFails(p)
      BY <3>5, GoneType DEF SetUpFails, TypeOK
    <3>6. CASE Construct(p) BY <3>6 DEF TypeOK, Construct
    <3> QED BY <2>3, <3>1, <3>2, <3>3, <3>4, <3>5, <3>6 DEF Initialize
  <2>4. ASSUME NEW p \in Procs, Boot(p) PROVE TypeOK'
    <3>1. CASE HandleSignals(p) BY <3>1 DEF TypeOK, HandleSignals
    <3>2. CASE FrameworkStart(p) BY <3>2 DEF TypeOK, FrameworkStart
    <3>3. CASE FrameworkLocked(p) BY <3>3 DEF TypeOK, FrameworkLocked
    <3>4. CASE InstallBundle(p) BY <3>4 DEF TypeOK, InstallBundle, Proceed, AtBundle
    <3>5. CASE StartBundle(p) BY <3>5 DEF TypeOK, StartBundle, Proceed, AtBundle
    <3>6. CASE SetStartLevel(p) BY <3>6 DEF TypeOK, SetStartLevel, Proceed, AtBundle
    <3>7. CASE BundleFails(p) BY <3>7 DEF TypeOK, BundleFails, CanRaise, AtBundle
    <3>8. CASE Serve(p) \/ DriversRaise(p) BY <3>8 DEF TypeOK, Serve, DriversRaise
    <3>9. CASE Installed(p) BY <3>9 DEF TypeOK, Installed, FrameworkStop
    <3>10. CASE Await(p) BY <3>10 DEF TypeOK, Await
    <3> QED BY <2>4, <3>1, <3>2, <3>3, <3>4, <3>5, <3>6, <3>7, <3>8, <3>9, <3>10 DEF Boot
  <2>5. ASSUME NEW p \in Procs, Interrupt(p) PROVE TypeOK'
    BY <2>5 DEF TypeOK, Interrupt
  <2>6. ASSUME NEW p \in Procs, Terminate(p) PROVE TypeOK'
    <3>1. CASE HasHook(p) BY <3>1, <2>6 DEF TypeOK, Terminate
    <3>2. CASE ~HasHook(p) BY <3>2, <2>6, GoneType DEF TypeOK, Terminate
    <3> QED BY <3>1, <3>2
  <2>7. ASSUME NEW p \in Procs, Shutdown(p) PROVE TypeOK'
    <3>1. CASE HookStop(p) BY <3>1 DEF TypeOK, HookStop, FrameworkStop
    <3>2. CASE HookReturns(p) \/ HookTimeout(p)
      BY <3>2, GoneType DEF TypeOK, HookReturns, HookTimeout
    <3> QED BY <2>7, <3>1, <3>2 DEF Shutdown
  <2>8. ASSUME NEW p \in Procs, FrameworkStopped(p) PROVE TypeOK'
    BY <2>8 DEF TypeOK, FrameworkStopped
  <2>9. CASE Edit BY <2>9 DEF TypeOK, Edit
  <2>10. CASE Clear BY <2>10 DEF TypeOK, Clear
  <2>11. CASE StopOrUninstall BY <2>11 DEF TypeOK, StopOrUninstall
  <2>12. CASE UNCHANGED vars BY <2>12 DEF TypeOK, vars
  <2> QED
    BY <2>1, <2>2, <2>3, <2>4, <2>5, <2>6, <2>7, <2>8, <2>9, <2>10, <2>11, <2>12 DEF Next
<1> QED BY <1>1, <1>2, PTL DEF Spec

-----------------------------------------------------------------------------
(* What a set-up leaves on disk.                                           *)

Good == {"whole", "edited"}

\* The files p is past are complete.
Prefix(p) == \A f \in Files : f < next[p] => disk[f] \in Good

\* The inductive invariant.  A process that has copied something is alone: every
\* other one is stopped by the file 1 it finds there.
SetUpInv ==
  /\ marker => Complete
  /\ \A p \in Procs : PastSetUp(p) => marker
  /\ \A p \in Procs : Author(p) => ~marker /\ disk[1] # "absent"
  /\ \A p, q \in Procs : Author(p) /\ Author(q) => p = q
  /\ \A p \in Procs : pc[p] = "copy" => next[p] \in 1 .. NFiles + 1 /\ Prefix(p)
  /\ \A p \in Procs : pc[p] = "fill" => next[p] \in Files /\ disk[next[p]] = "partial" /\ Prefix(p)
  /\ \A p \in Procs : pc[p] \in {"down", "check"} => next[p] = 1

\* A step of one process that leaves the disk alone and is past the set-up, or
\* before its first file.
LEMMA SetUpFrame ==
  ASSUME TypeOK, TypeOK', SetUpInv, UNCHANGED diskVars,
         NEW p \in Procs,
         \A q \in Procs \ {p} : pc'[q] = pc[q] /\ next'[q] = next[q],
         \/ pc'[p] \in {"construct"} \cup Serving \cup Ended /\ marker
         \/ pc'[p] \in {"down", "check", "copy"} /\ next'[p] = 1
  PROVE  SetUpInv' /\ \A q \in Procs : Author(q)' => Author(q)
<1> USE ConstantsAssumption DEF ConstantsAssumption, Files
<1>1. ~Author(p)'
  BY DEF Author, Serving, Ended
<1>2. \A q \in Procs \ {p} :
        /\ Author(q)' <=> Author(q)
        /\ PastSetUp(q)' <=> PastSetUp(q)
        /\ Prefix(q)' <=> Prefix(q)
  BY DEF Author, PastSetUp, Prefix
<1>3. pc'[p] = "copy" => next'[p] \in 1 .. NFiles + 1 /\ Prefix(p)'
  BY DEF Prefix, Serving, Ended
<1>4. PastSetUp(p)' => marker'
  BY DEF PastSetUp, Serving, Ended
<1>5. pc'[p] # "fill" /\ (pc'[p] \in {"down", "check"} => next'[p] = 1)
  BY DEF Serving, Ended
<1>6. /\ marker' <=> marker
      /\ disk' = disk
      /\ Complete' <=> Complete
  BY DEF Complete
<1>7. (marker => Complete)' /\ \A q \in Procs : PastSetUp(q)' => marker'
  BY <1>2, <1>4, <1>6 DEF SetUpInv
<1>8. /\ \A q \in Procs : Author(q)' => ~marker' /\ disk'[1] # "absent"
      /\ \A q, r \in Procs : Author(q)' /\ Author(r)' => q = r
  BY <1>1, <1>2, <1>6 DEF SetUpInv
<1>9. \A q \in Procs : pc'[q] = "copy" => next'[q] \in 1 .. NFiles + 1 /\ Prefix(q)'
  BY <1>2, <1>3 DEF SetUpInv
<1>10. \A q \in Procs :
         pc'[q] = "fill" => next'[q] \in Files /\ disk'[next'[q]] = "partial" /\ Prefix(q)'
  BY <1>2, <1>5, <1>6 DEF SetUpInv
<1>11. \A q \in Procs : pc'[q] \in {"down", "check"} => next'[q] = 1
  BY <1>2, <1>5 DEF SetUpInv
<1> QED BY <1>1, <1>2, <1>7, <1>8, <1>9, <1>10, <1>11 DEF SetUpInv

\* Where the disk is written or main moves between two files.
FileWork(p) == CopyCreate(p) \/ CopyFill(p) \/ CreateMarker(p)
DiskWork == (\E p \in Procs : FileWork(p)) \/ Edit \/ Clear

\* Every other step is one that SetUpFrame covers.
LEMMA SetUpElsewhere ==
  ASSUME TypeOK, TypeOK', SetUpInv, [Next]_vars, ~DiskWork
  PROVE  SetUpInv' /\ \A q \in Procs : Author(q)' => Author(q)
<1> USE ConstantsAssumption DEF ConstantsAssumption
<1>1. ASSUME NEW p \in Procs, Launch(p) \/ Kill(p) PROVE SetUpInv' /\ \A q \in Procs : Author(q)' => Author(q)
  <2>1. pc'[p] \in {"down", "check", "copy"} /\ next'[p] = 1
    BY <1>1 DEF Launch, Kill, Gone, TypeOK, SetUpInv
  <2>2. UNCHANGED diskVars /\ \A q \in Procs \ {p} : pc'[q] = pc[q] /\ next'[q] = next[q]
    BY <1>1 DEF Launch, Kill, Gone, TypeOK
  <2> QED BY <2>1, <2>2, SetUpFrame
<1>2. ASSUME NEW p \in Procs, CheckInit(p) PROVE SetUpInv' /\ \A q \in Procs : Author(q)' => Author(q)
  <2>1. \/ pc'[p] = "construct" /\ marker
        \/ pc'[p] = "copy" /\ next'[p] = 1
    BY <1>2 DEF CheckInit, TypeOK, SetUpInv
  <2>2. UNCHANGED diskVars /\ \A q \in Procs \ {p} : pc'[q] = pc[q] /\ next'[q] = next[q]
    BY <1>2 DEF CheckInit, TypeOK
  <2> QED BY <2>1, <2>2, SetUpFrame
<1>3. ASSUME NEW p \in Procs, Gone(p) PROVE SetUpInv' /\ \A q \in Procs : Author(q)' => Author(q)
  <2>1. pc'[p] = "down" /\ next'[p] = 1
    BY <1>3 DEF Gone, TypeOK
  <2>2. UNCHANGED diskVars /\ \A q \in Procs \ {p} : pc'[q] = pc[q] /\ next'[q] = next[q]
    BY <1>3 DEF Gone, TypeOK
  <2> QED BY <2>1, <2>2, SetUpFrame
<1>4. ASSUME NEW p \in Procs, Construct(p) PROVE SetUpInv' /\ \A q \in Procs : Author(q)' => Author(q)
  <2>1. marker /\ pc'[p] \in Serving
    BY <1>4 DEF Construct, SetUpInv, PastSetUp, TypeOK, Serving
  <2>2. UNCHANGED diskVars /\ \A q \in Procs \ {p} : pc'[q] = pc[q] /\ next'[q] = next[q]
    BY <1>4 DEF Construct, TypeOK
  <2> QED BY <2>1, <2>2, SetUpFrame
<1>5. ASSUME NEW p \in Procs, Boot(p) PROVE SetUpInv' /\ \A q \in Procs : Author(q)' => Author(q)
  <2>1. pc[p] \in Serving /\ pc'[p] \in Serving \cup Ended
    BY <1>5 DEF Boot, HandleSignals, FrameworkStart, FrameworkLocked, InstallBundle, StartBundle,
                SetStartLevel, BundleFails, CanRaise, Serve, DriversRaise, Installed, Await, BundlesDone, AtBundle,
                Proceed, TypeOK, Serving, Ended
  <2>2. marker
    BY <2>1 DEF SetUpInv, PastSetUp
  <2>3. UNCHANGED diskVars
    BY <1>5 DEF Boot, HandleSignals, FrameworkStart, FrameworkLocked, InstallBundle, StartBundle,
                SetStartLevel, BundleFails, Serve, DriversRaise, Installed, Await
  <2>4. \A q \in Procs \ {p} : pc'[q] = pc[q] /\ next'[q] = next[q]
    BY <1>5 DEF Boot, HandleSignals, FrameworkStart, FrameworkLocked, InstallBundle, StartBundle,
                SetStartLevel, BundleFails, Serve, DriversRaise, Installed, Await, Proceed, TypeOK
  <2> QED BY <2>1, <2>2, <2>3, <2>4, SetUpFrame
<1>6. ASSUME UNCHANGED <<diskVars, mainVars>> PROVE SetUpInv' /\ \A q \in Procs : Author(q)' => Author(q)
  <2>1. disk' = disk /\ marker' = marker /\ pc' = pc /\ next' = next
    BY <1>6
  <2> QED BY <2>1 DEF SetUpInv, Complete, PastSetUp, Author, Prefix
<1>7. ASSUME NEW p \in Procs, Initialize(p), ~FileWork(p)
      PROVE  SetUpInv' /\ \A q \in Procs : Author(q)' => Author(q)
  BY <1>2, <1>3, <1>4, <1>7 DEF Initialize, SetUpFails, FileWork
<1>8. ASSUME NEW p \in Procs, Interrupt(p) \/ Terminate(p) \/ Shutdown(p) \/ FrameworkStopped(p)
      PROVE  SetUpInv' /\ \A q \in Procs : Author(q)' => Author(q)
  <2>1. CASE Gone(p) BY <2>1, <1>3
  <2>2. CASE ~Gone(p)
    <3>1. UNCHANGED <<diskVars, mainVars>>
      BY <1>8, <2>2 DEF Interrupt, Terminate, Shutdown, HookStop, HookReturns, HookTimeout, FrameworkStopped
    <3> QED BY <3>1, <1>6
  <2> QED BY <2>1, <2>2
<1>9. ASSUME StopOrUninstall \/ UNCHANGED vars PROVE SetUpInv' /\ \A q \in Procs : Author(q)' => Author(q)
  BY <1>6, <1>9 DEF StopOrUninstall, vars
<1> QED BY <1>1, <1>5, <1>7, <1>8, <1>9 DEF Next, DiskWork, FileWork

\* Nothing else writes to the disk or the marker.
LEMMA SetUpDisk ==
  ASSUME [Next]_vars, ~DiskWork
  PROVE  UNCHANGED diskVars
  BY DEF Next, DiskWork, FileWork, Initialize, Boot, Shutdown, Launch, Kill, Gone, CheckInit, SetUpFails,
         Construct, HandleSignals, FrameworkStart, FrameworkLocked, InstallBundle, StartBundle,
         SetStartLevel, BundleFails, Serve, DriversRaise, Installed, Await, Interrupt, Terminate, HookStop, HookReturns,
         HookTimeout, FrameworkStopped, StopOrUninstall, stopStep, vars

\* The first file exists only once: who creates it found nobody at work.
LEMMA CreateAlone ==
  ASSUME TypeOK, SetUpInv, NEW p \in Procs, CopyCreate(p)
  PROVE  /\ ~marker
         /\ \A q \in Procs : Author(q) => q = p
  <1> USE ConstantsAssumption DEF ConstantsAssumption, Files
  <1>1. next[p] \in Files /\ disk[next[p]] = "absent" /\ pc[p] = "copy"
    BY DEF CopyCreate, AtFile
  <1>2. ~marker
    BY <1>1 DEF SetUpInv, Complete
  <1>3. ASSUME NEW q \in Procs, Author(q) PROVE q = p
    <2>1. disk[1] # "absent"
      BY <1>3 DEF SetUpInv
    <2>2. next[p] # 1
      BY <2>1, <1>1
    <2>3. Author(p)
      BY <2>2, <1>1 DEF Author
    <2> QED BY <2>3, <1>3 DEF SetUpInv
  <1> QED BY <1>2, <1>3

\* Files.copy creating a file keeps SetUpInv: its process is alone.
LEMMA SetUpCreate ==
  ASSUME TypeOK, TypeOK', SetUpInv, NEW p \in Procs, CopyCreate(p)
  PROVE  SetUpInv'
  <1> USE ConstantsAssumption DEF ConstantsAssumption, Files
  <1>1. /\ next[p] \in Files /\ disk[next[p]] = "absent" /\ pc[p] = "copy"
        /\ pc' = [pc EXCEPT ![p] = "fill"] /\ next' = next
        /\ disk' = [disk EXCEPT ![next[p]] = "partial"] /\ marker' = marker
    BY DEF CopyCreate, AtFile
  <1>2. ~marker /\ \A q \in Procs : Author(q) => q = p
    BY CreateAlone
  <1>3. \A q \in Procs \ {p} : pc'[q] = pc[q] /\ ~Author(q) /\ ~Author(q)' /\ ~PastSetUp(q)'
    BY <1>1, <1>2 DEF Author, SetUpInv, PastSetUp, TypeOK
  <1>4. pc'[p] = "fill" /\ disk'[next[p]] = "partial" /\ ~PastSetUp(p)'
    BY <1>1 DEF TypeOK, PastSetUp, Serving, Ended
  <1>5. Prefix(p)'
    BY <1>1 DEF Prefix, SetUpInv, TypeOK
  <1>6. disk'[1] # "absent"
    <2>1. 1 \in Files /\ next[p] \in Nat /\ disk \in [Files -> Contents]
      BY DEF TypeOK
    <2>2. CASE next[p] = 1
      BY <1>1, <2>1, <2>2
    <2>3. CASE 1 < next[p]
      <3>1. disk'[1] \in Good
        BY <1>1, <1>5, <2>1, <2>3 DEF Prefix
      <3> QED BY <3>1 DEF Good
    <2> QED BY <2>1, <2>2, <2>3, <1>1
  <1>7. \A q \in Procs \ {p} : pc'[q] = "copy" => next'[q] = 1
    BY <1>1, <1>3 DEF Author, SetUpInv, TypeOK
  <1>8. \A q \in Procs : pc'[q] = "copy" => next'[q] \in 1 .. NFiles + 1 /\ Prefix(q)'
    BY <1>4, <1>7 DEF Prefix
  <1>9. \A q \in Procs :
          pc'[q] = "fill" => next'[q] \in Files /\ disk'[next'[q]] = "partial" /\ Prefix(q)'
    BY <1>1, <1>3, <1>4, <1>5 DEF Author
  <1>10. \A q \in Procs : pc'[q] \in {"down", "check"} => next'[q] = 1
    BY <1>1, <1>3, <1>4 DEF SetUpInv
  <1> QED BY <1>1, <1>2, <1>3, <1>4, <1>6, <1>8, <1>9, <1>10 DEF SetUpInv

\* Files.copy filling the file keeps SetUpInv.
LEMMA SetUpFill ==
  ASSUME TypeOK, TypeOK', SetUpInv, NEW p \in Procs, CopyFill(p)
  PROVE  SetUpInv'
  <1> USE ConstantsAssumption DEF ConstantsAssumption, Files
  <1>1. /\ next[p] \in Files /\ pc[p] = "fill" /\ Author(p)
        /\ pc' = [pc EXCEPT ![p] = "copy"] /\ next' = [next EXCEPT ![p] = @ + 1]
        /\ disk' = [disk EXCEPT ![next[p]] = "whole"] /\ marker' = marker
    BY DEF CopyFill, SetUpInv, Author
  <1>2. ~marker /\ disk[1] # "absent" /\ \A q \in Procs : Author(q) => q = p
    BY <1>1 DEF SetUpInv
  <1>3. \A q \in Procs \ {p} :
          pc'[q] = pc[q] /\ next'[q] = next[q] /\ ~Author(q)' /\ ~PastSetUp(q)'
    BY <1>1, <1>2 DEF Author, SetUpInv, PastSetUp, TypeOK
  <1>4. pc'[p] = "copy" /\ next'[p] = next[p] + 1 /\ ~PastSetUp(p)'
    BY <1>1 DEF TypeOK, PastSetUp, Serving, Ended
  <1>5. next'[p] \in 1 .. NFiles + 1 /\ Prefix(p)'
    BY <1>1, <1>4 DEF Prefix, SetUpInv, TypeOK, Good
  <1>6. disk'[1] # "absent"
    BY <1>1, <1>2 DEF TypeOK
  <1>7. \A q \in Procs \ {p} : pc'[q] = "copy" => next'[q] = 1
    BY <1>3 DEF Author, SetUpInv, TypeOK
  <1>8. \A q \in Procs : pc'[q] = "copy" => next'[q] \in 1 .. NFiles + 1 /\ Prefix(q)'
    BY <1>4, <1>5, <1>7 DEF Prefix
  <1>9. \A q \in Procs : pc'[q] # "fill"
    BY <1>3, <1>4 DEF Author
  <1>10. \A q \in Procs : pc'[q] \in {"down", "check"} => next'[q] = 1
    BY <1>3, <1>4 DEF SetUpInv
  <1> QED BY <1>1, <1>2, <1>3, <1>4, <1>6, <1>8, <1>9, <1>10 DEF SetUpInv

\* The marker is created when every file is behind its only author.
LEMMA SetUpMark ==
  ASSUME TypeOK, TypeOK', SetUpInv, NEW p \in Procs, CreateMarker(p)
  PROVE  SetUpInv'
  <1> USE ConstantsAssumption DEF ConstantsAssumption, Files
  <1>1. /\ pc[p] = "copy" /\ next[p] = NFiles + 1 /\ Author(p)
        /\ pc' = [pc EXCEPT ![p] = "construct"] /\ next' = [next EXCEPT ![p] = 1]
        /\ disk' = disk /\ marker'
    BY DEF CreateMarker, AllCopied, Author
  <1>2. \A q \in Procs : Author(q) => q = p
    BY <1>1 DEF SetUpInv
  <1>3. Complete'
    BY <1>1 DEF SetUpInv, Prefix, Complete, Good
  <1>4. \A q \in Procs : ~Author(q)'
    BY <1>1, <1>2 DEF Author, TypeOK
  <1>5. \A q \in Procs \ {p} : pc'[q] = pc[q] /\ next'[q] = next[q] /\ (Prefix(q)' <=> Prefix(q))
    BY <1>1 DEF TypeOK, Prefix
  <1>6. pc'[p] = "construct"
    BY <1>1 DEF TypeOK
  <1> QED BY <1>1, <1>3, <1>4, <1>5, <1>6 DEF SetUpInv, Author

\* The administrator's steps.
LEMMA SetUpAdmin ==
  ASSUME TypeOK, TypeOK', SetUpInv, Edit \/ Clear
  PROVE  SetUpInv'
  <1> USE ConstantsAssumption DEF ConstantsAssumption, Files
  <1>1. CASE Edit
    <2>1. /\ pc' = pc /\ next' = next /\ marker' = marker
          /\ \A f \in Files : \/ disk'[f] = disk[f]
                              \/ disk[f] = "whole" /\ disk'[f] = "edited"
      BY <1>1 DEF Edit, TypeOK
    <2>2. \A q \in Procs : /\ Author(q)' <=> Author(q)
                           /\ PastSetUp(q)' <=> PastSetUp(q)
                           /\ Prefix(q) => Prefix(q)'
      BY <2>1 DEF Author, PastSetUp, Prefix, Good
    <2>3. (Complete => Complete') /\ (disk[1] # "absent" => disk'[1] # "absent")
      BY <2>1 DEF Complete
    <2>4. \A f \in Files : disk[f] = "partial" => disk'[f] = "partial"
      BY <2>1
    <2> QED BY <2>1, <2>2, <2>3, <2>4 DEF SetUpInv
  <1>2. CASE Clear
    <2>1. ~marker' /\ \A q \in Procs : pc'[q] = "down" /\ next'[q] = 1
      BY <1>2 DEF Clear, SetUpInv
    <2> QED BY <2>1 DEF SetUpInv, Author, PastSetUp, Serving, Ended
  <1> QED BY <1>1, <1>2

\* SetUpInv holds in every state.
LEMMA SetUpInvariant == Spec => [](TypeOK /\ SetUpInv)
<1>1. Init => SetUpInv
  <2> SUFFICES ASSUME Init PROVE SetUpInv
    OBVIOUS
  <2>1. ~marker /\ \A p \in Procs : pc[p] = "down" /\ next[p] = 1
    BY DEF Init
  <2> QED BY <2>1 DEF SetUpInv, Author, PastSetUp, Serving, Ended
<1>2. TypeOK /\ TypeOK' /\ SetUpInv /\ [Next]_vars => SetUpInv'
  BY SetUpElsewhere, SetUpCreate, SetUpFill, SetUpMark, SetUpAdmin DEF DiskWork, FileWork
<1> QED BY <1>1, <1>2, TypeCorrect, PTL DEF Spec

\* A directory that is marked as initialized, or that a server was built on, is
\* complete, however many processes set it up and wherever they were killed.
THEOREM SetUpIsComplete == Spec => []SetUpComplete
<1>1. SetUpInv => SetUpComplete
  BY DEF SetUpInv, SetUpComplete
<1> QED BY <1>1, SetUpInvariant, PTL

\* An edited file is kept: a copy is only ever made into a file that its own
\* process created a step before.
THEOREM EditsAreKept == Spec => KeepsEdits
<1> DEFINE Keeps == \A f \in Files : disk[f] = "edited" => disk'[f] = "edited" \/ Clear
<1>1. TypeOK /\ SetUpInv /\ [Next]_vars => [Keeps]_vars
  <2> SUFFICES ASSUME TypeOK, SetUpInv, Next PROVE Keeps
    BY DEF vars
  <2>1. ASSUME NEW p \in Procs, FileWork(p) PROVE Keeps
    BY <2>1 DEF FileWork, CopyCreate, CopyFill, CreateMarker, AtFile, SetUpInv, TypeOK
  <2>2. CASE Edit BY <2>2 DEF Edit, TypeOK
  <2>3. CASE Clear BY <2>3
  <2>4. CASE ~DiskWork
    <3>1. disk' = disk
      BY <2>4, SetUpDisk
    <3> QED BY <3>1
  <2> QED BY <2>1, <2>2, <2>3, <2>4 DEF DiskWork
<1> QED BY <1>1, SetUpInvariant, PTL DEF Spec, KeepsEdits

\* An interrupted set-up stays as it is, and nobody joins one that is under way.
THEOREM SetUpIsNeverResumed == Spec => NeverResumed
<1> DEFINE Stays == /\ Interrupted => Interrupted' \/ Clear
                    /\ \A p, q \in Procs : Author(p) /\ Author(q)' => p = q
<1>1. TypeOK /\ TypeOK' /\ SetUpInv /\ SetUpInv' /\ [Next]_vars => [Stays]_vars
  <2> SUFFICES ASSUME TypeOK, TypeOK', SetUpInv, SetUpInv', Next PROVE Stays
    BY DEF vars
  <2>1. ASSUME NEW r \in Procs, CopyCreate(r) PROVE Stays
    <3>1. ~Interrupted
      BY <2>1 DEF Interrupted, CopyCreate, AtFile, Author, SetUpInv, TypeOK, Files
    <3>2. Author(r)' /\ \A p \in Procs : Author(p) => p = r
      BY <2>1, CreateAlone DEF CopyCreate, Author, TypeOK
    <3> QED BY <3>1, <3>2 DEF SetUpInv
  <2>2. ASSUME NEW r \in Procs, CopyFill(r) \/ CreateMarker(r) PROVE Stays
    <3>1. Author(r)
      BY <2>2, ConstantsAssumption DEF ConstantsAssumption, CopyFill, CreateMarker, AllCopied, Author
    <3>2. \A q \in Procs : Author(q)' => Author(q)
      BY <2>2, <3>1 DEF CopyFill, CreateMarker, Author, TypeOK
    <3> QED BY <3>1, <3>2 DEF Interrupted, SetUpInv
  <2>3. CASE Edit \/ Clear
    <3>1. \A q \in Procs : Author(q)' <=> Author(q)
      BY <2>3 DEF Edit, Clear, Author
    <3>2. Edit /\ disk[1] # "absent" => disk'[1] # "absent"
      BY <2>3 DEF Edit, TypeOK
    <3>3. Edit => marker' = marker
      BY DEF Edit
    <3> QED BY <2>3, <3>1, <3>2, <3>3 DEF Interrupted, SetUpInv
  <2>4. CASE ~DiskWork
    <3>1. disk' = disk /\ marker' = marker
      BY <2>4, SetUpDisk
    <3>2. \A q \in Procs : Author(q)' => Author(q)
      BY <2>4, SetUpElsewhere
    <3> QED BY <3>1, <3>2 DEF Interrupted, SetUpInv
  <2> QED BY <2>1, <2>2, <2>3, <2>4 DEF DiskWork, FileWork
<1> QED BY <1>1, SetUpInvariant, PTL DEF Spec, NeverResumed

-----------------------------------------------------------------------------
(* The list of bundles.                                                    *)

\* What the loop of installBundles has done up to the bundle it is at.
Done(p) ==
  /\ \A b \in Bundles : b < next[p] => b \in failed[p] \/ AsListed(b)
  /\ pc[p] \in {"startBundle", "level"} => next[p] \in installed
  /\ pc[p] = "level" /\ next[p] \in Starts => next[p] \in running /\ next[p] \in autostart

Progress(p) == pc[p] \in Looping /\ fw[p] = "active" => Done(p)

\* The inductive invariant.  A framework that is up has the cache for itself,
\* and so nobody takes back what the loop has done.
ListInv ==
  /\ \A p \in Procs : fw[p] \in {"active", "stopping"} => lock = p
  /\ \A p \in Procs : pc[p] \in Booting => next[p] = 1
  /\ \A p \in Procs : Progress(p)

\* What others do while the loop of p stands still.
LEMMA DoneFrame ==
  ASSUME NEW p \in Procs, Progress(p),
         pc'[p] = pc[p], next'[p] = next[p], failed'[p] = failed[p],
         fw'[p] = "active" => fw[p] = "active",
         installed \subseteq installed', autostart \subseteq autostart', levelled \subseteq levelled',
         fw[p] = "active" => running \subseteq running'
  PROVE  Progress(p)'
  BY DEF Progress, Done, AsListed

\* Steps that only touch p's place in the code, or bring its JVM down.
LEMMA ListFrame ==
  ASSUME TypeOK, TypeOK', ListInv, NEW p \in Procs,
         \A q \in Procs \ {p} : /\ pc'[q] = pc[q] /\ next'[q] = next[q]
                                /\ failed'[q] = failed[q] /\ fw'[q] = fw[q],
         UNCHANGED cacheVars,
         \A q \in Procs \ {p} : lock = q => lock' = q /\ running' = running,
         fw'[p] \in {"active", "stopping"} => lock' = p,
         pc'[p] \in Booting => next'[p] = 1,
         Progress(p)'
  PROVE  ListInv'
<1>1. \A q \in Procs \ {p} : fw'[q] \in {"active", "stopping"} => lock' = q
  BY DEF ListInv
<1>2. \A q \in Procs \ {p} : pc'[q] \in Booting => next'[q] = 1
  BY DEF ListInv
<1>3. ASSUME NEW q \in Procs \ {p} PROVE Progress(q)'
  <2>1. fw[q] = "active" => running' = running
    BY DEF ListInv
  <2>2. Progress(q)
    BY DEF ListInv
  <2> QED BY <2>1, <2>2, DoneFrame
<1> QED BY <1>1, <1>2, <1>3 DEF ListInv

\* A JVM that goes down takes its framework along.
LEMMA ListGone ==
  ASSUME TypeOK, TypeOK', ListInv, NEW p \in Procs, Gone(p)
  PROVE  ListInv'
<1>1. \A q \in Procs \ {p} : /\ pc'[q] = pc[q] /\ next'[q] = next[q]
                             /\ failed'[q] = failed[q] /\ fw'[q] = fw[q]
  BY DEF Gone, TypeOK
<1>2. pc'[p] = "down" /\ next'[p] = 1 /\ fw'[p] = "new"
  BY DEF Gone, TypeOK
<1>3. \A q \in Procs \ {p} : lock = q => lock' = q /\ running' = running
  BY DEF Gone
<1> QED BY <1>1, <1>2, <1>3, ListFrame DEF Gone, Progress, Looping

\* The loop goes on with what rest says, or with the next bundle.
LEMMA ListProceed ==
  ASSUME TypeOK, TypeOK', ListInv, NEW p \in Procs, NEW rest,
         AtBundle(p, pc[p]), pc[p] \in Looping, Proceed(p, next[p], rest), bundleStep,
         failed' = failed,
         installed \subseteq installed', autostart \subseteq autostart', levelled \subseteq levelled',
         fw[p] # "active" => running' = running,
         running \subseteq running',
         fw[p] = "active" => next[p] \in installed',
         "startBundle" \notin rest /\ fw[p] = "active" /\ next[p] \in Starts
           => next[p] \in running' /\ next[p] \in autostart',
         "level" \notin rest /\ next[p] \in Levels => next[p] \in levelled'
  PROVE  ListInv'
<1> USE ConstantsAssumption DEF ConstantsAssumption
<1>1. next[p] \in Bundles /\ next[p] \in Nat
  BY DEF AtBundle, TypeOK
<1>2. \A q \in Procs \ {p} : pc'[q] = pc[q] /\ next'[q] = next[q]
  BY DEF Proceed, TypeOK
<1>3. pc'[p] \in Looping
  BY DEF Proceed, Looping, TypeOK
<1>4. ASSUME NEW q \in Procs \ {p} PROVE Progress(q)'
  <2>1. Progress(q)
    BY DEF ListInv
  <2> QED BY <1>2, <2>1, DoneFrame
<1>5. ASSUME fw[p] = "active" PROVE Done(p)'
  <2>1. \A b \in Bundles : b < next[p] => b \in failed'[p] \/ AsListed(b)'
    BY <1>5 DEF ListInv, Progress, Done, AsListed
  <2>2. CASE pc'[p] = "startBundle" /\ next'[p] = next[p]
    BY <1>5, <2>1, <2>2 DEF Done
  <2>3. CASE pc'[p] = "level" /\ next'[p] = next[p] /\ (next[p] \in Starts => "startBundle" \notin rest)
    BY <1>5, <2>1, <2>3 DEF Done
  <2>4. CASE /\ pc'[p] = "install" /\ next'[p] = next[p] + 1
             /\ (next[p] \in Starts => "startBundle" \notin rest)
             /\ (next[p] \in Levels => "level" \notin rest)
    <3>1. \A b \in Bundles : b = next[p] => AsListed(b)'
      BY <1>5, <2>4 DEF AsListed
    <3>2. \A b \in Bundles : b < next[p] + 1 => b < next[p] \/ b = next[p]
      BY <1>1 DEF Bundles
    <3>3. \A b \in Bundles : b < next'[p] => b \in failed'[p] \/ AsListed(b)'
      BY <2>1, <2>4, <3>1, <3>2
    <3> QED BY <3>3, <2>4 DEF Done
  <2> QED BY <2>2, <2>3, <2>4, <1>1 DEF Proceed, TypeOK
<1>6. Progress(p)'
  BY <1>3, <1>5 DEF Progress
<1>7. \A q \in Procs : pc'[q] \in Booting => next'[q] = 1
  BY <1>2, <1>3 DEF ListInv, Looping, Booting
<1> QED BY <1>4, <1>6, <1>7 DEF ListInv

\* The catch of installBundles: the bundle counts as failed.
LEMMA ListBundleFails ==
  ASSUME TypeOK, TypeOK', ListInv, NEW p \in Procs, BundleFails(p)
  PROVE  ListInv'
<1> USE ConstantsAssumption DEF ConstantsAssumption
<1>1. /\ next[p] \in Bundles /\ next[p] \in Nat
      /\ pc'[p] = "install" /\ next'[p] = next[p] + 1 /\ failed'[p] = failed[p] \cup {next[p]}
      /\ pc[p] \in Looping
  BY DEF BundleFails, CanRaise, AtBundle, TypeOK, Looping
<1>2. \A q \in Procs \ {p} : pc'[q] = pc[q] /\ next'[q] = next[q] /\ failed'[q] = failed[q]
  BY DEF BundleFails, TypeOK
<1>3. /\ installed' = installed /\ levelled' = levelled /\ running' = running
      /\ autostart \subseteq autostart' /\ fw' = fw /\ lock' = lock
  BY DEF BundleFails
<1>4. ASSUME NEW q \in Procs \ {p} PROVE Progress(q)'
  <2>1. Progress(q)
    BY DEF ListInv
  <2> QED BY <1>2, <1>3, <2>1, DoneFrame
<1>5. ASSUME fw[p] = "active" PROVE Done(p)'
  <2>1. \A b \in Bundles : b < next[p] => b \in failed[p] \/ AsListed(b)
    BY <1>1, <1>5 DEF ListInv, Progress, Done
  <2>2. \A b \in Bundles : AsListed(b) => AsListed(b)'
    BY <1>3 DEF AsListed
  <2>3. \A b \in Bundles : b < next[p] + 1 => b < next[p] \/ b = next[p]
    BY <1>1 DEF Bundles
  <2> QED BY <1>1, <2>1, <2>2, <2>3 DEF Done
<1>6. Progress(p)'
  BY <1>3, <1>5 DEF Progress
<1>7. \A q \in Procs : pc'[q] \in Booting => next'[q] = 1
  BY <1>1, <1>2 DEF ListInv, Booting
<1> QED BY <1>3, <1>4, <1>6, <1>7 DEF ListInv

\* initialize leaves the frameworks alone and hands over at 1.
LEMMA ListInitialize ==
  ASSUME TypeOK, TypeOK', ListInv, NEW p \in Procs, Initialize(p)
  PROVE  ListInv'
<1>1. CASE SetUpFails(p)
  BY <1>1, ListGone DEF SetUpFails
<1>2. CASE ~SetUpFails(p)
  <2>1. fileStep /\ pc[p] \in SettingUp /\ pc'[p] \notin Looping
    BY <1>2 DEF Initialize, CheckInit, CopyCreate, AtFile, CopyFill, CreateMarker, AllCopied, Construct,
                SettingUp, Looping, TypeOK
  <2>2. \A q \in Procs \ {p} : pc'[q] = pc[q] /\ next'[q] = next[q]
    BY <1>2 DEF Initialize, CheckInit, CopyCreate, CopyFill, CreateMarker, Construct, TypeOK
  <2>3. pc'[p] \in Booting => next'[p] = 1
    BY <1>2 DEF Initialize, CheckInit, CopyCreate, AtFile, CopyFill, CreateMarker, AllCopied, Construct,
                Booting, ListInv, TypeOK
  <2>4. Progress(p)'
    BY <2>1 DEF Progress
  <2> QED BY <2>1, <2>2, <2>3, <2>4, ListFrame DEF ListInv
<1> QED BY <1>1, <1>2

\* The steps of main after the set-up keep ListInv.
LEMMA ListBoot ==
  ASSUME TypeOK, TypeOK', ListInv, NEW p \in Procs, Boot(p)
  PROVE  ListInv'
<1> USE ConstantsAssumption DEF ConstantsAssumption
<1>1. CASE FrameworkStart(p)
  <2>1. \A q \in Procs : fw[q] \notin {"active", "stopping"}
    BY <1>1 DEF FrameworkStart, ListInv
  <2>2. \A q \in Procs \ {p} : /\ pc'[q] = pc[q] /\ next'[q] = next[q]
                               /\ failed'[q] = failed[q] /\ fw'[q] = fw[q]
    BY <1>1 DEF FrameworkStart, TypeOK
  <2>3. pc'[p] = "install" /\ next'[p] = 1 /\ lock' = p
    BY <1>1 DEF FrameworkStart, ListInv, Booting, TypeOK
  <2>4. Progress(p)'
    BY <2>3 DEF Progress, Done, Bundles
  <2>5. \A q \in Procs \ {p} : Progress(q)'
    BY <2>1, <2>2 DEF Progress
  <2> QED BY <2>1, <2>2, <2>3, <2>4, <2>5 DEF ListInv, Booting
<1>2. CASE HandleSignals(p) \/ FrameworkLocked(p) \/ Serve(p) \/ DriversRaise(p) \/ Await(p)
  <2>1. fileStep /\ next' = next /\ pc'[p] \notin Looping
    BY <1>2 DEF HandleSignals, FrameworkLocked, Serve, DriversRaise, Await, Looping, TypeOK
  <2>2. \A q \in Procs \ {p} : pc'[q] = pc[q]
    BY <1>2 DEF HandleSignals, FrameworkLocked, Serve, DriversRaise, Await, TypeOK
  <2>3. pc'[p] \in Booting => next'[p] = 1
    BY <1>2 DEF HandleSignals, FrameworkLocked, Serve, DriversRaise, Await, Booting, ListInv, TypeOK
  <2>4. Progress(p)'
    BY <2>1 DEF Progress
  <2> QED BY <2>1, <2>2, <2>3, <2>4, ListFrame DEF ListInv
<1>3. CASE Installed(p)
  <2>1. \A q \in Procs \ {p} : /\ pc'[q] = pc[q] /\ next'[q] = next[q]
                               /\ failed'[q] = failed[q] /\ fw'[q] = fw[q]
    BY <1>3 DEF Installed, FrameworkStop, TypeOK
  <2>2. pc'[p] = "stopped" /\ (fw'[p] \in {"active", "stopping"} => fw[p] \in {"active", "stopping"})
    BY <1>3 DEF Installed, FrameworkStop, TypeOK
  <2>3. UNCHANGED <<cacheVars, lock, running>>
    BY <1>3 DEF Installed
  <2>4. Progress(p)'
    BY <2>2 DEF Progress, Looping
  <2> QED BY <2>1, <2>2, <2>3, <2>4, ListFrame DEF ListInv, Booting
<1>4. CASE InstallBundle(p)
  BY <1>4, ListProceed DEF InstallBundle, AtBundle, Looping
<1>5. CASE StartBundle(p)
  <2>1. next[p] \in installed \/ fw[p] # "active"
    BY <1>5 DEF StartBundle, AtBundle, ListInv, Progress, Done, Looping
  <2> QED BY <1>5, <2>1, ListProceed DEF StartBundle, AtBundle, Looping
<1>6. CASE SetStartLevel(p)
  BY <1>6, ListProceed DEF SetStartLevel, AtBundle, Looping, ListInv, Progress, Done
<1>7. CASE BundleFails(p)
  BY <1>7, ListBundleFails
<1> QED BY <1>1, <1>2, <1>3, <1>4, <1>5, <1>6, <1>7 DEF Boot

\* Signals, the hook and the framework's thread.
LEMMA ListShutdown ==
  ASSUME TypeOK, TypeOK', ListInv, NEW p \in Procs,
         Interrupt(p) \/ Terminate(p) \/ Shutdown(p) \/ FrameworkStopped(p)
  PROVE  ListInv'
<1>1. CASE Gone(p)
  BY <1>1, ListGone
<1>2. CASE FrameworkStopped(p)
  <2>1. \A q \in Procs \ {p} : fw'[q] = fw[q] /\ lock # q
    BY <1>2 DEF FrameworkStopped, ListInv, TypeOK
  <2>2. pc' = pc /\ next' = next /\ failed' = failed /\ UNCHANGED cacheVars /\ fw'[p] = "stopped"
    BY <1>2 DEF FrameworkStopped, TypeOK
  <2>3. Progress(p)'
    BY <2>2 DEF Progress
  <2>4. pc'[p] \in Booting => next'[p] = 1
    BY <2>2 DEF ListInv
  <2> QED BY <2>1, <2>2, <2>3, <2>4, ListFrame
<1>3. CASE ~Gone(p) /\ ~FrameworkStopped(p)
  <2>1. \A q \in Procs \ {p} : fw'[q] = fw[q]
    BY <1>3 DEF Interrupt, Terminate, Shutdown, HookStop, HookReturns, HookTimeout, FrameworkStop, TypeOK
  <2>2. /\ pc' = pc /\ next' = next /\ failed' = failed /\ UNCHANGED cacheVars
        /\ lock' = lock /\ running' = running
    BY <1>3 DEF Interrupt, Terminate, Shutdown, HookStop, HookReturns, HookTimeout
  <2>3. /\ fw'[p] \in {"active", "stopping"} => fw[p] \in {"active", "stopping"}
        /\ fw'[p] = "active" => fw[p] = "active"
    BY <1>3 DEF Interrupt, Terminate, Shutdown, HookStop, HookReturns, HookTimeout, FrameworkStop, TypeOK
  <2>4. Progress(p)'
    BY <2>2, <2>3, DoneFrame DEF ListInv
  <2>5. pc'[p] \in Booting => next'[p] = 1
    BY <2>2 DEF ListInv
  <2> QED BY <2>1, <2>2, <2>3, <2>4, <2>5, ListFrame DEF ListInv
<1> QED BY <1>1, <1>2, <1>3

\* The administrator reaches the cache only through a server whose loop is over.
LEMMA ListAdmin ==
  ASSUME TypeOK, TypeOK', ListInv, Edit \/ Clear \/ StopOrUninstall
  PROVE  ListInv'
<1>1. CASE Edit
  BY <1>1 DEF Edit, ListInv, Progress, Done, AsListed
<1>2. CASE Clear
  BY <1>2 DEF Clear, ListInv, Progress, Looping
<1>3. CASE StopOrUninstall
  <2>1. PICK p \in Procs : pc[p] = "await" /\ fw[p] = "active"
    BY <1>3 DEF StopOrUninstall
  <2>2. \A q \in Procs : pc[q] \in Looping => fw[q] # "active"
    BY <2>1 DEF ListInv, Looping
  <2>3. pc' = pc /\ next' = next /\ fw' = fw /\ lock' = lock
    BY <1>3 DEF StopOrUninstall
  <2> QED BY <2>2, <2>3 DEF ListInv, Progress
<1> QED BY <1>1, <1>2, <1>3

\* ListInv holds in every state.
LEMMA ListInvariant == Spec => [](TypeOK /\ ListInv)
<1>1. Init => ListInv
  <2> SUFFICES ASSUME Init PROVE ListInv
    OBVIOUS
  <2>1. \A p \in Procs : fw[p] = "new" /\ next[p] = 1 /\ pc[p] = "down"
    BY DEF Init
  <2> QED BY <2>1 DEF ListInv, Progress
<1>2. TypeOK /\ TypeOK' /\ ListInv /\ [Next]_vars => ListInv'
  <2> SUFFICES ASSUME TypeOK, TypeOK', ListInv, [Next]_vars PROVE ListInv'
    OBVIOUS
  <2>1. ASSUME NEW p \in Procs, Launch(p) PROVE ListInv'
    <3>1. \A q \in Procs \ {p} : pc'[q] = pc[q]
      BY <2>1 DEF Launch, TypeOK
    <3>2. pc'[p] = "check" /\ next'[p] = 1
      BY <2>1 DEF Launch, ListInv, Booting, TypeOK
    <3>3. Progress(p)'
      BY <3>2 DEF Progress, Looping
    <3>4. UNCHANGED <<cacheVars, lock, running, next, failed, fw>>
      BY <2>1 DEF Launch
    <3> QED BY <3>1, <3>2, <3>3, <3>4, ListFrame DEF ListInv
  <2>2. ASSUME NEW p \in Procs, Kill(p) PROVE ListInv'
    BY <2>2, ListGone DEF Kill
  <2>3. CASE UNCHANGED vars
    BY <2>3 DEF vars, ListInv, Progress, Done, AsListed
  <2> QED BY <2>1, <2>2, <2>3, ListInitialize, ListBoot, ListShutdown, ListAdmin DEF Next
<1> QED BY <1>1, <1>2, TypeCorrect, PTL DEF Spec

\* When the loop is through on a framework that is up, every bundle that did not
\* raise is as it is listed.
THEOREM ListIsHonoured == Spec => []ListHonoured
<1> USE ConstantsAssumption DEF ConstantsAssumption
<1>1. TypeOK /\ ListInv => ListHonoured
  <2> SUFFICES ASSUME TypeOK, ListInv, NEW p \in Procs, BundlesDone(p), fw[p] = "active",
                      NEW b \in Bundles \ failed[p]
               PROVE  AsListed(b)
    BY DEF ListHonoured
  <2>1. b < next[p]
    BY DEF BundlesDone, Bundles
  <2> QED BY <2>1 DEF ListInv, Progress, Done, Looping, BundlesDone
<1> QED BY <1>1, ListInvariant, PTL

-----------------------------------------------------------------------------
(* Shutting down.                                                          *)

\* p between two of its steps: a JVM shuts down under main only once the hook is
\* there, and the hook that waits has had a framework to stop.
Closing(p) ==
  /\ lock = p => fw[p] \in {"active", "stopping"}
  /\ pc[p] \in Booting \cup SettingUp => fw[p] = "new"
  /\ jvm[p] \in {"exit", "early", "wait"} => pc[p] \in Serving \cup Ended
  /\ jvm[p] = "wait" => fw[p] \in {"stopping", "stopped"}

StopInv == \A p \in Procs : Closing(p)

\* What p does keeps Closing for every other process.
LEMMA ClosingOther ==
  ASSUME TypeOK, NEW q \in Procs, Closing(q),
         pc'[q] = pc[q], fw'[q] = fw[q], jvm'[q] = jvm[q], lock' = q => lock = q
  PROVE  Closing(q)'
  BY DEF Closing

\* A JVM that goes down gives the cache back.
LEMMA ClosingGone ==
  ASSUME TypeOK, StopInv, NEW p \in Procs, Gone(p)
  PROVE  StopInv'
<1> USE ConstantsAssumption DEF ConstantsAssumption
<1>1. pc'[p] = "down" /\ fw'[p] = "new" /\ jvm'[p] = "down" /\ lock' # p
  BY DEF Gone, TypeOK
<1>2. \A q \in Procs \ {p} : /\ pc'[q] = pc[q] /\ fw'[q] = fw[q] /\ jvm'[q] = jvm[q]
                             /\ lock' = q => lock = q
  BY DEF Gone, TypeOK
<1> QED BY <1>1, <1>2, ClosingOther DEF StopInv, Closing

\* A step of p that leaves its JVM and its framework as they are.
LEMMA ClosingStays ==
  ASSUME TypeOK, StopInv, NEW p \in Procs,
         \A q \in Procs \ {p} : pc'[q] = pc[q],
         UNCHANGED <<fw, jvm, lock>>,
         pc'[p] \in Booting \cup SettingUp => pc[p] \in Booting \cup SettingUp,
         pc[p] \in Serving \cup Ended => pc'[p] \in Serving \cup Ended
  PROVE  StopInv'
  BY DEF StopInv, Closing

\* The steps of main after the set-up keep StopInv.
LEMMA ClosingBoot ==
  ASSUME TypeOK, StopInv, NEW p \in Procs, Boot(p)
  PROVE  StopInv'
<1> USE ConstantsAssumption DEF ConstantsAssumption
<1>1. CASE FrameworkStart(p)
  <2>1. pc[p] = "start" /\ fw[p] = "new" /\ lock' = p
    BY <1>1 DEF FrameworkStart, StopInv, Closing, Booting
  <2>2. \A q \in Procs \ {p} : pc'[q] = pc[q] /\ fw'[q] = fw[q] /\ jvm'[q] = jvm[q] /\ lock' # q
    BY <1>1 DEF FrameworkStart, TypeOK
  <2>3. pc'[p] = "install" /\ fw'[p] = "active" /\ jvm'[p] = jvm[p]
    BY <1>1 DEF FrameworkStart, TypeOK
  <2>4. jvm[p] # "wait"
    BY <2>1 DEF StopInv, Closing
  <2>5. Closing(p)'
    BY <2>1, <2>3, <2>4 DEF Closing, Booting, SettingUp, Serving
  <2> QED BY <2>2, <2>5, ClosingOther DEF StopInv
<1>2. CASE Installed(p)
  <2>1. \A q \in Procs \ {p} : pc'[q] = pc[q] /\ fw'[q] = fw[q] /\ jvm'[q] = jvm[q] /\ lock' = lock
    BY <1>2 DEF Installed, FrameworkStop, TypeOK
  <2>2. /\ pc'[p] = "stopped" /\ lock' = lock
        /\ fw'[p] = (IF fw[p] = "active" THEN "stopping" ELSE fw[p])
        /\ jvm'[p] = (IF jvm[p] = "up" THEN "exit" ELSE jvm[p])
    BY <1>2 DEF Installed, FrameworkStop, TypeOK
  <2>3. Closing(p)'
    BY <2>2 DEF StopInv, Closing, Booting, SettingUp, Ended
  <2> QED BY <2>1, <2>3, ClosingOther DEF StopInv
<1>3. CASE ~FrameworkStart(p) /\ ~Installed(p)
  <2>1. \A q \in Procs \ {p} : pc'[q] = pc[q]
    BY <1>3 DEF Boot, HandleSignals, FrameworkLocked, InstallBundle, StartBundle, SetStartLevel,
                BundleFails, Serve, DriversRaise, Await, Proceed, TypeOK
  <2>2. UNCHANGED <<fw, jvm, lock>>
    BY <1>3 DEF Boot, HandleSignals, FrameworkLocked, InstallBundle, StartBundle, SetStartLevel,
                BundleFails, Serve, DriversRaise, Await
  <2>3. /\ pc'[p] \in Serving \cup Ended
        /\ pc'[p] \in Booting => pc[p] \in Booting
        /\ pc'[p] \notin SettingUp
    BY <1>3 DEF Boot, HandleSignals, FrameworkLocked, InstallBundle, StartBundle, SetStartLevel,
                BundleFails, Serve, DriversRaise, Await, Proceed, TypeOK, Serving, Ended, Booting, SettingUp
  <2> QED BY <2>1, <2>2, <2>3, ClosingStays
<1> QED BY <1>1, <1>2, <1>3

\* initialize ends no JVM that has its hook.
LEMMA ClosingInitialize ==
  ASSUME TypeOK, StopInv, NEW p \in Procs, Initialize(p)
  PROVE  StopInv'
<1>1. CASE SetUpFails(p)
  BY <1>1, ClosingGone DEF SetUpFails
<1>2. CASE ~SetUpFails(p)
  <2>1. \A q \in Procs \ {p} : pc'[q] = pc[q]
    BY <1>2 DEF Initialize, CheckInit, CopyCreate, CopyFill, CreateMarker, Construct, TypeOK
  <2>2. UNCHANGED <<fw, jvm, lock>>
    BY <1>2 DEF Initialize, CheckInit, CopyCreate, CopyFill, CreateMarker, Construct
  <2>3. pc[p] \in SettingUp
    BY <1>2 DEF Initialize, CheckInit, CopyCreate, AtFile, CopyFill, CreateMarker, AllCopied, Construct, SettingUp
  <2> QED BY <2>1, <2>2, <2>3, ClosingStays DEF SettingUp, Serving, Ended
<1> QED BY <1>1, <1>2

\* Signals and the hook keep StopInv.
LEMMA ClosingShutdown ==
  ASSUME TypeOK, StopInv, ListInv, NEW p \in Procs,
         Interrupt(p) \/ Terminate(p) \/ Shutdown(p) \/ FrameworkStopped(p)
  PROVE  StopInv'
<1> USE ConstantsAssumption DEF ConstantsAssumption
<1>1. CASE Gone(p)
  BY <1>1, ClosingGone
<1>2. CASE Interrupt(p)
  BY <1>2 DEF Interrupt, StopInv, Closing
<1>3. CASE Terminate(p) /\ ~Gone(p)
  <2>1. pc[p] \in Serving \cup Ended /\ jvm' = [jvm EXCEPT ![p] = "exit"] /\ UNCHANGED <<pc, fw, lock>>
    BY <1>3 DEF Terminate, HasHook
  <2> QED BY <2>1 DEF StopInv, Closing, TypeOK
<1>4. CASE HookStop(p)
  <2>1. /\ pc' = pc /\ lock' = lock /\ pc[p] \in Serving \cup Ended
        /\ fw' = [fw EXCEPT ![p] = IF @ = "active" THEN "stopping" ELSE @]
        /\ jvm' = [jvm EXCEPT ![p] = IF fw[p] = "new" THEN "early" ELSE "wait"]
    BY <1>4 DEF HookStop, FrameworkStop, StopInv, Closing
  <2>2. Closing(p)'
    BY <2>1 DEF StopInv, Closing, TypeOK
  <2>3. \A q \in Procs \ {p} : pc'[q] = pc[q] /\ fw'[q] = fw[q] /\ jvm'[q] = jvm[q]
    BY <2>1 DEF TypeOK
  <2> QED BY <2>1, <2>2, <2>3, ClosingOther DEF StopInv
<1>5. CASE FrameworkStopped(p)
  <2>1. /\ pc' = pc /\ lock' = NoProc /\ jvm' = jvm
        /\ fw[p] = "stopping" /\ fw' = [fw EXCEPT ![p] = "stopped"]
    BY <1>5 DEF FrameworkStopped
  <2>2. Closing(p)'
    BY <2>1 DEF StopInv, Closing, TypeOK
  <2>3. \A q \in Procs \ {p} : pc'[q] = pc[q] /\ fw'[q] = fw[q] /\ jvm'[q] = jvm[q] /\ lock' # q
    BY <2>1 DEF TypeOK
  <2> QED BY <2>2, <2>3, ClosingOther DEF StopInv
<1> QED BY <1>1, <1>2, <1>3, <1>4, <1>5 DEF Shutdown, HookReturns, HookTimeout

\* StopInv holds in every state.
LEMMA StopInvariant == Spec => [](TypeOK /\ StopInv)
<1> USE ConstantsAssumption DEF ConstantsAssumption
<1>1. Init => StopInv
  <2> SUFFICES ASSUME Init, NEW p \in Procs PROVE Closing(p)
    BY DEF StopInv
  <2>1. fw[p] = "new" /\ jvm[p] = "down" /\ lock # p
    BY DEF Init
  <2> QED BY <2>1 DEF Closing
<1>2. TypeOK /\ ListInv /\ StopInv /\ [Next]_vars => StopInv'
  <2> SUFFICES ASSUME TypeOK, ListInv, StopInv, [Next]_vars PROVE StopInv'
    OBVIOUS
  <2>1. ASSUME NEW p \in Procs, Launch(p) PROVE StopInv'
    <3>1. pc[p] = "down" /\ pc'[p] = "check" /\ jvm'[p] = "up" /\ UNCHANGED <<fw, lock>>
      BY <2>1 DEF Launch, TypeOK
    <3>2. \A q \in Procs \ {p} : pc'[q] = pc[q] /\ jvm'[q] = jvm[q]
      BY <2>1 DEF Launch, TypeOK
    <3>3. Closing(p)'
      BY <3>1 DEF StopInv, Closing, Booting
    <3> QED BY <3>1, <3>2, <3>3, ClosingOther DEF StopInv
  <2>2. ASSUME NEW p \in Procs, Kill(p) PROVE StopInv'
    BY <2>2, ClosingGone DEF Kill
  <2>3. CASE Edit \/ Clear \/ StopOrUninstall \/ UNCHANGED vars
    BY <2>3 DEF Edit, Clear, StopOrUninstall, vars, StopInv, Closing
  <2> QED BY <2>1, <2>2, <2>3, ClosingInitialize, ClosingBoot, ClosingShutdown DEF Next
<1> QED BY <1>1, <1>2, TypeCorrect, ListInvariant, PTL DEF Spec

\* If no active bundle hangs, a JVM that is not killed goes down after its framework
\* has stopped, whenever the signal came.
THEOREM BundlesAreStopped == Spec => StopsBundles
<1> USE ConstantsAssumption DEF ConstantsAssumption
<1> DEFINE Stops == \A p \in Procs : /\ jvm[p] \in {"exit", "wait"} /\ jvm'[p] = "down"
                                     /\ ~Hangs /\ kills' = kills
                                     => lock # p
<1>1. TypeOK /\ StopInv /\ [Next]_vars => [Stops]_vars
  <2> SUFFICES ASSUME TypeOK, StopInv, Next, NEW p \in Procs,
                      jvm[p] \in {"exit", "wait"}, jvm'[p] = "down", ~Hangs, kills' = kills
               PROVE  lock # p
    BY DEF vars
  <2>1. pc[p] \in Serving \cup Ended
    BY DEF StopInv, Closing
  <2>2. ASSUME NEW q \in Procs, Gone(q) \/ Launch(q) PROVE q = p
    BY <2>2 DEF Gone, Launch, TypeOK
  <2>3. HookReturns(p) \/ HookTimeout(p)
    <3>1. ASSUME NEW q \in Procs, Launch(q) PROVE FALSE
      BY <3>1, <2>1, <2>2 DEF Launch, Serving, Ended
    <3>2. ASSUME NEW q \in Procs, Kill(q) PROVE FALSE
      BY <3>2 DEF Kill, TypeOK
    <3>3. ASSUME NEW q \in Procs, Initialize(q) PROVE FALSE
      <4>1. SetUpFails(q)
        BY <3>3 DEF Initialize, CheckInit, CopyCreate, CopyFill, CreateMarker, Construct
      <4>2. q = p /\ pc[q] = "copy"
        BY <4>1, <2>2 DEF SetUpFails, SetUpRaises, AtFile, AllCopied
      <4> QED BY <4>2, <2>1 DEF Serving, Ended
    <3>4. ASSUME NEW q \in Procs, Boot(q) PROVE FALSE
      BY <3>4 DEF Boot, HandleSignals, FrameworkStart, FrameworkLocked, InstallBundle, StartBundle,
                  SetStartLevel, BundleFails, Serve, DriversRaise, Installed, Await, TypeOK
    <3>5. ASSUME NEW q \in Procs, Interrupt(q) \/ Terminate(q) \/ FrameworkStopped(q) PROVE FALSE
      BY <3>5, <2>2 DEF Interrupt, Terminate, FrameworkStopped, TypeOK
    <3>6. ASSUME NEW q \in Procs, HookStop(q) PROVE FALSE
      BY <3>6 DEF HookStop, TypeOK
    <3>7. ASSUME NEW q \in Procs, HookReturns(q) \/ HookTimeout(q) PROVE q = p
      BY <3>7, <2>2 DEF HookReturns, HookTimeout
    <3>8. ~(Edit \/ Clear \/ StopOrUninstall)
      BY DEF Edit, Clear, StopOrUninstall
    <3> QED BY <3>1, <3>2, <3>3, <3>4, <3>5, <3>6, <3>7, <3>8 DEF Next, Shutdown
  <2>4. jvm[p] = "wait" /\ fw[p] \in {"stopping", "stopped"}
    BY <2>3 DEF HookReturns, HookTimeout, Waiting, StopInv, Closing
  <2>5. fw[p] = "stopped"
    BY <2>3, <2>4 DEF HookReturns, HookTimeout
  <2> QED BY <2>5 DEF StopInv, Closing
<1> QED BY <1>1, StopInvariant, PTL DEF Spec, StopsBundles


-----------------------------------------------------------------------------
(* Who has the bundle cache.                                               *)

\* A main thread is somewhere as long as its JVM is up.
UpInv == \A p \in Procs : pc[p] = "down" <=> jvm[p] = "down"

\* Bundles are active in the framework that has the cache.
RunInv == running # {} => lock # NoProc

OwnerInv == UpInv /\ RunInv

\* A step of a process that is up and stays up, and the framework of which keeps
\* the cache if it had it.
LEMMA OwnerStays ==
  ASSUME TypeOK, OwnerInv, NEW p \in Procs,
         jvm[p] # "down", jvm'[p] # "down", pc'[p] # "down",
         \A q \in Procs \ {p} : pc'[q] = pc[q] /\ jvm'[q] = jvm[q],
         running' = {} \/ lock' # NoProc \/ (running' = running /\ lock' = lock)
  PROVE  OwnerInv'
  BY DEF OwnerInv, UpInv, RunInv

LEMMA OwnerGone ==
  ASSUME TypeOK, OwnerInv, NEW p \in Procs, Gone(p)
  PROVE  OwnerInv'
<1> USE ConstantsAssumption DEF ConstantsAssumption
<1>1. pc'[p] = "down" /\ jvm'[p] = "down"
  BY DEF Gone, TypeOK
<1>2. \A q \in Procs \ {p} : pc'[q] = pc[q] /\ jvm'[q] = jvm[q]
  BY DEF Gone, TypeOK
<1>3. running' = {} \/ (running' = running /\ lock' = lock)
  BY DEF Gone
<1> QED BY <1>1, <1>2, <1>3 DEF OwnerInv, UpInv, RunInv

LEMMA OwnerInitialize ==
  ASSUME TypeOK, OwnerInv, NEW p \in Procs, Initialize(p)
  PROVE  OwnerInv'
<1>1. CASE SetUpFails(p) BY <1>1, OwnerGone DEF SetUpFails
<1>2. CASE ~SetUpFails(p)
  <2>1. Running(p) /\ UNCHANGED <<jvm, running, lock>>
    BY <1>2 DEF Initialize, CheckInit, CopyCreate, AtFile, CopyFill, CreateMarker, AllCopied, Construct
  <2>2. pc'[p] # "down" /\ \A q \in Procs \ {p} : pc'[q] = pc[q]
    BY <1>2 DEF Initialize, CheckInit, CopyCreate, CopyFill, CreateMarker, Construct, TypeOK
  <2> QED BY <2>1, <2>2, OwnerStays DEF Running
<1> QED BY <1>1, <1>2

LEMMA OwnerBoot ==
  ASSUME TypeOK, ListInv, OwnerInv, NEW p \in Procs, Boot(p)
  PROVE  OwnerInv'
<1> USE ConstantsAssumption DEF ConstantsAssumption
<1>1. Running(p)
  BY DEF Boot, HandleSignals, FrameworkStart, FrameworkLocked, InstallBundle, StartBundle,
         SetStartLevel, BundleFails, Serve, DriversRaise, Installed, Await, CanRaise, AtBundle, BundlesDone
<1>2. pc'[p] # "down" /\ \A q \in Procs \ {p} : pc'[q] = pc[q]
  BY DEF Boot, HandleSignals, FrameworkStart, FrameworkLocked, InstallBundle, StartBundle,
         SetStartLevel, BundleFails, Serve, DriversRaise, Installed, Await, Proceed, TypeOK
<1>3. jvm'[p] # "down" /\ \A q \in Procs \ {p} : jvm'[q] = jvm[q]
  <2>1. CASE Installed(p) BY <1>1, <2>1 DEF Installed, Running, TypeOK
  <2>2. CASE ~Installed(p)
    BY <1>1, <2>2 DEF Boot, HandleSignals, FrameworkStart, FrameworkLocked, InstallBundle,
       StartBundle, SetStartLevel, BundleFails, Serve, DriversRaise, Await, Running
  <2> QED BY <2>1, <2>2
<1>4. lock' # NoProc \/ (running' = running /\ lock' = lock)
  <2>1. CASE FrameworkStart(p) BY <2>1 DEF FrameworkStart
  <2>2. CASE StartBundle(p)
    <3>1. fw[p] = "active" => lock = p BY DEF ListInv
    <3> QED BY <2>2, <3>1 DEF StartBundle
  <2>3. CASE ~FrameworkStart(p) /\ ~StartBundle(p)
    BY <2>3 DEF Boot, HandleSignals, FrameworkLocked, InstallBundle, SetStartLevel, BundleFails,
       Serve, DriversRaise, Installed, Await
  <2> QED BY <2>1, <2>2, <2>3
<1> QED BY <1>1, <1>2, <1>3, <1>4, OwnerStays DEF Running

LEMMA OwnerShutdown ==
  ASSUME TypeOK, StopInv, OwnerInv, NEW p \in Procs,
         Interrupt(p) \/ Terminate(p) \/ Shutdown(p) \/ FrameworkStopped(p)
  PROVE  OwnerInv'
<1>1. CASE Gone(p) BY <1>1, OwnerGone
<1>2. CASE Interrupt(p) \/ (Terminate(p) /\ ~Gone(p)) \/ HookStop(p)
  <2>1. jvm[p] # "down" /\ UNCHANGED <<pc, running, lock>>
    BY <1>2 DEF Interrupt, Terminate, HookStop
  <2>2. jvm'[p] # "down" /\ \A q \in Procs \ {p} : jvm'[q] = jvm[q]
    BY <1>2 DEF Interrupt, Terminate, HookStop, TypeOK
  <2>3. pc[p] # "down" BY <2>1 DEF OwnerInv, UpInv
  <2> QED BY <2>1, <2>2, <2>3, OwnerStays
<1>3. CASE FrameworkStopped(p)
  BY <1>3 DEF FrameworkStopped, OwnerInv, UpInv, RunInv
<1> QED BY <1>1, <1>2, <1>3 DEF Shutdown, HookReturns, HookTimeout

LEMMA OwnerInvariant == Spec => []OwnerInv
<1>1. Init => OwnerInv BY DEF Init, OwnerInv, UpInv, RunInv
<1>2. TypeOK /\ ListInv /\ StopInv /\ OwnerInv /\ [Next]_vars => OwnerInv'
  <2> SUFFICES ASSUME TypeOK, ListInv, StopInv, OwnerInv, [Next]_vars PROVE OwnerInv'
    OBVIOUS
  <2>1. ASSUME NEW p \in Procs, Launch(p) PROVE OwnerInv'
    <3>1. pc'[p] = "check" /\ jvm'[p] = "up" /\ UNCHANGED <<lock, running>>
      BY <2>1 DEF Launch, TypeOK
    <3>2. \A q \in Procs \ {p} : pc'[q] = pc[q] /\ jvm'[q] = jvm[q]
      BY <2>1 DEF Launch, TypeOK
    <3> QED BY <3>1, <3>2 DEF OwnerInv, UpInv, RunInv
  <2>2. ASSUME NEW p \in Procs, Kill(p) PROVE OwnerInv'
    BY <2>2, OwnerGone DEF Kill
  <2>3. CASE Edit \/ Clear \/ StopOrUninstall \/ UNCHANGED vars
    <3>1. UNCHANGED <<pc, jvm, lock>> /\ running' \subseteq running
      BY <2>3 DEF Edit, Clear, StopOrUninstall, vars
    <3> QED BY <3>1 DEF OwnerInv, UpInv, RunInv
  <2> QED BY <2>1, <2>2, <2>3, OwnerInitialize, OwnerBoot, OwnerShutdown DEF Next
<1> QED BY <1>1, <1>2, ListInvariant, StopInvariant, PTL DEF Spec

\* However often processes are launched over one directory and killed at any step,
\* at most one framework is up, the bundles that are active are active in it, and
\* the process it belongs to is alive: a process that is killed or shuts down frees
\* the bundle cache, and one that finds it taken never starts a bundle.
OneFramework ==
  /\ \A p, q \in Procs :
       fw[p] \in {"active", "stopping"} /\ fw[q] \in {"active", "stopping"} => p = q
  /\ running # {} => \E p \in Procs : fw[p] \in {"active", "stopping"}
  /\ \A p \in Procs : fw[p] # "new" => jvm[p] # "down"
  /\ lock # NoProc => \E p \in Procs : lock = p /\ jvm[p] # "down"

THEOREM OneFrameworkUp == Spec => []OneFramework
<1> USE ConstantsAssumption DEF ConstantsAssumption
<1>1. TypeOK /\ ListInv /\ StopInv /\ OwnerInv => OneFramework
  <2> SUFFICES ASSUME TypeOK, ListInv, StopInv, OwnerInv PROVE OneFramework
    OBVIOUS
  <2>1. \A p, q \in Procs :
          fw[p] \in {"active", "stopping"} /\ fw[q] \in {"active", "stopping"} => p = q
    BY DEF ListInv
  <2>2. \A p \in Procs : fw[p] # "new" => jvm[p] # "down"
    BY DEF StopInv, Closing, Booting, OwnerInv, UpInv
  <2>3. lock # NoProc => \E p \in Procs : lock = p /\ fw[p] \in {"active", "stopping"}
    BY DEF StopInv, Closing, TypeOK
  <2> QED BY <2>1, <2>2, <2>3 DEF OneFramework, OwnerInv, RunInv
<1> QED BY <1>1, ListInvariant, StopInvariant, OwnerInvariant, PTL

-----------------------------------------------------------------------------
(* Interrupts.                                                             *)

\* Only a server that serves has a latch counted down, and main came back from
\* await by it.
LatchInv == \A p \in Procs :
  /\ latch[p] => mode[p] = "serve" /\ pc[p] \in (Serving \ {"boot"}) \cup {"dead"}
  /\ pc[p] = "returned" => latch[p]

\* What the steps other than Interrupt and the end of a JVM do to a latch.
LatchKept ==
  \A p \in Procs : latch[p] => latch'[p] \/ (pc'[p] = "down" /\ jvm'[p] = "down")

LEMMA LatchGone ==
  ASSUME TypeOK, LatchInv, NEW p \in Procs, Gone(p)
  PROVE  LatchInv' /\ LatchKept
<1>1. pc'[p] = "down" /\ jvm'[p] = "down" /\ latch'[p] = FALSE
  BY DEF Gone, TypeOK
<1>2. \A q \in Procs \ {p} : pc'[q] = pc[q] /\ latch'[q] = latch[q] /\ mode'[q] = mode[q]
  BY DEF Gone, TypeOK
<1>3. LatchKept BY <1>1, <1>2 DEF LatchKept
<1>4. ASSUME NEW q \in Procs
      PROVE  /\ latch'[q] => mode'[q] = "serve" /\ pc'[q] \in (Serving \ {"boot"}) \cup {"dead"}
             /\ pc'[q] = "returned" => latch'[q]
  <2>1. CASE q = p BY <1>1, <2>1
  <2>2. CASE q # p BY <1>2, <2>2 DEF LatchInv
  <2> QED BY <2>1, <2>2
<1> QED BY <1>3, <1>4 DEF LatchInv

\* A step of main that leaves the latches alone.
LEMMA LatchMain ==
  ASSUME TypeOK, LatchInv, NEW p \in Procs, UNCHANGED <<latch, mode>>,
         \A q \in Procs \ {p} : pc'[q] = pc[q],
         latch[p] => pc'[p] \in (Serving \ {"boot"}) \cup {"dead"},
         pc'[p] = "returned" => latch[p]
  PROVE  LatchInv' /\ LatchKept
<1>1. LatchKept BY DEF LatchKept
<1> QED BY <1>1 DEF LatchInv

LEMMA LatchBoot ==
  ASSUME TypeOK, LatchInv, NEW p \in Procs, Boot(p)
  PROVE  LatchInv' /\ LatchKept
<1>1. UNCHANGED <<latch, mode>> /\ \A q \in Procs \ {p} : pc'[q] = pc[q]
  BY DEF Boot, HandleSignals, FrameworkStart, FrameworkLocked, InstallBundle, StartBundle,
         SetStartLevel, BundleFails, Serve, DriversRaise, Installed, Await, Proceed, TypeOK
<1>2. CASE Installed(p)
  <2>1. ~latch[p] BY <1>2 DEF Installed, BundlesDone, LatchInv
  <2>2. pc'[p] = "stopped" BY <1>2 DEF Installed, TypeOK
  <2> QED BY <1>1, <2>1, <2>2, LatchMain
<1>3. CASE ~Installed(p)
  <2>1. pc'[p] \in (Serving \ {"boot"}) \cup {"dead"} /\ (pc'[p] = "returned" => latch[p])
    BY <1>3 DEF Boot, HandleSignals, FrameworkStart, FrameworkLocked, InstallBundle, StartBundle,
           SetStartLevel, BundleFails, Serve, DriversRaise, Await, Proceed, TypeOK, Serving
  <2> QED BY <1>1, <2>1, LatchMain
<1> QED BY <1>2, <1>3

LEMMA LatchInitialize ==
  ASSUME TypeOK, LatchInv, NEW p \in Procs, Initialize(p)
  PROVE  LatchInv' /\ LatchKept
<1>1. CASE SetUpFails(p) BY <1>1, LatchGone DEF SetUpFails
<1>2. CASE ~SetUpFails(p)
  <2>1. UNCHANGED <<latch, mode>> /\ pc[p] \in SettingUp
    BY <1>2 DEF Initialize, CheckInit, CopyCreate, AtFile, CopyFill, CreateMarker, AllCopied, Construct, SettingUp
  <2>2. pc'[p] # "returned" /\ \A q \in Procs \ {p} : pc'[q] = pc[q]
    BY <1>2 DEF Initialize, CheckInit, CopyCreate, CopyFill, CreateMarker, Construct, TypeOK
  <2>3. ~latch[p] BY <2>1 DEF LatchInv, SettingUp, Serving
  <2> QED BY <2>1, <2>2, <2>3, LatchMain
<1> QED BY <1>1, <1>2

LEMMA LatchNext ==
  ASSUME TypeOK, LatchInv, [Next]_vars
  PROVE  LatchInv' /\ LatchKept
<1>1. ASSUME NEW p \in Procs, Launch(p) PROVE LatchInv' /\ LatchKept
  <2>1. pc[p] = "down" /\ pc'[p] = "check" /\ UNCHANGED latch
    BY <1>1 DEF Launch, TypeOK
  <2>2. \A q \in Procs \ {p} : pc'[q] = pc[q] /\ mode'[q] = mode[q]
    BY <1>1 DEF Launch, TypeOK
  <2>3. ~latch[p] BY <2>1 DEF LatchInv, Serving
  <2> QED BY <2>1, <2>2, <2>3 DEF LatchInv, LatchKept
<1>2. ASSUME NEW p \in Procs, Kill(p) \/ Gone(p) PROVE LatchInv' /\ LatchKept
  BY <1>2, LatchGone DEF Kill
<1>3. ASSUME NEW p \in Procs, Interrupt(p) PROVE LatchInv' /\ LatchKept
  <2>1. HasHandler(p) /\ UNCHANGED <<pc, mode>> /\ latch' = [latch EXCEPT ![p] = TRUE]
    BY <1>3 DEF Interrupt
  <2>2. latch'[p] = TRUE /\ \A q \in Procs \ {p} : latch'[q] = latch[q]
    BY <2>1 DEF TypeOK
  <2> QED BY <2>1, <2>2 DEF LatchInv, LatchKept, HasHandler
<1>4. ASSUME NEW p \in Procs, Terminate(p) \/ Shutdown(p) \/ FrameworkStopped(p)
      PROVE  LatchInv' /\ LatchKept
  <2>1. CASE UNCHANGED <<pc, mode, latch>> BY <2>1 DEF LatchInv, LatchKept
  <2> QED BY <1>2, <1>4, <2>1 DEF Terminate, Shutdown, HookStop, HookReturns, HookTimeout, FrameworkStopped
<1>5. CASE Edit \/ Clear \/ StopOrUninstall \/ UNCHANGED vars
  <2>1. UNCHANGED <<pc, mode, latch>>
    BY <1>5 DEF Edit, Clear, StopOrUninstall, vars
  <2> QED BY <2>1 DEF LatchInv, LatchKept
<1> QED BY <1>1, <1>2, <1>3, <1>4, <1>5, LatchInitialize, LatchBoot DEF Next

\* What InterruptHeard waits for, as steps and states: an INT that the handler
\* received, at whatever point of start, stays received until the JVM is down; main
\* leaves await only by one; and no run of install sees one.
InterruptKept ==
  [][/\ LatchKept
     /\ \A p \in Procs : pc'[p] = "returned" => latch'[p] /\ mode'[p] = "serve"]_vars

THEOREM InterruptIsKept == Spec => InterruptKept
<1>1. Init => LatchInv BY DEF Init, LatchInv
<1>2. TypeOK /\ LatchInv /\ [Next]_vars => LatchInv'
  BY LatchNext
<1>3. TypeOK /\ LatchInv /\ [Next]_vars =>
        [/\ LatchKept
         /\ \A p \in Procs : pc'[p] = "returned" => latch'[p] /\ mode'[p] = "serve"]_vars
  <2> SUFFICES ASSUME TypeOK, LatchInv, [Next]_vars
               PROVE  /\ LatchKept
                      /\ \A p \in Procs : pc'[p] = "returned" => latch'[p] /\ mode'[p] = "serve"
    OBVIOUS
  <2>1. LatchInv' /\ LatchKept BY LatchNext
  <2> QED BY <2>1 DEF LatchInv
<1> QED BY <1>1, <1>2, <1>3, TypeCorrect, PTL DEF Spec, InterruptKept

=============================================================================
