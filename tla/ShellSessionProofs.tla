------------------------ MODULE ShellSessionProofs ------------------------
(***************************************************************************)
(* Theorems about ShellSession, for any sets of sessions, commands and     *)
(* words: what is run is permitted and was asked for, and how a session    *)
(* ends.                                                                   *)
(***************************************************************************)
EXTENDS ShellSession, TLAPS

\* The definitions that say what a step leaves alone.
USE DEF Goto, Lookup, Unread, lookupVars, sessionVars, registryStep, loopStep, threadStep, OnExit

-----------------------------------------------------------------------------
(* Types.  exits stays below 2 only because a thread counts it once.       *)

TypeInv == TypeOK /\ OneExit

\* The lookups and the execution keep TypeInv.
LEMMA RunTypes ==
  ASSUME TypeInv, NEW s \in Sessions, Run(s)
  PROVE  TypeInv'
<1> USE NamesAssumption DEF NamesAssumption, TypeInv, TypeOK, OneExit, AllNamed, ByName, Done
<1>1. CASE GetReferences(s)
  <2>1. refs' \in [Sessions -> (SUBSET Commands) \cup {Unread}]
    BY <1>1 DEF GetReferences
  <2> QED BY <1>1, <2>1 DEF GetReferences
<1>2. CASE RaisesOnLost(s)
  BY <1>2 DEF RaisesOnLost
<1>3. CASE IsAlias(s)
  BY <1>3 DEF IsAlias, At
<1>4. CASE GetCommandForAlias(s)
  <2>1. word' \in [Sessions -> Lines \cup {Nobody}]
    <3>1. CASE word' = word BY <3>1
    <3>2. CASE \E c \in Aliased(s) : word' = [word EXCEPT ![s] = FullName[c]]
      <4>1. PICK c \in Aliased(s) : word' = [word EXCEPT ![s] = FullName[c]]
        BY <3>2
      <4>2. FullName[c] \in Lines
        BY <4>1 DEF Aliased, Found
      <4> QED BY <4>1, <4>2
    <3> QED BY <1>4, <3>1, <3>2 DEF GetCommandForAlias
  <2>2. pc' = [pc EXCEPT ![s] = "isCommand"] \/ pc' = [pc EXCEPT ![s] = Done(s)]
    BY <1>4 DEF GetCommandForAlias
  <2>3. UNCHANGED <<registered, permitted, open, alive, asked, exits, command, lines>>
    BY <1>4 DEF GetCommandForAlias
  <2>4. refs' = [refs EXCEPT ![s] = Unread] /\ pc[s] = "getCommandForAlias"
    BY <1>4 DEF GetCommandForAlias, At
  <2> QED BY <2>1, <2>2, <2>3, <2>4
<1>5. CASE IsCommand(s)
  BY <1>5 DEF IsCommand, At
<1>6. CASE GetCommand(s)
  <2>1. command' \in [Sessions -> Commands \cup {Nobody}]
    BY <1>6 DEF GetCommand, Found
  <2> QED BY <1>6, <2>1 DEF GetCommand, At
<1>7. CASE CheckPermission(s)
  BY <1>7 DEF CheckPermission
<1>8. CASE Execute(s)
  BY <1>8 DEF Execute
<1> QED BY <1>1, <1>2, <1>3, <1>4, <1>5, <1>6, <1>7, <1>8 DEF Run

\* The loops and the single commands keep TypeInv.
LEMMA LoopTypes ==
  ASSUME TypeInv, NEW s \in Sessions,
         \/ Loop(s) \/ Start(s) \/ ReadLine(s) \/ ReadHelp(s) \/ ReadScript(s) \/ ReadExit(s)
         \/ CreateCommand(s) \/ CreateRaises(s) \/ ExecEnd(s)
  PROVE  TypeInv'
<1> USE NamesAssumption DEF NamesAssumption, TypeInv, TypeOK, OneExit, AllNamed, ByName
<1>1. CASE PrintHelp(s)
  BY <1>1 DEF PrintHelp, At
<1>2. CASE ReadNull(s) \/ Eval(s) \/ Catch(s) \/ Start(s)
  BY <1>2 DEF ReadNull, Eval, Catch, Start, LoopEnter
<1>3. CASE LoopEnd(s)
  BY <1>3 DEF LoopEnd
<1>4. CASE ReadLine(s)
  BY <1>4 DEF ReadLine, ReadCommand, Reading, LoopEnter
<1>5. CASE ReadHelp(s) \/ ReadScript(s)
  BY <1>5 DEF ReadHelp, ReadScript, Reading, LoopEnter
<1>6. CASE ReadExit(s)
  BY <1>6 DEF ReadExit
<1>7. CASE CreateCommand(s)
  BY <1>7 DEF CreateCommand, ReadCommand
<1>8. CASE CreateRaises(s)
  BY <1>8 DEF CreateRaises
<1>9. CASE ExecEnd(s)
  BY <1>9 DEF ExecEnd
<1> QED BY <1>1, <1>2, <1>3, <1>4, <1>5, <1>6, <1>7, <1>8, <1>9 DEF Loop

\* TypeInv holds in every state.
LEMMA TypeInvariant == Spec => []TypeInv
<1> USE NamesAssumption DEF NamesAssumption
<1>1. Init => TypeInv
  <2> SUFFICES ASSUME Init PROVE TypeInv
    OBVIOUS
  <2> USE DEF Init
  <2>1. registered \subseteq Commands /\ permitted \in [Shells \cup Execs -> SUBSET Commands]
    OBVIOUS
  <2>2. /\ open \in [Sessions -> BOOLEAN] /\ alive \in [Sessions -> BOOLEAN]
        /\ asked \in [Sessions -> Lines \cup {Nobody}] /\ word \in [Sessions -> Lines \cup {Nobody}]
    OBVIOUS
  <2>3. refs \in [Sessions -> (SUBSET Commands) \cup {Unread}] /\ command \in [Sessions -> Commands \cup {Nobody}]
    OBVIOUS
  <2>4. exits \in [Sessions -> 0 .. 1] /\ lines \in 0 .. MaxLines
    OBVIOUS
  <2>5. pc \in [Sessions -> {"created"}]
    OBVIOUS
  <2> QED BY <2>1, <2>2, <2>3, <2>4, <2>5 DEF TypeInv, TypeOK, OneExit
<1>2. TypeInv /\ [Next]_vars => TypeInv'
  <2> SUFFICES ASSUME TypeInv, [Next]_vars PROVE TypeInv'
    OBVIOUS
  <2>1. ASSUME NEW s \in Sessions, EndOfInput(s) \/ Destroy(s) PROVE TypeInv'
    BY <2>1 DEF EndOfInput, Destroy, TypeInv, TypeOK, OneExit
  <2>2. ASSUME NEW c \in Commands, Register(c) \/ Unregister(c) PROVE TypeInv'
    BY <2>2 DEF Register, Unregister, TypeInv, TypeOK, OneExit
  <2>3. CASE UNCHANGED vars
    BY <2>3 DEF vars, TypeInv, TypeOK, OneExit
  <2> QED BY <2>1, <2>2, <2>3, RunTypes, LoopTypes DEF Next
<1> QED BY <1>1, <1>2, PTL DEF Spec

\* Every variable keeps its type.
THEOREM TypeCorrect == Spec => []TypeOK
<1>1. TypeInv => TypeOK
  BY DEF TypeInv
<1> QED BY <1>1, TypeInvariant, PTL

\* The end of a session is told once, by its own thread.
THEOREM OneExitHolds == Spec => []OneExit
<1>1. TypeInv => OneExit
  BY DEF TypeInv
<1> QED BY <1>1, TypeInvariant, PTL

-----------------------------------------------------------------------------
(* What is run.                                                            *)

\* permitted never changes, and CheckPermission is the only way to execute.
THEOREM RunsPermittedHolds == Spec => []RunsPermitted
<1>1. Init => RunsPermitted
  BY DEF Init, RunsPermitted
<1>2. TypeInv /\ RunsPermitted /\ [Next]_vars => RunsPermitted'
  <2> SUFFICES ASSUME TypeInv, RunsPermitted, [Next]_vars PROVE RunsPermitted'
    OBVIOUS
  <2> USE DEF TypeInv, TypeOK, RunsPermitted
  <2>1. ASSUME NEW s \in Sessions, Run(s) PROVE RunsPermitted'
    <3>1. permitted' = permitted /\ \A r \in Sessions \ {s} : pc'[r] = pc[r] /\ command'[r] = command[r]
      BY <2>1 DEF Run, GetReferences, RaisesOnLost, IsAlias, GetCommandForAlias, IsCommand, GetCommand,
                  CheckPermission, Execute
    <3>2. pc'[s] = "execute" => command'[s] \in permitted[s]
      BY <2>1 DEF Run, GetReferences, RaisesOnLost, IsAlias, GetCommandForAlias, IsCommand, GetCommand,
                  CheckPermission, Execute, Done, AllNamed, ByName
    <3> QED BY <3>1, <3>2
  <2>2. ASSUME NEW s \in Sessions,
               \/ Loop(s) \/ Start(s) \/ ReadLine(s) \/ ReadHelp(s) \/ ReadScript(s) \/ ReadExit(s)
               \/ CreateCommand(s) \/ CreateRaises(s) \/ ExecEnd(s)
        PROVE  RunsPermitted'
    <3>1. permitted' = permitted /\ command' = command /\ \A r \in Sessions \ {s} : pc'[r] = pc[r]
      BY <2>2 DEF Loop, PrintHelp, ReadNull, Eval, Catch, LoopEnd, Start, ReadLine, ReadCommand, ReadHelp,
                  ReadScript, ReadExit, CreateCommand, CreateRaises, ExecEnd
    <3>2. pc'[s] # "execute" \/ pc' = pc
      BY <2>2 DEF Loop, PrintHelp, ReadNull, Eval, Catch, LoopEnd, Start, ReadLine, ReadCommand, ReadHelp,
                  ReadScript, ReadExit, CreateCommand, CreateRaises, ExecEnd
    <3> QED BY <3>1, <3>2
  <2>3. ASSUME NEW s \in Sessions, EndOfInput(s) \/ Destroy(s) PROVE RunsPermitted'
    BY <2>3 DEF EndOfInput, Destroy
  <2>4. ASSUME NEW c \in Commands, Register(c) \/ Unregister(c) PROVE RunsPermitted'
    BY <2>4 DEF Register, Unregister
  <2>5. CASE UNCHANGED vars
    BY <2>5 DEF vars
  <2> QED BY <2>1, <2>2, <2>3, <2>4, <2>5 DEF Next
<1> QED BY <1>1, <1>2, TypeInvariant, PTL DEF Spec

\* word after the alias of the line is replaced.
Named(w, a) == w = a \/ \E d \in Commands : FullName[d] = w /\ a \in FullAliases[d]

\* What the line of s has become by the step s is at.
Traced(s) ==
  /\ pc[s] \in {"isAlias", "getCommandForAlias"} => word[s] = asked[s] /\ asked[s] # Nobody
  /\ pc[s] \in ByName =>
       /\ Named(word[s], asked[s])
       /\ refs[s] # Unread => \A c \in refs[s] : FullName[c] = word[s]
  /\ pc[s] \in {"check", "execute"} => command[s] \in Commands /\ Answers(command[s], asked[s])

\* A session is traced as long as nothing of its own changes.
LEMMA TracedOther ==
  ASSUME NEW r \in Sessions, Traced(r), pc'[r] = pc[r], word'[r] = word[r], asked'[r] = asked[r],
         refs'[r] = refs[r], command'[r] = command[r]
  PROVE  Traced(r)'
  BY DEF Traced

\* Every step of the lookup and the execution keeps the trace of its line.
LEMMA TracedRun ==
  ASSUME TypeInv, NEW s \in Sessions, Traced(s), Run(s)
  PROVE  Traced(s)'
<1> USE NamesAssumption DEF NamesAssumption, TypeInv, TypeOK
<1>1. CASE GetReferences(s)
  BY <1>1 DEF GetReferences, Traced, AllNamed, ByName
<1>2. CASE RaisesOnLost(s)
  BY <1>2 DEF RaisesOnLost, Traced, ByName
<1>3. CASE IsAlias(s)
  BY <1>3 DEF IsAlias, At, Traced, ByName, Named
<1>4. CASE GetCommandForAlias(s)
  <2>1. pc[s] = "getCommandForAlias" /\ asked' = asked /\ refs'[s] = Unread
    BY <1>4 DEF GetCommandForAlias, At
  <2>2. CASE pc'[s] = Done(s)
    BY <2>2 DEF Done, Traced, ByName
  <2>3. CASE pc'[s] = "isCommand" /\ \E c \in Aliased(s) : word' = [word EXCEPT ![s] = FullName[c]]
    <3>1. PICK c \in Aliased(s) : word' = [word EXCEPT ![s] = FullName[c]]
      BY <2>3
    <3>2. c \in Commands /\ asked[s] \in FullAliases[c] /\ word'[s] = FullName[c]
      BY <2>1, <3>1 DEF Aliased, Found, Traced
    <3>3. Named(word'[s], asked'[s])
      BY <2>1, <3>2 DEF Named
    <3> QED BY <2>1, <2>3, <3>3 DEF Traced, ByName
  <2> QED BY <1>4, <2>2, <2>3 DEF GetCommandForAlias
<1>5. CASE IsCommand(s)
  BY <1>5 DEF IsCommand, At, Traced, ByName, Done
<1>6. CASE GetCommand(s)
  <2>1. CASE pc'[s] = "raised"
    BY <2>1 DEF Traced, ByName
  <2>2. CASE pc'[s] = "check" /\ \E c \in Found(s) : command' = [command EXCEPT ![s] = c]
    <3>1. PICK c \in Found(s) : command' = [command EXCEPT ![s] = c]
      BY <2>2
    <3>2. c \in Commands /\ FullName[c] = word[s] /\ asked' = asked /\ command'[s] = c
      BY <1>6, <3>1 DEF GetCommand, At, Found, Traced, ByName
    <3>3. Named(FullName[c], asked[s])
      BY <1>6, <3>2 DEF GetCommand, At, Traced, ByName
    <3>4. Answers(c, asked[s])
      BY <3>2, <3>3 DEF Named, Answers
    <3> QED BY <2>2, <3>2, <3>4 DEF Traced, ByName
  <2> QED BY <1>6, <2>1, <2>2 DEF GetCommand
<1>7. CASE CheckPermission(s)
  BY <1>7 DEF CheckPermission, Traced, ByName, Done
<1>8. CASE Execute(s)
  BY <1>8 DEF Execute, Traced, ByName, Done
<1> QED BY <1>1, <1>2, <1>3, <1>4, <1>5, <1>6, <1>7, <1>8 DEF Run

\* A command that is run has the name of the line, or the name of a command with
\* that alias, whatever was registered in between.
THEOREM RunsAskedHolds == Spec => []RunsAsked
<1> USE NamesAssumption DEF NamesAssumption
<1> DEFINE Inv == \A s \in Sessions : Traced(s)
<1>1. Init => Inv
  BY DEF Init, Traced, ByName
<1>2. TypeInv /\ Inv /\ [Next]_vars => Inv'
  <2> SUFFICES ASSUME TypeInv, Inv, [Next]_vars PROVE Inv'
    OBVIOUS
  <2>1. ASSUME NEW s \in Sessions, Run(s) PROVE Inv'
    <3>1. \A r \in Sessions \ {s} : /\ pc'[r] = pc[r] /\ word'[r] = word[r] /\ asked'[r] = asked[r]
                                    /\ refs'[r] = refs[r] /\ command'[r] = command[r]
      BY <2>1 DEF Run, GetReferences, RaisesOnLost, IsAlias, GetCommandForAlias, IsCommand, GetCommand,
                  CheckPermission, Execute, TypeInv, TypeOK
    <3> QED BY <2>1, <3>1, TracedOther, TracedRun
  <2>2. ASSUME NEW s \in Sessions,
               \/ Loop(s) \/ Start(s) \/ ReadLine(s) \/ ReadHelp(s) \/ ReadScript(s) \/ ReadExit(s)
               \/ CreateCommand(s) \/ CreateRaises(s) \/ ExecEnd(s)
        PROVE  Inv'
    <3>1. \A r \in Sessions \ {s} : /\ pc'[r] = pc[r] /\ word'[r] = word[r] /\ asked'[r] = asked[r]
                                    /\ refs'[r] = refs[r] /\ command'[r] = command[r]
      BY <2>2 DEF Loop, PrintHelp, ReadNull, Eval, Catch, LoopEnd, Start, ReadLine, ReadCommand, ReadHelp,
                  ReadScript, ReadExit, CreateCommand, CreateRaises, ExecEnd, TypeInv, TypeOK
    <3>2. CASE ReadLine(s) \/ CreateCommand(s)
      <4>1. pc'[s] = "isAlias" /\ word'[s] = asked'[s] /\ asked'[s] \in Lines
        BY <3>2 DEF ReadLine, CreateCommand, ReadCommand, TypeInv, TypeOK
      <4>2. Traced(s)'
        BY <4>1 DEF Traced, ByName
      <4> QED BY <3>1, <4>2, TracedOther
    <3>3. CASE ReadExit(s)
      <4>1. UNCHANGED <<pc, word, asked, refs, command>>
        BY <3>3 DEF ReadExit
      <4> QED BY <4>1, TracedOther
    <3>4. CASE ~(ReadLine(s) \/ CreateCommand(s) \/ ReadExit(s))
      <4>1. pc'[s] \in {"helpWidths", "helpList", "loop", "eval", "raised", "died", "ended"}
        BY <2>2, <3>4 DEF Loop, PrintHelp, ReadNull, Eval, Catch, LoopEnd, Start, ReadHelp, ReadScript,
                    CreateRaises, ExecEnd, TypeInv, TypeOK
      <4>2. Traced(s)'
        BY <4>1 DEF Traced, ByName
      <4> QED BY <3>1, <4>2, TracedOther
    <3> QED BY <3>2, <3>3, <3>4
  <2>3. ASSUME UNCHANGED <<pc, word, asked, refs, command>> PROVE Inv'
    BY <2>3, TracedOther
  <2> QED BY <2>1, <2>2, <2>3 DEF Next, EndOfInput, Destroy, Register, Unregister, vars
<1>3. Inv => RunsAsked
  BY DEF Traced, RunsAsked
<1> QED BY <1>1, <1>2, <1>3, TypeInvariant, PTL DEF Spec

-----------------------------------------------------------------------------
(* How a session ends.                                                     *)

\* Where the threads of the loops can be: what ends a single command is not there.
LoopPlaces ==
  /\ \A s \in Loops : pc[s] # "exit"
  /\ \A s \in Scripts : pc[s] \in {"created", "loop", "eval", "raised", "ended", "died"}

\* LoopPlaces holds in every state.
LEMMA LoopPlacesInvariant == Spec => []LoopPlaces
<1> USE NamesAssumption DEF NamesAssumption
<1>1. Init => LoopPlaces
  BY DEF Init, LoopPlaces, Loops, Sessions
<1>2. TypeInv /\ LoopPlaces /\ [Next]_vars => LoopPlaces'
  <2> SUFFICES ASSUME TypeInv, LoopPlaces, [Next]_vars PROVE LoopPlaces'
    OBVIOUS
  <2> USE DEF LoopPlaces, TypeInv, TypeOK, Loops, Sessions
  <2>1. ASSUME NEW s \in Sessions, Run(s) PROVE LoopPlaces'
    <3>1. s \notin Scripts
      BY <2>1 DEF Run, GetReferences, RaisesOnLost, IsAlias, GetCommandForAlias, IsCommand, GetCommand,
                  CheckPermission, Execute, At, AllNamed, ByName
    <3>2. \A r \in Sessions \ {s} : pc'[r] = pc[r]
      BY <2>1 DEF Run, GetReferences, RaisesOnLost, IsAlias, GetCommandForAlias, IsCommand, GetCommand,
                  CheckPermission, Execute
    <3>3. s \in Shells => pc'[s] # "exit"
      BY <2>1 DEF Run, GetReferences, RaisesOnLost, IsAlias, GetCommandForAlias, IsCommand, GetCommand,
                  CheckPermission, Execute, Done
    <3> QED BY <3>1, <3>2, <3>3
  <2>2. ASSUME NEW s \in Sessions,
               \/ Loop(s) \/ Start(s) \/ ReadLine(s) \/ ReadHelp(s) \/ ReadScript(s) \/ ReadExit(s)
               \/ CreateCommand(s) \/ CreateRaises(s) \/ ExecEnd(s)
        PROVE  LoopPlaces'
    <3>1. \A r \in Sessions \ {s} : pc'[r] = pc[r]
      BY <2>2 DEF Loop, PrintHelp, ReadNull, Eval, Catch, LoopEnd, Start, ReadLine, ReadCommand, ReadHelp,
                  ReadScript, ReadExit, CreateCommand, CreateRaises, ExecEnd
    <3>2. pc'[s] = pc[s] \/ pc'[s] # "exit"
      BY <2>2 DEF Loop, PrintHelp, ReadNull, Eval, Catch, LoopEnd, Start, ReadLine, ReadCommand, ReadHelp,
                  ReadScript, ReadExit, CreateCommand, CreateRaises, ExecEnd
    <3>3. s \in Scripts => pc'[s] \in {"created", "loop", "eval", "raised", "ended", "died"}
      BY <2>2 DEF Loop, PrintHelp, At, ReadNull, Eval, Catch, LoopEnd, Start, ReadLine, ReadHelp,
                  ReadScript, ReadExit, CreateCommand, CreateRaises, ExecEnd
    <3> QED BY <3>1, <3>2, <3>3
  <2>3. ASSUME pc' = pc PROVE LoopPlaces'
    BY <2>3
  <2> QED BY <2>1, <2>2, <2>3 DEF Next, EndOfInput, Destroy, Register, Unregister, vars
<1> QED BY <1>1, <1>2, TypeInvariant, PTL DEF Spec

\* A session that has come to its loop ends by exit or destroy, or, in the scripting shell, at the
\* end of its input, and by nothing a command or a lookup raises.
THEOREM EndsOnRequestHolds == Spec => EndsOnRequest
<1> USE NamesAssumption DEF NamesAssumption
<1> DEFINE Ends == \A s \in Loops :
                     pc'[s] \in {"ended", "died"} /\ pc[s] \notin {"created", "ended", "died"}
                     => ~alive[s] \/ (s \in Scripts /\ ~open[s])
<1>1. TypeInv /\ LoopPlaces /\ [Next]_vars => [Ends]_vars
  <2> SUFFICES ASSUME TypeInv, LoopPlaces, Next, NEW r \in Loops,
                      pc'[r] \in {"ended", "died"}, pc[r] \notin {"created", "ended", "died"}
               PROVE  ~alive[r] \/ (r \in Scripts /\ ~open[r])
    BY DEF vars
  <2> USE DEF TypeInv, TypeOK, Loops, Sessions
  <2>1. ASSUME NEW s \in Sessions, Run(s) PROVE FALSE
    BY <2>1 DEF Run, GetReferences, RaisesOnLost, IsAlias, GetCommandForAlias, IsCommand, GetCommand,
                CheckPermission, Execute, Done
  <2>2. ASSUME NEW s \in Sessions,
               \/ Start(s) \/ ReadLine(s) \/ ReadHelp(s) \/ ReadScript(s) \/ ReadExit(s)
               \/ CreateCommand(s) \/ PrintHelp(s) \/ Eval(s) \/ Catch(s)
        PROVE  FALSE
    BY <2>2 DEF Start, ReadLine, ReadCommand, ReadHelp, ReadScript, ReadExit, CreateCommand, PrintHelp,
                Eval, Catch
  <2>3. ASSUME NEW s \in Sessions, ReadNull(s) PROVE r \in Scripts /\ ~open[r]
    BY <2>3 DEF ReadNull, LoopEnter
  <2>4. ASSUME NEW s \in Sessions, LoopEnd(s) PROVE ~alive[r]
    BY <2>4 DEF LoopEnd
  <2>5. ASSUME NEW s \in Sessions, CreateRaises(s) \/ ExecEnd(s) PROVE FALSE
    BY <2>5 DEF CreateRaises, ExecEnd, LoopPlaces
  <2>6. pc' # pc
    OBVIOUS
  <2> QED BY <2>1, <2>2, <2>3, <2>4, <2>5, <2>6 DEF Next, Loop, EndOfInput, Destroy, Register, Unregister
<1> QED BY <1>1, TypeInvariant, LoopPlacesInvariant, PTL DEF Spec, EndsOnRequest

=============================================================================
