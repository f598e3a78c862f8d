--------------------------- MODULE ShellSession ---------------------------
(***************************************************************************)
(* What runs a command that came over SSH: the session loops of            *)
(* DynamyShellFactory and ScriptingShellFactory and the single commands of *)
(* DynamyCommandFactory, over the registry of DynamyCommandOsgiHelper.     *)
(*                                                                         *)
(* A command is a service of some bundle.  It is looked up up to four      *)
(* times between its name and its execution, each time by references that  *)
(* are then resolved, and bundles may come and go between any two of these *)
(* steps.  Lines are words with one colon; any other word is answered      *)
(* without a lookup and changes nothing.                                   *)
(***************************************************************************)
EXTENDS Naturals, FiniteSets

CONSTANTS
  Shells, Scripts, Execs,  \* sessions of the three kinds
  Commands,       \* command services that bundles may register
  Lines,          \* words users type
  FullName,       \* command -> its namespace and name
  FullAliases,    \* command -> its aliases, with the namespace
  Nobody,         \* no command, no word
  MaxLines        \* bound: lines read by all sessions

Loops    == Shells \cup Scripts
Sessions == Loops \cup Execs

ASSUME NamesAssumption ==
  /\ Shells \cap Scripts = {} /\ Loops \cap Execs = {}
  /\ FullName \in [Commands -> Lines]
  /\ FullAliases \in [Commands -> SUBSET Lines]
  /\ Nobody \notin Commands \cup Lines
  /\ MaxLines \in Nat

VARIABLES
  registered,  \* commands registered now
  permitted,   \* session with commands -> those whose perms and roles its subject has
  pc,          \* session -> where its thread is
  open,        \* session -> does its input go on?
  alive,       \* session -> running
  asked,       \* session -> the word of its line
  word,        \* session -> commandString
  refs,        \* session -> references of the lookup under way
  command,     \* session -> the service looked up for execution
  exits,       \* session -> calls of ExitCallback.onExit
  lines

Unread   == {Nobody}  \* the references of this lookup are not read yet
AllNamed == {"isAlias", "getCommandForAlias", "helpWidths", "helpList"}
ByName   == {"isCommand", "getCommand"}

lookupVars  == <<word, refs, command>>
sessionVars == <<open, alive, asked, exits>>
vars == <<registered, permitted, pc, sessionVars, lookupVars, lines>>

Goto(s, l) == pc' = [pc EXCEPT ![s] = l]

\* To the next lookup.
Lookup(s, l) == Goto(s, l) /\ refs' = [refs EXCEPT ![s] = Unread]

\* The answer is printed; a single command ends with it.
Done(s) == IF s \in Shells THEN "loop" ELSE "exit"

-----------------------------------------------------------------------------
(* DynamyCommandOsgiHelper.  getServiceReferences takes a set of           *)
(* references; getService answers null for one whose command is gone since,*)
(* and a method called on that null raises.                                *)

registryStep == UNCHANGED <<registered, permitted, sessionVars, lines>>

GetReferences(s) ==
  /\ pc[s] \in AllNamed \cup ByName
  /\ refs[s] = Unread
  /\ refs' = [refs EXCEPT ![s] = IF pc[s] \in AllNamed THEN registered
                                 ELSE {c \in registered : FullName[c] = word[s]}]
  /\ UNCHANGED <<pc, word, command>> /\ registryStep

At(s, l) == pc[s] = l /\ refs[s] # Unread

Found(s)   == refs[s] \cap registered
Lost(s)    == refs[s] \ registered
Aliased(s) == {c \in Found(s) : word[s] \in FullAliases[c]}

RaisesOnLostRetrying(s) ==
  /\ pc[s] \in AllNamed /\ refs[s] # Unread /\ Lost(s) # {}
  /\ Lookup(s, pc[s])
  /\ UNCHANGED <<word, command>> /\ registryStep

\* The loop over the commands meets one that is gone before it returns.
RaisesOnLost(s) ==
  /\ pc[s] \in AllNamed /\ refs[s] # Unread /\ Lost(s) # {}
  /\ Goto(s, "raised")
  /\ UNCHANGED lookupVars /\ registryStep

IsAlias(s) ==
  /\ At(s, "isAlias")
  /\ \/ Aliased(s) # {} /\ Lookup(s, "getCommandForAlias")
     \/ Aliased(s) = {} /\ Lost(s) = {} /\ Lookup(s, "isCommand")
  /\ UNCHANGED <<word, command>> /\ registryStep

GetCommandForAnyAlias(s) ==
  /\ At(s, "getCommandForAlias")
  /\ \/ \E c \in Found(s) : /\ word' = [word EXCEPT ![s] = FullName[c]]
                            /\ Lookup(s, "isCommand")
     \/ Found(s) = {} /\ Lost(s) = {} /\ Lookup(s, Done(s)) /\ UNCHANGED word
  /\ UNCHANGED command /\ registryStep

\* A name, or null and with it "Unknown command".
GetCommandForAlias(s) ==
  /\ At(s, "getCommandForAlias")
  /\ \/ \E c \in Aliased(s) : /\ word' = [word EXCEPT ![s] = FullName[c]]
                              /\ Lookup(s, "isCommand")
     \/ Aliased(s) = {} /\ Lost(s) = {} /\ Lookup(s, Done(s)) /\ UNCHANGED word
  /\ UNCHANGED command /\ registryStep

Ambiguous(s) == Cardinality(refs[s]) > 1

IsCommand(s) ==
  /\ At(s, "isCommand")
  /\ IF Ambiguous(s) THEN Goto(s, "raised") /\ UNCHANGED refs
     ELSE IF Found(s) = {} THEN Lookup(s, Done(s))
     ELSE Lookup(s, "getCommand")
  /\ UNCHANGED <<word, command>> /\ registryStep

\* Looked up again; a command that is gone makes meta raise.
GetCommand(s) ==
  /\ At(s, "getCommand")
  /\ IF Ambiguous(s) \/ Found(s) = {} THEN Goto(s, "raised") /\ UNCHANGED command
     ELSE Goto(s, "check") /\ \E c \in Found(s) : command' = [command EXCEPT ![s] = c]
  /\ UNCHANGED <<word, refs>> /\ registryStep

\* getCommands, once for the width of the first column, once for the lines.
PrintHelp(s) ==
  /\ \/ /\ At(s, "helpWidths")
        /\ refs[s] = {} /\ Goto(s, "raised") /\ UNCHANGED refs
     \/ /\ At(s, "helpWidths")
        /\ refs[s] # {} /\ Lost(s) = {} /\ Lookup(s, "helpList")
     \/ At(s, "helpList") /\ Lost(s) = {} /\ Lookup(s, "loop")
  /\ UNCHANGED <<word, command>> /\ registryStep

-----------------------------------------------------------------------------
(* Permission and execution, the same in both kinds of session.            *)

CheckPermissionByName(s) ==
  /\ pc[s] = "check"
  /\ Goto(s, IF \E c \in registered \cap permitted[s] : FullName[c] = word[s]
             THEN "execute" ELSE Done(s))
  /\ UNCHANGED lookupVars /\ registryStep

\* The annotation of the very service that is executed.
CheckPermission(s) ==
  /\ pc[s] = "check"
  /\ Goto(s, IF command[s] \in permitted[s] THEN "execute" ELSE Done(s))
  /\ UNCHANGED lookupVars /\ registryStep

\* A single command catches what execute raises and answers -1.
Execute(s) ==
  /\ pc[s] = "execute"
  /\ Goto(s, Done(s)) \/ (s \in Shells /\ Goto(s, "raised"))
  /\ command' = [command EXCEPT ![s] = Nobody]
  /\ UNCHANGED <<word, refs>> /\ registryStep

Run(s) ==
  \/ GetReferences(s) \/ RaisesOnLost(s)
  \/ IsAlias(s) \/ GetCommandForAlias(s) \/ IsCommand(s) \/ GetCommand(s)
  \/ CheckPermission(s) \/ Execute(s)

-----------------------------------------------------------------------------
(* The session loops.  start submits them to the session's own thread.     *)

loopStep == UNCHANGED <<registered, permitted, command>>
threadStep == UNCHANGED <<open, alive, asked, word, refs, lines>> /\ loopStep

\* What comes before the loop, the banner, the terminal and the reader, may raise,
\* here or in the thread that called start; the client is not told.
Start(s) ==
  /\ s \in Loops /\ pc[s] = "created"
  /\ Goto(s, "loop") \/ Goto(s, "died")
  /\ UNCHANGED exits /\ threadStep

LoopEnter(s) == s \in Loops /\ pc[s] = "loop" /\ alive[s]

Reading(s) == LoopEnter(s) /\ open[s] /\ lines < MaxLines /\ lines' = lines + 1

ReadCommand(s, w) ==
  /\ asked' = [asked EXCEPT ![s] = w]
  /\ word' = [word EXCEPT ![s] = w]
  /\ Lookup(s, "isAlias")
  /\ UNCHANGED <<open, alive, exits>> /\ loopStep

ReadLine(s) == s \in Shells /\ Reading(s) /\ \E w \in Lines : ReadCommand(s, w)

ReadHelp(s) ==
  /\ s \in Shells /\ Reading(s)
  /\ Lookup(s, "helpWidths")
  /\ UNCHANGED <<sessionVars, word>> /\ loopStep

ReadScript(s) ==
  /\ s \in Scripts /\ Reading(s)
  /\ Goto(s, "eval")
  /\ UNCHANGED <<sessionVars, word, refs>> /\ loopStep

ReadExit(s) ==
  /\ LoopEnter(s) /\ open[s]
  /\ alive' = [alive EXCEPT ![s] = FALSE]
  /\ UNCHANGED <<pc, open, asked, exits, word, refs, lines>> /\ loopStep

\* readLine answers null at the end of the input.  trim on it raises inside the
\* try of a shell; no case matches it in the scripting shell, whose thread ends.
ReadNull(s) ==
  /\ LoopEnter(s) /\ ~open[s]
  /\ Goto(s, IF s \in Shells THEN "raised" ELSE "died")
  /\ UNCHANGED exits /\ threadStep

Eval(s) ==
  /\ pc[s] = "eval"
  /\ \E l \in {"loop", "raised"} : Goto(s, l)
  /\ UNCHANGED exits /\ threadStep

CatchReading(s) ==
  /\ s \in Loops /\ pc[s] = "raised"
  /\ open[s] /\ Goto(s, "loop")
  /\ UNCHANGED exits /\ threadStep

CatchEnding(s) ==
  /\ s \in Loops /\ pc[s] = "raised"
  /\ Goto(s, "ended")
  /\ UNCHANGED exits /\ threadStep

\* Whatever was raised is printed, and the loop goes on.
Catch(s) ==
  /\ s \in Loops /\ pc[s] = "raised"
  /\ Goto(s, "loop")
  /\ UNCHANGED exits /\ threadStep

OnExit(s) == exits' = [exits EXCEPT ![s] = @ + 1]

LoopEnd(s) ==
  /\ s \in Loops /\ pc[s] = "loop" /\ ~alive[s]
  /\ Goto(s, "ended")
  /\ OnExit(s) /\ threadStep

Loop(s) == PrintHelp(s) \/ ReadNull(s) \/ Eval(s) \/ Catch(s) \/ LoopEnd(s)

-----------------------------------------------------------------------------
(* A single command.  createCommand looks it up in the thread of the       *)
(* server, to which what it raises goes; start runs it there.              *)

CreateCommand(s) ==
  /\ s \in Execs /\ pc[s] = "created"
  /\ lines < MaxLines /\ lines' = lines + 1
  /\ \E w \in Lines : ReadCommand(s, w)

CreateRaises(s) ==
  /\ s \in Execs /\ pc[s] = "raised"
  /\ Goto(s, "died")
  /\ UNCHANGED exits /\ threadStep

\* onExit with 0 or -1, or by UnknownCommand.
ExecEnd(s) ==
  /\ pc[s] = "exit"
  /\ Goto(s, "ended")
  /\ OnExit(s) /\ threadStep

-----------------------------------------------------------------------------
(* The client and the bundles.                                             *)

\* The client ends its input and leaves the channel open.
EndOfInput(s) ==
  /\ s \in Loops /\ open[s] /\ pc[s] # "created"
  /\ open' = [open EXCEPT ![s] = FALSE]
  /\ UNCHANGED <<pc, alive, asked, exits, lookupVars, registered, permitted, lines>>

DestroyExiting(s) ==
  /\ s \in Loops /\ pc[s] # "created" /\ (open[s] \/ alive[s])
  /\ alive' = [alive EXCEPT ![s] = FALSE]
  /\ open' = [open EXCEPT ![s] = FALSE]
  /\ OnExit(s)
  /\ UNCHANGED <<pc, asked, lookupVars, registered, permitted, lines>>

\* The channel is closed: the server calls destroy and closes the streams.
Destroy(s) ==
  /\ s \in Loops /\ pc[s] # "created" /\ (open[s] \/ alive[s])
  /\ alive' = [alive EXCEPT ![s] = FALSE]
  /\ open' = [open EXCEPT ![s] = FALSE]
  /\ UNCHANGED <<pc, asked, exits, lookupVars, registered, permitted, lines>>

Register(c) ==
  /\ c \notin registered
  /\ registered' = registered \cup {c}
  /\ UNCHANGED <<permitted, pc, sessionVars, lookupVars, lines>>

Unregister(c) ==
  /\ c \in registered
  /\ registered' = registered \ {c}
  /\ UNCHANGED <<permitted, pc, sessionVars, lookupVars, lines>>

-----------------------------------------------------------------------------

Init ==
  /\ registered = {}
  /\ permitted \in [Shells \cup Execs -> SUBSET Commands]
  /\ pc = [s \in Sessions |-> "created"]
  /\ open = [s \in Sessions |-> TRUE]
  /\ alive = [s \in Sessions |-> TRUE]
  /\ asked = [s \in Sessions |-> Nobody] /\ word = asked
  /\ refs = [s \in Sessions |-> Unread]
  /\ command = [s \in Sessions |-> Nobody]
  /\ exits = [s \in Sessions |-> 0]
  /\ lines = 0

Next ==
  \/ \E s \in Sessions :
       \/ Run(s) \/ Loop(s) \/ CreateRaises(s) \/ ExecEnd(s)
       \/ Start(s) \/ ReadLine(s) \/ ReadHelp(s) \/ ReadScript(s) \/ ReadExit(s)
       \/ CreateCommand(s)
       \/ EndOfInput(s) \/ Destroy(s)
  \/ \E c \in Commands : Register(c) \/ Unregister(c)

Spec == Init /\ [][Next]_vars

\* A session's thread runs and commands return; users need not type.
Fairness ==
  \A s \in Sessions : WF_vars(Run(s) \/ Loop(s) \/ CreateRaises(s) \/ ExecEnd(s))

FairSpec == Spec /\ Fairness

-----------------------------------------------------------------------------
(* Properties.                                                             *)

\* Types of the variables.
TypeOK ==
  /\ registered \subseteq Commands
  /\ permitted \in [Shells \cup Execs -> SUBSET Commands]
  /\ pc \in [Sessions -> AllNamed \cup ByName \cup
              {"created", "loop", "check", "execute", "eval", "raised", "exit",
               "ended", "died"}]
  /\ open \in [Sessions -> BOOLEAN] /\ alive \in [Sessions -> BOOLEAN]
  /\ asked \in [Sessions -> Lines \cup {Nobody}]
  /\ word \in [Sessions -> Lines \cup {Nobody}]
  /\ refs \in [Sessions -> (SUBSET Commands) \cup {Unread}]
  /\ command \in [Sessions -> Commands \cup {Nobody}]
  /\ exits \in [Sessions -> 0 .. 1]
  /\ lines \in 0 .. MaxLines

\* However the bundles come and go between the lookups, a command that is run is
\* the service whose permissions the subject was found to have, also where another
\* bundle has a command of the same name.
RunsPermitted ==
  \A s \in Sessions : pc[s] = "execute" => command[s] \in permitted[s]

Answers(c, w) == FullName[c] = w \/ \E d \in Commands :
                   FullName[d] = FullName[c] /\ w \in FullAliases[d]

\* ... and has the name that was typed, or the name of a command with that alias.
RunsAsked ==
  \A s \in Sessions : pc[s] = "execute" => Answers(command[s], asked[s])

\* No failing lookup, command or script ends a session that has come to its loop:
\* only exit, destroy and, in the scripting shell, the end of the input do.
EndsOnRequest ==
  [][\A s \in Loops : pc'[s] \in {"ended", "died"} /\ pc[s] \notin {"created", "ended", "died"}
        => ~alive[s] \/ (s \in Scripts /\ ~open[s])]_vars

\* The client is told the end of its session once, also if destroy and exit race,
\* and not before the session's thread is through with its command.
OneExit == \A s \in Sessions : exits[s] = IF pc[s] = "ended" THEN 1 ELSE 0

\* After exit or destroy a session ends, whatever it is doing.
SessionEnds ==
  \A s \in Loops : ~alive[s] ~> pc[s] \in {"ended", "died"}

\* A lookup, however often bundles come and go in it, ends in an answer.
LookupEnds == \A s \in Sessions :
  pc[s] \in AllNamed \cup ByName ~> pc[s] \in {"loop", "raised", "exit", "ended", "died"}

=============================================================================
