------------------------------ MODULE OsgiLog ------------------------------
(***************************************************************************)
(* The OSGi log of dynamy.log: a LogActivator that builds a Log each time  *)
(* the bundle starts, the LoggerActor every Log owns, the framework events *)
(* and the client bundles that send to it.                                 *)
(*                                                                         *)
(* Everything that reaches an actor goes through its mailbox.  receive     *)
(* takes the oldest message that one of its cases matches and leaves the   *)
(* others where they are, so a mailbox is kept here as the sequence of all *)
(* messages ever sent with the set of those taken; a message is known by   *)
(* its position.  A Log is numbered by the start of the bundle that built  *)
(* it and outlives that bundle's stop in the clients that still hold its   *)
(* services.                                                               *)
(***************************************************************************)
EXTENDS Naturals, Sequences

CONSTANTS
  Clients,    \* bundles with a LogService and a LogReaderService
  Services,   \* services other bundles register, the subject of events
  MaxStarts,  \* bound: starts of the log bundle
  MaxSends    \* bound: messages that clients and events send to all Logs

ASSUME BoundsAssumption == MaxStarts \in Nat /\ MaxSends \in Nat

Logs == 1 .. MaxStarts
None == 0               \* no Log: a null reference, a caller not waiting

VARIABLES
  activator,  \* where start and stop of LogActivator are
  current,    \* LogActivator.log, None before the first start
  attached,   \* has the logger context the appenders of logback.xml?
  actor,      \* Log -> what its LoggerActor does
  mailbox,    \* Log -> messages sent to its LoggerActor
  taken,      \* Log -> positions of the messages it received
  listeners,  \* Log -> LoggerActor.listeners; a client has one listener
  written,    \* Log -> positions of its entries in the order of appending
  service,    \* life of a service registration
  events,     \* service events fired and not delivered to the listener yet
  ref,        \* client -> the Log behind the services it holds
  caller,     \* client -> the Log whose reply listListeners waits for
  sends       \* how many messages clients and events have sent

actorVars == <<actor, taken, listeners, written>>
osgiVars  == <<service, events>>
clientVars == <<ref, caller>>
vars == <<activator, current, attached, actorVars, mailbox, osgiVars, clientVars, sends>>

Listening == {"listening", "published", "up", "closed", "reset"}
Published == {"published", "up", "closed", "reset"}
Stages    == {"down", "configured", "created"} \cup Listening
EventTypes == {"REGISTERED", "UNREGISTERING"}

-----------------------------------------------------------------------------
(* Messages.                                                               *)

LogEntryImpl(hasBundle)  == [kind |-> "LogEntryImpl", bundle |-> hasBundle]
RegisterListener(l)      == [kind |-> "RegisterListener", listener |-> l]
RemoveListener(l)        == [kind |-> "RemoveListener", listener |-> l]
ListListeners(c)         == [kind |-> "ListListeners", sender |-> c]
RemoveAllListeners       == [kind |-> "RemoveAllListeners"]

\* An entry about the log bundle itself.
Own == LogEntryImpl(TRUE)

Messages == {LogEntryImpl(b) : b \in BOOLEAN} \cup {RemoveAllListeners}
            \cup {RegisterListener(l) : l \in Clients}
            \cup {RemoveListener(l) : l \in Clients}
            \cup {ListListeners(c) : c \in Clients}

Entry(g, n) == n \in DOMAIN mailbox[g] /\ mailbox[g][n].kind = "LogEntryImpl"

Appended(g, n) == \E i \in DOMAIN written[g] : written[g][i] = n

\* loggerActor ! m.  An actor that has ended still collects what is sent to it.
Send(g, m) == mailbox' = [mailbox EXCEPT ![g] = Append(@, m)]

\* What clients and events send is bounded; start and stop send seven more.
SendBounded(g, m) ==
  /\ sends < MaxSends
  /\ sends' = sends + 1
  /\ Send(g, m)

Positions == 1 .. MaxSends + 7

Init ==
  /\ activator = "down" /\ current = None /\ attached = FALSE
  /\ actor = [g \in Logs |-> "none"]
  /\ mailbox = [g \in Logs |-> <<>>]
  /\ taken = [g \in Logs |-> {}]
  /\ listeners = [g \in Logs |-> <<>>]
  /\ written = [g \in Logs |-> <<>>]
  /\ service = [s \in Services |-> "none"]
  /\ events = {}
  /\ ref = [c \in Clients |-> None]
  /\ caller = [c \in Clients |-> None]
  /\ sends = 0

-----------------------------------------------------------------------------
(* LogActivator.                                                           *)

Stage(from, to) == activator = from /\ activator' = to

\* configure swallows what Joran raises: the context then stays reset.
Configure ==
  /\ current < MaxStarts
  /\ Stage("down", "configured")
  /\ attached' \in BOOLEAN
  /\ UNCHANGED <<current, actorVars, mailbox, osgiVars, clientVars, sends>>

NewLog ==
  /\ Stage("configured", "created")
  /\ current' = current + 1
  /\ actor' = [actor EXCEPT ![current'] = "running"]
  /\ UNCHANGED <<attached, taken, listeners, written, mailbox, osgiVars, clientVars, sends>>

AddListeners ==
  /\ Stage("created", "listening")
  /\ UNCHANGED <<current, attached, actorVars, mailbox, osgiVars, clientVars, sends>>

\* Registering the two log services is an event for the Log itself, each one.
Publish ==
  /\ Stage("listening", "published")
  /\ mailbox' = [mailbox EXCEPT ![current] = Append(Append(@, Own), Own)]
  /\ UNCHANGED <<current, attached, actorVars, osgiVars, clientVars, sends>>

Welcome ==
  /\ Stage("published", "up")
  /\ Send(current, Own)
  /\ UNCHANGED <<current, attached, actorVars, osgiVars, clientVars, sends>>

Close ==
  /\ Stage("up", "closed")
  /\ Send(current, RemoveAllListeners)
  /\ UNCHANGED <<current, attached, actorVars, osgiVars, clientVars, sends>>

\* loggerContext.reset() detaches every appender; nobody waits for the actor.
Reset ==
  /\ Stage("closed", "reset")
  /\ attached' = FALSE
  /\ UNCHANGED <<current, actorVars, mailbox, osgiVars, clientVars, sends>>

\* The framework, after stop: it unregisters the bundle's three services while
\* the Log still listens, then removes its listeners.
Cleanup ==
  /\ Stage("reset", "down")
  /\ mailbox' = [mailbox EXCEPT ![current] = Append(Append(Append(@, Own), Own), Own)]
  /\ UNCHANGED <<current, attached, actorVars, osgiVars, clientVars, sends>>

Activate == \/ Configure \/ NewLog \/ AddListeners \/ Publish
            \/ Welcome \/ Close \/ Reset \/ Cleanup

-----------------------------------------------------------------------------
(* The framework's events, delivered in the thread that caused them.       *)

Register(s) ==
  /\ service[s] = "none"
  /\ service' = [service EXCEPT ![s] = "up"]
  /\ events' = events \cup {<<s, "REGISTERED">>}
  /\ UNCHANGED <<activator, current, attached, actorVars, mailbox, clientVars, sends>>

\* By another thread, which need not wait for the delivery of REGISTERED.
Unregister(s) ==
  /\ service[s] = "up"
  /\ service' = [service EXCEPT ![s] = "leaving"]
  /\ events' = events \cup {<<s, "UNREGISTERING">>}
  /\ UNCHANGED <<activator, current, attached, actorVars, mailbox, clientVars, sends>>

\* ServiceReference.getBundle is null once the service is unregistered.
HasBundle(s) == service[s] # "gone"

\* A registration is withdrawn when its UNREGISTERING event has been delivered.
Delivered(e) ==
  /\ events' = events \ {e}
  /\ service' = IF e[2] = "UNREGISTERING" THEN [service EXCEPT ![e[1]] = "gone"]
                                          ELSE service

serviceChanged(e) ==
  /\ e \in events
  /\ activator \in Listening
  /\ Delivered(e)
  /\ SendBounded(current, LogEntryImpl(HasBundle(e[1])))
  /\ UNCHANGED <<activator, current, attached, actorVars, clientVars>>

Unheard(e) ==
  /\ e \in events
  /\ activator \notin Listening
  /\ Delivered(e)
  /\ UNCHANGED <<activator, current, attached, actorVars, mailbox, clientVars, sends>>

\* bundleChanged and frameworkEvent alike: their events name a bundle.
bundleChanged ==
  /\ activator \in Listening
  /\ SendBounded(current, LogEntryImpl(TRUE))
  /\ UNCHANGED <<activator, current, attached, actorVars, osgiVars, clientVars>>

Notify == \/ \E s \in Services : Register(s) \/ Unregister(s)
          \/ \E e \in events : serviceChanged(e) \/ Unheard(e)
          \/ bundleChanged

-----------------------------------------------------------------------------
(* Client bundles.                                                         *)

getService(c) ==
  /\ caller[c] = None
  /\ activator \in Published
  /\ ref' = [ref EXCEPT ![c] = current]
  /\ UNCHANGED <<activator, current, attached, actorVars, mailbox, osgiVars, caller, sends>>

\* Client c calls a method that sends m to the actor.
Call(c, m) ==
  /\ caller[c] = None /\ ref[c] # None
  /\ SendBounded(ref[c], m)
  /\ UNCHANGED <<activator, current, attached, actorVars, osgiVars, ref>>

log(c) == Call(c, LogEntryImpl(TRUE)) /\ UNCHANGED caller

\* log about a service the client once had a reference of.
logAbout(c, s) ==
  /\ service[s] # "none"
  /\ Call(c, LogEntryImpl(HasBundle(s)))
  /\ UNCHANGED caller

addLogListener(c)    == Call(c, RegisterListener(c)) /\ UNCHANGED caller
removeLogListener(c) == Call(c, RemoveListener(c)) /\ UNCHANGED caller

\* getLog: listListeners waits for the reply, without a timeout.
getLog(c) == Call(c, ListListeners(c)) /\ caller' = [caller EXCEPT ![c] = ref[c]]

ClientStep(c) == \/ getService(c) \/ log(c) \/ addLogListener(c)
                 \/ removeLogListener(c) \/ getLog(c)
                 \/ \E s \in Services : logAbout(c, s)

-----------------------------------------------------------------------------
(* LoggerActor.act.                                                        *)

\* Messages no case matches stay in the mailbox.
Matched(m) == m.kind # "RemoveListener"

Ready(g) == {n \in DOMAIN mailbox[g] : n \notin taken[g] /\ Matched(mailbox[g][n])}

\* The newest message first.
Newest(g, n) == n \in Ready(g) /\ \A k \in Ready(g) : k <= n

\* A message no case matches holds up those behind it.
OldestUnlessBlocked(g, n) ==
  n \in Ready(g) /\ \A k \in DOMAIN mailbox[g] \ taken[g] : n <= k

Oldest(g, n) == n \in Ready(g) /\ \A k \in Ready(g) : n <= k

\* receive takes message n of a kind.
Take(g, n, kind) ==
  /\ actor[g] = "running"
  /\ mailbox[g][n].kind = kind
  /\ Oldest(g, n)
  /\ taken' = [taken EXCEPT ![g] = @ \cup {n}]
  /\ UNCHANGED <<activator, current, attached, mailbox, osgiVars, ref, sends>>

ReceiveEntry(g, n) ==
  /\ Take(g, n, "LogEntryImpl")
  /\ mailbox[g][n].bundle
  /\ written' = IF attached THEN [written EXCEPT ![g] = Append(@, n)] ELSE written
  /\ UNCHANGED <<actor, listeners, caller>>

\* An entry without a bundle is passed over.
SkipNull(g, n) ==
  /\ Take(g, n, "LogEntryImpl")
  /\ ~mailbox[g][n].bundle
  /\ UNCHANGED <<actor, listeners, written, caller>>

\* bundle.getSymbolicName() on a null bundle ends the actor.
ReceiveNull(g, n) ==
  /\ Take(g, n, "LogEntryImpl")
  /\ ~mailbox[g][n].bundle
  /\ actor' = [actor EXCEPT ![g] = "dead"]
  /\ UNCHANGED <<listeners, written, caller>>

ReceiveRegister(g, n) ==
  /\ Take(g, n, "RegisterListener")
  /\ listeners' = [listeners EXCEPT ![g] = Append(@, mailbox[g][n].listener)]
  /\ UNCHANGED <<actor, written, caller>>

\* No reply while there is no listener.
ReceiveListNonempty(g, n) ==
  /\ Take(g, n, "ListListeners")
  /\ caller' = IF listeners[g] = <<>> THEN caller
               ELSE [caller EXCEPT ![mailbox[g][n].sender] = None]
  /\ UNCHANGED <<actor, listeners, written>>

ReceiveList(g, n) ==
  /\ Take(g, n, "ListListeners")
  /\ caller' = [caller EXCEPT ![mailbox[g][n].sender] = None]
  /\ UNCHANGED <<actor, listeners, written>>

\* Without exit().
RemoveAllWithoutExit(g, n) ==
  /\ Take(g, n, "RemoveAllListeners")
  /\ listeners' = [listeners EXCEPT ![g] = <<>>]
  /\ UNCHANGED <<actor, written, caller>>

ReceiveRemoveAll(g, n) ==
  /\ Take(g, n, "RemoveAllListeners")
  /\ listeners' = [listeners EXCEPT ![g] = <<>>]
  /\ actor' = [actor EXCEPT ![g] = "exited"]
  /\ UNCHANGED <<written, caller>>

\* With a case for RemoveListener.
ReceiveAndRemove(g) ==
  \/ \E n \in DOMAIN mailbox[g] :
       \/ ReceiveEntry(g, n) \/ ReceiveNull(g, n) \/ ReceiveRegister(g, n)
       \/ ReceiveList(g, n) \/ ReceiveRemoveAll(g, n)
  \/ \E n \in DOMAIN mailbox[g] \ taken[g] :
       /\ actor[g] = "running" /\ mailbox[g][n].kind = "RemoveListener"
       /\ \A k \in DOMAIN mailbox[g] \ taken[g] : n <= k
       /\ taken' = [taken EXCEPT ![g] = @ \cup {n}]
       /\ listeners' = [listeners EXCEPT ![g] =
                          SelectSeq(@, LAMBDA l : l # mailbox[g][n].listener)]
       /\ UNCHANGED <<activator, current, attached, actor, written, mailbox,
                      osgiVars, clientVars, sends>>

Receive(g) ==
  \E n \in DOMAIN mailbox[g] :
    \/ ReceiveEntry(g, n) \/ ReceiveNull(g, n) \/ ReceiveRegister(g, n)
    \/ ReceiveList(g, n) \/ ReceiveRemoveAll(g, n)

-----------------------------------------------------------------------------
Next == \/ Activate \/ Notify
        \/ \E c \in Clients : ClientStep(c)
        \/ \E g \in Logs : Receive(g)

Spec == Init /\ [][Next]_vars

\* The thread of an actor is scheduled as long as it has something to receive.
FairSpec == Spec /\ \A g \in Logs : WF_vars(Receive(g))

-----------------------------------------------------------------------------
(* Properties.                                                             *)

\* Every variable has its type, and what is taken was sent.
TypeOK ==
  /\ activator \in Stages
  /\ current \in 0 .. MaxStarts
  /\ attached \in BOOLEAN
  /\ actor \in [Logs -> {"none", "running", "dead", "exited"}]
  /\ mailbox \in [Logs -> Seq(Messages)]
  /\ taken \in [Logs -> SUBSET Nat]
  /\ \A g \in Logs : taken[g] \subseteq DOMAIN mailbox[g]
  /\ listeners \in [Logs -> Seq(Clients)]
  /\ written \in [Logs -> Seq(Nat)]
  /\ service \in [Services -> {"none", "up", "leaving", "gone"}]
  /\ events \subseteq Services \X EventTypes
  /\ ref \in [Clients -> 0 .. MaxStarts]
  /\ caller \in [Clients -> 0 .. MaxStarts]
  /\ sends \in 0 .. MaxSends

\* Entries sent to one Log are appended in the order they were sent, whatever
\* thread sent them and whatever receive skipped in between (LoggerActor.act).
WrittenInOrder ==
  \A g \in Logs : \A i, j \in DOMAIN written[g] :
    i < j => written[g][i] < written[g][j]

\* Nothing that was sent after close is ever appended, be it from a client
\* that kept the service of a stopped Log or an event of the stop itself
\* (Log.close, the exit of LoggerActor).
ClosedIsFinal ==
  \A g \in Logs : \A i \in DOMAIN written[g], n \in DOMAIN mailbox[g] :
    mailbox[g][n].kind = "RemoveAllListeners" => written[g][i] < n

\* Until stop resets the logger context, an entry of the current Log is either
\* appended or still in the mailbox of an actor that runs: none is lost between
\* two starts, unless the actor died or logback could not be configured.
NothingLost ==
  activator \in Listening \ {"reset"} /\ attached /\ actor[current] = "running" =>
    \A n \in DOMAIN mailbox[current] :
      Entry(current, n) => n \notin taken[current] \/ Appended(current, n)

\* listListeners answers a client after it took every registration the client
\* made with that Log: a client reads its own registration, even one it asked
\* to remove, since no case of LoggerActor.act receives RemoveListener.
ReadsOwnRegistration ==
  [][\A c \in Clients :
       LET g == caller[c] IN
       g # None /\ caller'[c] = None =>
         \A n \in DOMAIN mailbox[g] :
           mailbox[g][n] = RegisterListener(c) =>
             \E i \in DOMAIN listeners[g] : listeners[g][i] = c]_vars

\* A caller of listListeners gets its reply unless the actor has ended, in
\* which case it waits for ever (Log.listListeners has no timeout).
Answered ==
  \A c \in Clients : \A g \in Logs :
    caller[c] = g ~> caller[c] # g \/ actor[g] \in {"dead", "exited"}

\* A stopped Log does not leave its actor's thread behind (Log.close).
Stops ==
  \A g \in Logs :
    (\E n \in DOMAIN mailbox[g] : mailbox[g][n].kind = "RemoveAllListeners")
      ~> actor[g] \in {"dead", "exited"}

\* Every entry is appended in the end unless the actor ended or the logger
\* context was reset; messages that no case matches do not hold it up.
WrittenInTheEnd ==
  \A g \in Logs : \A n \in Positions :
    Entry(g, n) ~> \/ Appended(g, n)
                   \/ actor[g] \in {"dead", "exited"}
                   \/ ~attached
=============================================================================
