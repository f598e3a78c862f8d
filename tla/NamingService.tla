--------------------------- MODULE NamingService ---------------------------
(***************************************************************************)
(* NamingService, the one bean of the services bundle: init registers a    *)
(* local data source and one for each pool of the configuration, shutdown  *)
(* takes them back.  The blueprint container runs init in a thread of its   *)
(* own and, if init is through by then, shutdown when the bundle stops; the *)
(* framework takes back what the bundle has left registered.                *)
(***************************************************************************)
EXTENDS ServerConfig

CONSTANTS
  NPools,      \* pools of the configuration, in the order of its map
  Bad,         \* pools that cannot be built: a driver or a property that is wrong
  MayFail,     \* pools whose database may not answer, and XA pools, whose data
               \* source needs a transaction manager that may not be registered
  MaxStarts    \* bound: starts of the services bundle

Pools   == 1 .. NPools
Local   == 0               \* jdbc/dynamyServices of buildLocalDs
Sources == Pools \cup {Local}
Starts  == 1 .. MaxStarts

ConstantsOK ==
  /\ ConfigConstantsOK
  /\ NPools \in Nat /\ MaxStarts \in Nat
  /\ Bad \subseteq Pools /\ MayFail \subseteq Pools

VARIABLES
  started,     \* starts of the services bundle
  bundle,      \* what the last of them has come to
  init,        \* start -> where the thread that runs init is
  context,     \* start -> the start whose context getConfigService took, 0 if none
  ref,         \* start -> the configuration service it has a reference to
  at,          \* start -> the pool it is at
  funcs,       \* start -> data sources to be probed
  registered,  \* <<g, k>>: the data source k that start g has registered
  open,        \* <<g, k>>: start g's pool k has connections
  overlaps,    \* history: starts whose stop began while init was at work
  bereft       \* history: starts that lost the configuration they had found

bundleVars == <<started, bundle>>
threadVars == <<init, context, ref, at, funcs>>
history    == <<overlaps, bereft>>
vars == <<configVars, bundleVars, threadVars, registered, open, history>>

Init ==
  /\ ConfigInit
  /\ started = 0 /\ bundle = "stopped"
  /\ init = [g \in Starts |-> "none"]
  /\ context = [g \in Starts |-> 0]
  /\ ref = [g \in Starts |-> 0]
  /\ at = [g \in Starts |-> 1]
  /\ funcs = [g \in Starts |-> {}]
  /\ registered = {} /\ open = {}
  /\ overlaps = {} /\ bereft = {}

Working(g) == init[g] \in {"local", "context", "spin", "fetch", "pools", "probes"}

Goto(g, l) == init' = [init EXCEPT ![g] = l]

\* getBundleContext answers the context of the start that is on, null if none is.
HasContext == bundle # "stopped"

\* The context taken before is still that of the start that is on.
Valid(g) == HasContext /\ context[g] = started

-----------------------------------------------------------------------------
(* The bundle of the configuration service.                                *)

ConfigStart == Publish /\ UNCHANGED <<bundleVars, threadVars, registered, open, history>>

ConfigStop ==
  /\ Withdraw
  /\ bereft' = bereft \cup {g \in Starts : init[g] = "fetch"}
  /\ UNCHANGED <<bundleVars, threadVars, registered, open, overlaps>>

-----------------------------------------------------------------------------
(* The services bundle.                                                    *)

Start ==
  /\ bundle = "stopped" /\ started < MaxStarts
  /\ started' = started + 1
  /\ bundle' = "active"
  /\ Goto(started + 1, "local")
  /\ UNCHANGED <<configVars, context, ref, at, funcs, registered, open, history>>

Stop ==
  /\ bundle = "active"
  /\ bundle' = "stopping"
  /\ overlaps' = overlaps \cup {g \in Starts : g = started /\ Working(g)}
  /\ UNCHANGED <<configVars, started, threadVars, registered, open, bereft>>

\* shutdown closes the members of dataSources, which has none, and unregisters
\* what init has registered.
Shutdown ==
  /\ bundle = "stopping"
  /\ bundle' = "destroyed"
  /\ registered' = registered \ {s \in {started} \X Sources : init[started] = "through"}
  /\ UNCHANGED <<configVars, started, threadVars, open, history>>

StoppedKeeping ==
  /\ bundle = "destroyed"
  /\ bundle' = "stopped"
  /\ UNCHANGED <<configVars, started, threadVars, registered, open, history>>

\* The framework unregisters the rest.
Stopped ==
  /\ bundle = "destroyed"
  /\ bundle' = "stopped"
  /\ registered' = {}
  /\ UNCHANGED <<configVars, started, threadVars, open, history>>

-----------------------------------------------------------------------------
(* init, in its own thread.                                                *)

threadStep == UNCHANGED <<configVars, bundleVars, history>>

Register(g, k) == registered' = registered \cup {<<g, k>>}

\* createDataSource of the local data source.
RegisterLocal(g) ==
  /\ init[g] = "local"
  /\ IF HasContext THEN Register(g, Local) /\ Goto(g, "context")
                   ELSE Goto(g, "raised") /\ UNCHANGED registered
  /\ UNCHANGED <<context, ref, at, funcs, open>> /\ threadStep

\* getConfigService takes a context, once, ...
TakeContext(g) ==
  /\ init[g] = "context"
  /\ context' = [context EXCEPT ![g] = IF HasContext THEN started ELSE 0]
  /\ Goto(g, IF HasContext THEN "spin" ELSE "raised")
  /\ UNCHANGED <<ref, at, funcs, registered, open>> /\ threadStep

SpinOnce(g) ==
  /\ init[g] = "spin"
  /\ ref' = [ref EXCEPT ![g] = IF Valid(g) THEN config ELSE 0]
  /\ Goto(g, IF Valid(g) /\ config # 0 THEN "fetch" ELSE "raised")
  /\ UNCHANGED <<context, at, funcs, registered, open>> /\ threadStep

SpinFirstOnly(g) ==
  /\ init[g] = "spin"
  /\ config = 1 \/ ~Valid(g)
  /\ ref' = [ref EXCEPT ![g] = IF Valid(g) THEN config ELSE 0]
  /\ Goto(g, IF Valid(g) THEN "fetch" ELSE "raised")
  /\ UNCHANGED <<context, at, funcs, registered, open>> /\ threadStep

\* ... asks it for a reference until there is one ...
Spin(g) ==
  /\ init[g] = "spin"
  /\ config # 0 \/ ~Valid(g)
  /\ ref' = [ref EXCEPT ![g] = IF Valid(g) THEN config ELSE 0]
  /\ Goto(g, IF Valid(g) THEN "fetch" ELSE "raised")
  /\ UNCHANGED <<context, at, funcs, registered, open>> /\ threadStep

\* ... and resolves it.  The service may be gone: then getConfig raises.
Fetch(g) ==
  /\ init[g] = "fetch"
  /\ Goto(g, IF Valid(g) /\ ref[g] = config THEN "pools" ELSE "raised")
  /\ UNCHANGED <<context, ref, at, funcs, registered, open>> /\ threadStep

PoolUncaught(g) ==
  /\ init[g] = "pools" /\ at[g] \in Pools
  /\ IF at[g] \notin Bad /\ HasContext
     THEN Register(g, at[g]) /\ funcs' = [funcs EXCEPT ![g] = @ \cup {at[g]}] /\ UNCHANGED init
     ELSE Goto(g, "probes") /\ UNCHANGED <<registered, funcs>>
  /\ at' = [at EXCEPT ![g] = @ + 1]
  /\ UNCHANGED <<context, ref, open>> /\ threadStep

\* One pool of the configuration is built and registered.  What raises on the
\* way, a driver or the lack of a context, is logged and concerns this pool only.
Pool(g) ==
  /\ init[g] = "pools" /\ at[g] \in Pools
  /\ IF at[g] \notin Bad /\ HasContext
     THEN Register(g, at[g]) /\ funcs' = [funcs EXCEPT ![g] = @ \cup {at[g]}]
     ELSE UNCHANGED <<registered, funcs>>
  /\ at' = [at EXCEPT ![g] = @ + 1]
  /\ UNCHANGED <<init, context, ref, open>> /\ threadStep

PoolsDone(g) ==
  /\ init[g] = "pools" /\ at[g] \notin Pools
  /\ Goto(g, "probes")
  /\ UNCHANGED <<context, ref, at, funcs, registered, open>> /\ threadStep

\* getConnection opens the pool; whatever it raises is logged.
Probe(g) ==
  /\ init[g] = "probes"
  /\ \E k \in funcs[g] :
       /\ \A j \in funcs[g] : k <= j
       /\ funcs' = [funcs EXCEPT ![g] = @ \ {k}]
       /\ open' = open \cup {<<g, k>>} \/ (k \in MayFail /\ UNCHANGED open)
  /\ UNCHANGED <<init, context, ref, at, registered>> /\ threadStep

ProbesDone(g) ==
  /\ init[g] = "probes" /\ funcs[g] = {}
  /\ Goto(g, "through")
  /\ UNCHANGED <<context, ref, at, funcs, registered, open>> /\ threadStep

Thread(g) ==
  \/ RegisterLocal(g) \/ TakeContext(g) \/ Spin(g) \/ Fetch(g)
  \/ Pool(g) \/ PoolsDone(g) \/ Probe(g) \/ ProbesDone(g)

-----------------------------------------------------------------------------
Next ==
  \/ ConfigStart \/ ConfigStop
  \/ Start \/ Stop \/ Shutdown \/ Stopped
  \/ \E g \in Starts : Thread(g)

Spec == Init /\ [][Next]_vars

\* The thread of the container is a thread of the JVM.
Fairness == \A g \in Starts : WF_vars(Thread(g))

FairSpec == Spec /\ Fairness

-----------------------------------------------------------------------------
(* Properties.                                                             *)

TypeOK ==
  /\ ConfigTypeOK
  /\ started \in 0 .. MaxStarts
  /\ bundle \in {"active", "stopping", "destroyed", "stopped"}
  /\ init \in [Starts -> {"none", "local", "context", "spin", "fetch", "pools",
                          "probes", "through", "raised"}]
  /\ context \in [Starts -> 0 .. MaxStarts] /\ ref \in [Starts -> 0 .. MaxConfigs]
  /\ at \in [Starts -> 1 .. NPools + 1]
  /\ funcs \in [Starts -> SUBSET Pools]
  /\ registered \subseteq Starts \X Sources /\ open \subseteq Starts \X Pools
  /\ overlaps \subseteq Starts /\ bereft \subseteq Starts

\* Once init is through, the local data source and every pool that can be built
\* are registered, whichever others could not be, and have been tried once; those
\* that cannot fail have connections.
AllConfigured == \A g \in Starts :
  (g = started /\ bundle = "active" /\ init[g] = "through") =>
    /\ {k \in Sources : <<g, k>> \in registered} = Sources \ Bad
    /\ Pools \ (Bad \cup MayFail) \subseteq {k \in Pools : <<g, k>> \in open}

\* What an earlier start has left registered beside a later one was registered
\* by an init that its own stop overtook.
StrayOnlyByOverlap == \A s \in registered : s[1] # started => s[1] \in overlaps

\* init fails only when the bundle is stopped before it is through, or when the
\* configuration service goes away in the moment after it was found.
RaisesWithCause == \A g \in Starts :
  init[g] = "raised" => g \in overlaps \cup bereft

\* If the configuration service comes to stay, no init waits for ever, whatever
\* becomes of its bundle.
InitEnds ==
  <>[](config # 0) => \A g \in Starts : Working(g) ~> init[g] \in {"through", "raised"}

=============================================================================
