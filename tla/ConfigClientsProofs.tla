------------------------ MODULE ConfigClientsProofs ------------------------
(***************************************************************************)
(* Theorems about the clients of the configuration service, for any pools,  *)
(* threads, keys and bounds: what init registers and when it fails, and     *)
(* that memcached, with calls that time out, gives nothing back that was    *)
(* replaced.                                                               *)
(***************************************************************************)
EXTENDS ConfigClients, TLAPS

-----------------------------------------------------------------------------
(* NamingService.                                                          *)

\* The sources that start g has registered, and the pools it has opened.
Of(g)    == {k \in Naming!Sources : <<g, k>> \in registered}
Opened(g) == {k \in Naming!Pools : <<g, k>> \in open}

\* A start that is still to come has done nothing.
Fresh(g) == g > started =>
  init[g] = "none" /\ at[g] = 1 /\ funcs[g] = {} /\ g \notin overlaps

\* An init that its bundle's stop has not overtaken runs under its own bundle.
OnTime(g) == Naming!Working(g) /\ g \notin overlaps => g = started /\ bundle = "active"

\* The start that is on has not been overtaken.
Active(g) == g = started /\ bundle = "active"

\* What is registered belongs to the start that is on, or was overtaken.
Strays == \A s \in registered : s[1] \in overlaps \/ (s[1] = started /\ bundle # "stopped")

\* While it is on time, init has its own context and the service it found.
Found(g) ==
  g \notin overlaps /\ init[g] \in {"spin", "fetch"} =>
    /\ context[g] = g
    /\ init[g] = "fetch" /\ g \notin bereft => ref[g] = config /\ config # 0

Causes(g) == init[g] = "raised" => g \in overlaps \cup bereft

\* How far init is.
Progress(g) == Active(g) =>
  /\ init[g] \in {"local", "context", "spin", "fetch"} =>
       /\ Of(g) = IF init[g] = "local" THEN {} ELSE {Naming!Local}
       /\ at[g] = 1 /\ funcs[g] = {}
  /\ init[g] = "pools" =>
       /\ Of(g) = {Naming!Local} \cup ((1 .. at[g] - 1) \ Bad)
       /\ funcs[g] = (1 .. at[g] - 1) \ Bad
  /\ init[g] \in {"probes", "through"} =>
       /\ Of(g) = Naming!Sources \ Bad
       /\ Naming!Pools \ (Bad \cup MayFail \cup funcs[g]) \subseteq Opened(g)
  /\ init[g] = "through" => funcs[g] = {}
  /\ init[g] # "none"

StartInv(g) ==
  /\ Fresh(g) /\ OnTime(g) /\ (Active(g) => g \notin overlaps)
  /\ Found(g) /\ Causes(g) /\ Progress(g)

NamingInv == Naming!TypeOK /\ Strays /\ \A g \in Naming!Starts : StartInv(g)

-----------------------------------------------------------------------------
(* ShiroCache.                                                             *)

\* Until the service has gone at the wrong moment, nobody has missed it.
BuildInv ==
  ~cacheBereft =>
    /\ resolved => service # 0
    /\ \A t \in Threads : /\ pc[t] # "refused"
                          /\ pc[t] = "fetch" => cacheRef[t] = config /\ config # 0

\* Calls are numbered, and a thread that is at one has its own.
BusyInv == \A t \in Threads : Cache!Busy(t) =>
  /\ call[t] \in 1 .. calls
  /\ kind[call[t]] \in {"get", "put", "remove"}
  /\ call[t] \notin ended
  /\ \A r \in wire : r.call # call[t]
  /\ \A u \in Threads : Cache!Busy(u) /\ call[u] = call[t] => u = t

WireInv == \A r \in wire :
  /\ r.call \in 1 .. calls
  /\ r.value # 0 => r.value = r.call /\ r.keys = {key[r.call]} /\ r.call \notin ended

EndedInv ==
  /\ ended \subseteq 1 .. calls
  /\ \A d \in Cache!Calls : before[d] \subseteq ended
  /\ \A d \in Cache!Calls : d > calls => prev[d] = 0

\* What may still be written, or is there, is expected.
ExpectedInv == \A k \in Keys :
  /\ store[k] \in expected[k] \cup {0}
  /\ \A r \in wire : k \in r.keys => r.value \in expected[k] \cup {0}
  /\ \A t \in Threads : Cache!Busy(t) /\ kind[call[t]] = "put" /\ key[call[t]] = k
       => call[t] \in expected[k]

\* The value of call n has been in the server and is not under way any more.
Spent(n) ==
  /\ n \in 1 .. calls
  /\ \A r \in wire : r.value # n
  /\ \A t \in Threads : Cache!Busy(t) => call[t] # n

\* What the server holds, and what a call has seen there, is spent and of its key.
Held == \A k \in Keys : store[k] # 0 => Spent(store[k]) /\ key[store[k]] = k
Seen == \A c \in Cache!Calls : prev[c] # 0 => Spent(prev[c]) /\ key[prev[c]] = key[c]

\* A value whose replacement has answered is gone, and was not seen since.
Replaced == \A c \in ended : kind[c] \in {"put", "remove"} /\ prev[c] # 0 =>
  /\ \A k \in Keys : store[k] # prev[c]
  /\ \A d \in Cache!Calls : c \in before[d] => prev[d] # prev[c]

CallInv == BusyInv /\ WireInv /\ EndedInv /\ ExpectedInv /\ Held /\ Seen /\ Replaced

CacheInv == Cache!TypeOK /\ BuildInv /\ CallInv

\* The client that a behaviour does not show has done nothing.
Other ==
  /\ client = "naming" => ~resolved /\ \A t \in Threads : pc[t] = "new"
  /\ client = "cache" => \A g \in Naming!Starts : init[g] = "none"

Inv == NamingInv /\ CacheInv /\ Other

-----------------------------------------------------------------------------
(* NamingService keeps NamingInv.                                          *)

LEMMA NamingConstants ==
  /\ MaxConfigs \in Nat /\ NPools \in Nat /\ MaxStarts \in Nat
  /\ Bad \subseteq 1 .. NPools /\ MayFail \subseteq 1 .. NPools
  BY ClientsAssumption DEF Naming!ConstantsOK, Naming!ConfigConstantsOK, Naming!Pools

LEMMA NamingInit == Naming!Init => NamingInv
<1> SUFFICES ASSUME Naming!Init PROVE NamingInv
  OBVIOUS
<1> USE NamingConstants DEF Naming!Init, Naming!ConfigInit
<1>1. Naming!TypeOK BY DEF Naming!TypeOK, Naming!ConfigTypeOK, Naming!Starts
<1>2. Strays BY DEF Strays
<1>3. \A g \in Naming!Starts : StartInv(g)
  BY DEF StartInv, Fresh, OnTime, Active, Found, Causes, Progress, Naming!Working, Naming!Starts
<1> QED BY <1>1, <1>2, <1>3 DEF NamingInv

\* What the thread of g may count on before each of its steps.
LEMMA ThreadFacts ==
  ASSUME NamingInv, NEW g \in Naming!Starts, Naming!Working(g)
  PROVE  /\ Naming!TypeOK /\ g <= started
         /\ g \notin overlaps => Active(g) /\ Naming!HasContext /\ Progress(g) /\ Found(g)
         /\ g \in overlaps => ~Active(g)
BY DEF NamingInv, StartInv, OnTime, Fresh, Active, Naming!HasContext, Naming!Working, Naming!TypeOK,
       Naming!Starts

\* A step of the thread of one start need only keep what is said of that one,
\* and only while it is on time.
LEMMA OneThread ==
  ASSUME NamingInv, NEW g \in Naming!Starts, Naming!Working(g), Naming!TypeOK',
         g \notin overlaps => Found(g)' /\ Causes(g)' /\ Progress(g)',
         UNCHANGED <<configs, config, started, bundle, overlaps, bereft>>,
         \A h \in Naming!Starts : h # g =>
           /\ init'[h] = init[h] /\ context'[h] = context[h] /\ ref'[h] = ref[h]
           /\ at'[h] = at[h] /\ funcs'[h] = funcs[h],
         \/ UNCHANGED registered
         \/ \E k \in Naming!Sources : registered' = registered \cup {<<g, k>>},
         UNCHANGED open \/ \E k \in Naming!Pools : open' = open \cup {<<g, k>>}
  PROVE  NamingInv'
<1>1. ASSUME NEW h \in Naming!Starts, h # g
      PROVE  StartInv(h)'
  <2>1. Of(h)' = Of(h) /\ Opened(h)' = Opened(h) BY <1>1 DEF Of, Opened
  <2> QED BY <1>1, <2>1 DEF NamingInv, StartInv, Fresh, OnTime, Active, Found, Causes, Progress,
             Naming!Working
<1>2. Strays'
  <2>1. g \in overlaps \/ (g = started /\ bundle # "stopped")
    BY DEF NamingInv, StartInv, OnTime
  <2> QED BY <2>1 DEF NamingInv, Strays
<1>3. StartInv(g)'
  <2>1. ~(g > started) BY ThreadFacts DEF Naming!Starts, Naming!TypeOK
  <2>2. CASE g \in overlaps
    BY <2>1, <2>2, ThreadFacts DEF StartInv, Fresh, OnTime, Active, Found, Causes, Progress
  <2>3. CASE g \notin overlaps
    BY <2>1, <2>3, ThreadFacts DEF StartInv, Fresh, OnTime, Active
  <2> QED BY <2>2, <2>3
<1> QED BY <1>1, <1>2, <1>3 DEF NamingInv, Naming!Starts

LEMMA RegisterLocalKeeps ==
  ASSUME NamingInv, NEW g \in Naming!Starts, Naming!RegisterLocal(g)
  PROVE  NamingInv'
<1> USE NamingConstants DEF Naming!Goto, Naming!threadStep, Naming!configVars, Naming!bundleVars,
        Naming!history, Naming!Register
<1>1. Naming!Working(g) BY DEF Naming!Working, Naming!RegisterLocal
<1>a. Naming!TypeOK BY DEF NamingInv
<1>2. /\ UNCHANGED <<configs, config, started, bundle, overlaps, bereft, context, ref, at, funcs, open>>
      /\ init[g] = "local"
      /\ init' = [init EXCEPT ![g] = IF Naming!HasContext THEN "context" ELSE "raised"]
      /\ registered' = IF Naming!HasContext THEN registered \cup {<<g, Naming!Local>>} ELSE registered
  BY DEF Naming!RegisterLocal
<1>3. Naming!TypeOK'
  BY <1>a, <1>2 DEF Naming!TypeOK, Naming!ConfigTypeOK, Naming!Sources
<1>4. ASSUME g \notin overlaps
      PROVE  Found(g)' /\ Causes(g)' /\ Progress(g)'
  <2>1. /\ Active(g) /\ Of(g) = {} /\ at[g] = 1 /\ funcs[g] = {}
        /\ registered' = registered \cup {<<g, Naming!Local>>} /\ init'[g] = "context"
    BY <1>1, <1>2, <1>4, <1>a, ThreadFacts DEF Progress, Naming!TypeOK
  <2>2. Of(g)' = {Naming!Local} BY <2>1 DEF Of, Naming!Sources
  <2> QED BY <1>2, <2>1, <2>2 DEF Found, Causes, Progress, Active
<1> QED BY <1>1, <1>2, <1>3, <1>4, <1>a, OneThread DEF Naming!TypeOK, Naming!Sources

LEMMA TakeContextKeeps ==
  ASSUME NamingInv, NEW g \in Naming!Starts, Naming!TakeContext(g)
  PROVE  NamingInv'
<1> USE NamingConstants DEF Naming!Goto, Naming!threadStep, Naming!configVars, Naming!bundleVars,
        Naming!history
<1>1. Naming!Working(g) BY DEF Naming!Working, Naming!TakeContext
<1>a. Naming!TypeOK BY DEF NamingInv
<1>2. /\ UNCHANGED <<configs, config, started, bundle, overlaps, bereft, ref, at, funcs, registered, open>>
      /\ init[g] = "context"
      /\ init' = [init EXCEPT ![g] = IF Naming!HasContext THEN "spin" ELSE "raised"]
      /\ context' = [context EXCEPT ![g] = IF Naming!HasContext THEN started ELSE 0]
  BY DEF Naming!TakeContext
<1>3. Naming!TypeOK'
  BY <1>a, <1>2 DEF Naming!TypeOK, Naming!ConfigTypeOK
<1>4. ASSUME g \notin overlaps
      PROVE  Found(g)' /\ Causes(g)' /\ Progress(g)'
  <2>1. /\ Active(g) /\ Of(g) = {Naming!Local} /\ at[g] = 1 /\ funcs[g] = {}
        /\ init'[g] = "spin" /\ context'[g] = g
    BY <1>1, <1>2, <1>4, <1>a, ThreadFacts DEF Progress, Active, Naming!TypeOK
  <2>2. Of(g)' = {Naming!Local} BY <1>2, <2>1 DEF Of
  <2> QED BY <1>2, <2>1, <2>2 DEF Found, Causes, Progress, Active
<1> QED BY <1>1, <1>2, <1>3, <1>4, <1>a, OneThread DEF Naming!TypeOK, Naming!Sources

LEMMA SpinKeeps ==
  ASSUME NamingInv, NEW g \in Naming!Starts, Naming!Spin(g)
  PROVE  NamingInv'
<1> USE NamingConstants DEF Naming!Goto, Naming!threadStep, Naming!configVars, Naming!bundleVars,
        Naming!history
<1>1. Naming!Working(g) BY DEF Naming!Working, Naming!Spin
<1>a. Naming!TypeOK BY DEF NamingInv
<1>2. /\ UNCHANGED <<configs, config, started, bundle, overlaps, bereft, context, at, funcs, registered, open>>
      /\ init[g] = "spin" /\ (config # 0 \/ ~Naming!Valid(g))
      /\ init' = [init EXCEPT ![g] = IF Naming!Valid(g) THEN "fetch" ELSE "raised"]
      /\ ref' = [ref EXCEPT ![g] = IF Naming!Valid(g) THEN config ELSE 0]
  BY DEF Naming!Spin
<1>3. Naming!TypeOK'
  BY <1>a, <1>2 DEF Naming!TypeOK, Naming!ConfigTypeOK
<1>4. ASSUME g \notin overlaps
      PROVE  Found(g)' /\ Causes(g)' /\ Progress(g)'
  <2>1. /\ Active(g) /\ Of(g) = {Naming!Local} /\ at[g] = 1 /\ funcs[g] = {} /\ context[g] = g
    BY <1>1, <1>2, <1>4, <1>a, ThreadFacts DEF Progress, Found
  <2>2. Naming!Valid(g) BY <1>1, <1>4, <2>1, ThreadFacts DEF Active, Naming!Valid
  <2>3. init'[g] = "fetch" /\ ref'[g] = config /\ config # 0
    BY <1>2, <1>a, <2>2 DEF Naming!TypeOK
  <2>4. Of(g)' = {Naming!Local} BY <1>2, <2>1 DEF Of
  <2> QED BY <1>2, <2>1, <2>3, <2>4 DEF Found, Causes, Progress, Active
<1> QED BY <1>1, <1>2, <1>3, <1>4, <1>a, OneThread DEF Naming!TypeOK, Naming!Sources

LEMMA FetchKeeps ==
  ASSUME NamingInv, NEW g \in Naming!Starts, Naming!Fetch(g)
  PROVE  NamingInv'
<1> USE NamingConstants DEF Naming!Goto, Naming!threadStep, Naming!configVars, Naming!bundleVars,
        Naming!history
<1>1. Naming!Working(g) BY DEF Naming!Working, Naming!Fetch
<1>a. Naming!TypeOK BY DEF NamingInv
<1>2. /\ UNCHANGED <<configs, config, started, bundle, overlaps, bereft, context, ref, at, funcs, registered, open>>
      /\ init[g] = "fetch"
      /\ init' = [init EXCEPT ![g] = IF Naming!Valid(g) /\ ref[g] = config THEN "pools" ELSE "raised"]
  BY DEF Naming!Fetch
<1>3. Naming!TypeOK'
  BY <1>a, <1>2 DEF Naming!TypeOK, Naming!ConfigTypeOK
<1>4. ASSUME g \notin overlaps
      PROVE  Found(g)' /\ Causes(g)' /\ Progress(g)'
  <2>1. /\ Active(g) /\ Of(g) = {Naming!Local} /\ at[g] = 1 /\ funcs[g] = {}
        /\ Naming!Valid(g) /\ (g \notin bereft => ref[g] = config)
    BY <1>1, <1>2, <1>4, <1>a, ThreadFacts DEF Progress, Found, Active, Naming!Valid
  <2>2. Of(g)' = {Naming!Local} BY <1>2, <2>1 DEF Of
  <2>3. CASE ref[g] = config
    <3>1. init'[g] = "pools" BY <1>2, <1>a, <2>1, <2>3 DEF Naming!TypeOK
    <3>2. 1 .. at'[g] - 1 = {} BY <1>2, <2>1
    <3> QED BY <1>2, <2>1, <2>2, <3>1, <3>2 DEF Found, Causes, Progress, Active
  <2>4. CASE ref[g] # config
    <3>1. init'[g] = "raised" BY <1>2, <1>a, <2>1, <2>4 DEF Naming!TypeOK
    <3> QED BY <1>2, <2>1, <2>4, <3>1 DEF Found, Causes, Progress, Active
  <2> QED BY <2>3, <2>4
<1> QED BY <1>1, <1>2, <1>3, <1>4, <1>a, OneThread DEF Naming!TypeOK, Naming!Sources

LEMMA PoolKeeps ==
  ASSUME NamingInv, NEW g \in Naming!Starts, Naming!Pool(g)
  PROVE  NamingInv'
<1> USE NamingConstants DEF Naming!Goto, Naming!threadStep, Naming!configVars, Naming!bundleVars,
        Naming!history
<1>1. Naming!Working(g) BY DEF Naming!Working, Naming!Pool
<1>a. Naming!TypeOK BY DEF NamingInv
<1> DEFINE built == at[g] \notin Bad /\ Naming!HasContext
<1>2. /\ UNCHANGED <<configs, config, started, bundle, overlaps, bereft, init, context, ref, open>>
      /\ init[g] = "pools" /\ at[g] \in Naming!Pools
      /\ at' = [at EXCEPT ![g] = @ + 1]
      /\ funcs' = IF built THEN [funcs EXCEPT ![g] = @ \cup {at[g]}] ELSE funcs
      /\ registered' = IF built THEN registered \cup {<<g, at[g]>>} ELSE registered
  BY DEF Naming!Pool, Naming!Register
<1>3. Naming!TypeOK'
  BY <1>a, <1>2 DEF Naming!TypeOK, Naming!ConfigTypeOK, Naming!Pools, Naming!Sources
<1>4. ASSUME g \notin overlaps
      PROVE  Found(g)' /\ Causes(g)' /\ Progress(g)'
  <2>1. /\ Active(g) /\ Naming!HasContext
        /\ Of(g) = {Naming!Local} \cup ((1 .. at[g] - 1) \ Bad) /\ funcs[g] = (1 .. at[g] - 1) \ Bad
    BY <1>1, <1>2, <1>4, <1>a, ThreadFacts DEF Progress
  <2>2. at'[g] = at[g] + 1 /\ 1 .. at'[g] - 1 = (1 .. at[g] - 1) \cup {at[g]}
    BY <1>2, <1>a DEF Naming!TypeOK, Naming!Pools
  <2>3. /\ Of(g)' = IF at[g] \in Bad THEN Of(g) ELSE Of(g) \cup {at[g]}
        /\ funcs'[g] = IF at[g] \in Bad THEN funcs[g] ELSE funcs[g] \cup {at[g]}
    BY <1>2, <1>a, <2>1 DEF Of, Naming!Sources, Naming!TypeOK
  <2>4. /\ Of(g)' = {Naming!Local} \cup ((1 .. at'[g] - 1) \ Bad)
        /\ funcs'[g] = (1 .. at'[g] - 1) \ Bad
    BY <2>1, <2>2, <2>3
  <2> QED BY <1>2, <2>1, <2>4 DEF Found, Causes, Progress, Active
<1> QED BY <1>1, <1>2, <1>3, <1>4, <1>a, OneThread DEF Naming!TypeOK, Naming!Sources

LEMMA PoolsDoneKeeps ==
  ASSUME NamingInv, NEW g \in Naming!Starts, Naming!PoolsDone(g)
  PROVE  NamingInv'
<1> USE NamingConstants DEF Naming!Goto, Naming!threadStep, Naming!configVars, Naming!bundleVars,
        Naming!history
<1>1. Naming!Working(g) BY DEF Naming!Working, Naming!PoolsDone
<1>a. Naming!TypeOK BY DEF NamingInv
<1>2. /\ UNCHANGED <<configs, config, started, bundle, overlaps, bereft, context, ref, at, funcs, registered, open>>
      /\ init[g] = "pools" /\ at[g] \notin Naming!Pools
      /\ init' = [init EXCEPT ![g] = "probes"]
  BY DEF Naming!PoolsDone
<1>3. Naming!TypeOK'
  BY <1>a, <1>2 DEF Naming!TypeOK, Naming!ConfigTypeOK
<1>4. ASSUME g \notin overlaps
      PROVE  Found(g)' /\ Causes(g)' /\ Progress(g)'
  <2>1. at[g] = NPools + 1 BY <1>2, <1>a DEF Naming!TypeOK, Naming!Pools
  <2>2. /\ Active(g) /\ Of(g) = {Naming!Local} \cup (Naming!Pools \ Bad)
        /\ funcs[g] = Naming!Pools \ Bad /\ init'[g] = "probes"
    BY <1>1, <1>2, <1>4, <1>a, <2>1, ThreadFacts DEF Progress, Naming!Pools, Naming!TypeOK
  <2>3. Of(g)' = Naming!Sources \ Bad BY <1>2, <2>2 DEF Of, Naming!Sources, Naming!Local, Naming!Pools
  <2> QED BY <1>2, <2>2, <2>3 DEF Found, Causes, Progress, Active
<1> QED BY <1>1, <1>2, <1>3, <1>4, <1>a, OneThread DEF Naming!TypeOK, Naming!Sources

LEMMA ProbeKeeps ==
  ASSUME NamingInv, NEW g \in Naming!Starts, Naming!Probe(g)
  PROVE  NamingInv'
<1> USE NamingConstants DEF Naming!Goto, Naming!threadStep, Naming!configVars, Naming!bundleVars,
        Naming!history
<1>1. Naming!Working(g) BY DEF Naming!Working, Naming!Probe
<1>a. Naming!TypeOK BY DEF NamingInv
<1>2. PICK k \in funcs[g] :
        /\ UNCHANGED <<configs, config, started, bundle, overlaps, bereft, init, context, ref, at, registered>>
        /\ init[g] = "probes"
        /\ funcs' = [funcs EXCEPT ![g] = @ \ {k}]
        /\ open' = open \cup {<<g, k>>} \/ (k \in MayFail /\ UNCHANGED open)
  BY DEF Naming!Probe
<1>b. k \in Naming!Pools BY <1>a, <1>2 DEF Naming!TypeOK
<1>3. Naming!TypeOK'
  BY <1>a, <1>2, <1>b DEF Naming!TypeOK, Naming!ConfigTypeOK
<1>4. ASSUME g \notin overlaps
      PROVE  Found(g)' /\ Causes(g)' /\ Progress(g)'
  <2>1. /\ Active(g) /\ Of(g) = Naming!Sources \ Bad
        /\ Naming!Pools \ (Bad \cup MayFail \cup funcs[g]) \subseteq Opened(g)
    BY <1>1, <1>2, <1>4, <1>a, ThreadFacts DEF Progress
  <2>2. Of(g)' = Of(g) BY <1>2 DEF Of
  <2>3. \/ Opened(g)' = Opened(g) \cup {k}
        \/ k \in MayFail /\ Opened(g)' = Opened(g)
    BY <1>2, <1>b DEF Opened
  <2>4. funcs'[g] = funcs[g] \ {k} BY <1>2, <1>a DEF Naming!TypeOK
  <2>5. Naming!Pools \ (Bad \cup MayFail \cup funcs'[g]) \subseteq Opened(g)'
    BY <2>1, <2>3, <2>4
  <2> QED BY <1>2, <2>1, <2>2, <2>5 DEF Found, Causes, Progress, Active
<1> QED BY <1>1, <1>2, <1>3, <1>4, <1>a, OneThread DEF Naming!TypeOK, Naming!Sources

LEMMA ProbesDoneKeeps ==
  ASSUME NamingInv, NEW g \in Naming!Starts, Naming!ProbesDone(g)
  PROVE  NamingInv'
<1> USE NamingConstants DEF Naming!Goto, Naming!threadStep, Naming!configVars, Naming!bundleVars,
        Naming!history
<1>1. Naming!Working(g) BY DEF Naming!Working, Naming!ProbesDone
<1>a. Naming!TypeOK BY DEF NamingInv
<1>2. /\ UNCHANGED <<configs, config, started, bundle, overlaps, bereft, context, ref, at, funcs, registered, open>>
      /\ init[g] = "probes" /\ funcs[g] = {}
      /\ init' = [init EXCEPT ![g] = "through"]
  BY DEF Naming!ProbesDone
<1>3. Naming!TypeOK'
  BY <1>a, <1>2 DEF Naming!TypeOK, Naming!ConfigTypeOK
<1>4. ASSUME g \notin overlaps
      PROVE  Found(g)' /\ Causes(g)' /\ Progress(g)'
  <2>1. Of(g)' = Of(g) /\ Opened(g)' = Opened(g) BY <1>2 DEF Of, Opened
  <2>2. init'[g] = "through" BY <1>2, <1>a DEF Naming!TypeOK
  <2> QED BY <1>1, <1>2, <1>4, <2>1, <2>2, ThreadFacts DEF Found, Causes, Progress, Active
<1> QED BY <1>1, <1>2, <1>3, <1>4, <1>a, OneThread DEF Naming!TypeOK, Naming!Sources

LEMMA StartKeeps ==
  ASSUME NamingInv, Naming!Start
  PROVE  NamingInv'
<1> USE NamingConstants
<1>a. Naming!TypeOK BY DEF NamingInv
<1>1. /\ UNCHANGED <<configs, config, context, ref, at, funcs, registered, open, overlaps, bereft>>
      /\ bundle = "stopped" /\ started < MaxStarts /\ started' = started + 1 /\ bundle' = "active"
      /\ init' = [init EXCEPT ![started + 1] = "local"]
  BY DEF Naming!Start, Naming!Goto, Naming!configVars, Naming!history
<1>2. Naming!TypeOK'
  <2>1. started' \in 0 .. MaxStarts BY <1>a, <1>1 DEF Naming!TypeOK
  <2>2. init' \in [Naming!Starts -> {"none", "local", "context", "spin", "fetch", "pools",
                                   "probes", "through", "raised"}]
    BY <1>a, <1>1 DEF Naming!TypeOK
  <2> QED BY <1>a, <1>1, <2>1, <2>2 DEF Naming!TypeOK, Naming!ConfigTypeOK
<1>3. Strays' BY <1>1 DEF NamingInv, Strays
<1>4. ASSUME NEW g \in Naming!Starts
      PROVE  StartInv(g)'
  <2> USE DEF Naming!Starts, Naming!TypeOK
  <2>1. StartInv(g) /\ Of(g)' = Of(g) BY <1>1 DEF NamingInv, Of
  <2>2. CASE g = started + 1
    <3>1. g \notin overlaps /\ at[g] = 1 /\ funcs[g] = {} BY <1>a, <2>1, <2>2 DEF StartInv, Fresh
    <3>2. Of(g) = {} BY <1>1, <3>1 DEF NamingInv, Strays, Of
    <3>3. init'[g] = "local" BY <1>1, <1>a, <2>2
    <3> QED BY <1>1, <1>a, <2>1, <2>2, <3>1, <3>2, <3>3
            DEF StartInv, Fresh, OnTime, Active, Found, Causes, Progress
  <2>3. CASE g # started + 1
    <3>1. init'[g] = init[g] /\ g # started' /\ (g > started' => g > started)
      BY <1>1, <1>a, <2>3
    <3> QED BY <1>1, <2>1, <3>1
            DEF StartInv, Fresh, OnTime, Active, Found, Causes, Progress, Naming!Working
  <2> QED BY <2>2, <2>3
<1> QED BY <1>2, <1>3, <1>4 DEF NamingInv, Naming!Starts

LEMMA StopKeeps ==
  ASSUME NamingInv, Naming!Stop
  PROVE  NamingInv'
<1> USE NamingConstants
<1>a. Naming!TypeOK BY DEF NamingInv
<1>1. /\ UNCHANGED <<configs, config, started, init, context, ref, at, funcs, registered, open, bereft>>
      /\ bundle = "active" /\ bundle' = "stopping"
      /\ overlaps' = overlaps \cup {g \in Naming!Starts : g = started /\ Naming!Working(g)}
  BY DEF Naming!Stop, Naming!configVars, Naming!threadVars
<1>2. Naming!TypeOK'
  BY <1>a, <1>1 DEF Naming!TypeOK, Naming!ConfigTypeOK
<1>3. Strays' BY <1>1 DEF NamingInv, Strays
<1>4. ASSUME NEW g \in Naming!Starts
      PROVE  StartInv(g)'
  <2>1. StartInv(g) BY DEF NamingInv
  <2>2. g \in overlaps => g \in overlaps' BY <1>1
  <2>3. Naming!Working(g) /\ g \notin overlaps => g \in overlaps'
    BY <1>1, <2>1 DEF StartInv, OnTime
  <2>4. g > started => g \notin overlaps'
    BY <1>1, <1>a, <2>1 DEF StartInv, Fresh, Naming!TypeOK, Naming!Starts
  <2> QED BY <1>1, <2>1, <2>2, <2>3, <2>4
          DEF StartInv, Fresh, OnTime, Active, Found, Causes, Progress, Naming!Working
<1> QED BY <1>2, <1>3, <1>4 DEF NamingInv, Naming!Starts

\* What remains of the stop of the bundle.
LEMMA ShutdownKeeps ==
  ASSUME NamingInv, Naming!Shutdown \/ Naming!Stopped
  PROVE  NamingInv'
<1> USE NamingConstants
<1>a. Naming!TypeOK BY DEF NamingInv
<1>1. /\ UNCHANGED <<configs, config, started, init, context, ref, at, funcs, open, overlaps, bereft>>
      /\ bundle \in {"stopping", "destroyed"}
      /\ registered' \subseteq registered
      /\ \/ bundle' = "destroyed"
         \/ bundle' = "stopped" /\ registered' = {}
  BY DEF Naming!Shutdown, Naming!Stopped, Naming!configVars, Naming!threadVars, Naming!history
<1>2. Naming!TypeOK'
  BY <1>a, <1>1 DEF Naming!TypeOK, Naming!ConfigTypeOK
<1>3. Strays' BY <1>1 DEF NamingInv, Strays
<1>4. ASSUME NEW g \in Naming!Starts
      PROVE  StartInv(g)'
  BY <1>1 DEF NamingInv, StartInv, Fresh, OnTime, Active, Found, Causes, Progress, Naming!Working
<1> QED BY <1>2, <1>3, <1>4 DEF NamingInv, Naming!Starts

LEMMA ConfigKeeps ==
  ASSUME NamingInv, Naming!ConfigStart \/ Naming!ConfigStop
  PROVE  NamingInv'
<1> USE NamingConstants
<1>a. Naming!TypeOK BY DEF NamingInv
<1>1. UNCHANGED <<started, bundle, init, context, ref, at, funcs, registered, open, overlaps>>
  BY DEF Naming!ConfigStart, Naming!ConfigStop, Naming!bundleVars, Naming!threadVars, Naming!history
<1>2. \/ /\ config = 0 /\ UNCHANGED bereft
      \/ bereft' = bereft \cup {g \in Naming!Starts : init[g] = "fetch"}
  BY DEF Naming!ConfigStart, Naming!ConfigStop, Naming!Publish, Naming!history
<1>3. configs' \in 0 .. MaxConfigs /\ config' \in 0 .. MaxConfigs
  BY <1>a DEF Naming!ConfigStart, Naming!ConfigStop, Naming!Publish, Naming!Withdraw, Naming!TypeOK,
              Naming!ConfigTypeOK
<1>4. Naming!TypeOK'
  BY <1>a, <1>1, <1>2, <1>3 DEF Naming!TypeOK, Naming!ConfigTypeOK
<1>5. Strays' BY <1>1 DEF NamingInv, Strays
<1>6. ASSUME NEW g \in Naming!Starts
      PROVE  StartInv(g)'
  <2>1. Of(g)' = Of(g) /\ Opened(g)' = Opened(g) /\ StartInv(g) BY <1>1 DEF Of, Opened, NamingInv
  <2>2. Found(g)' /\ Causes(g)' BY <1>1, <1>2, <2>1 DEF StartInv, Found, Causes
  <2> QED BY <1>1, <2>1, <2>2 DEF StartInv, Fresh, OnTime, Active, Progress, Naming!Working
<1> QED BY <1>4, <1>5, <1>6 DEF NamingInv, Naming!Starts

LEMMA NamingKeeps == ASSUME NamingInv, Naming!Next PROVE NamingInv'
<1>1. CASE Naming!ConfigStart \/ Naming!ConfigStop BY <1>1, ConfigKeeps
<1>2. CASE Naming!Start BY <1>2, StartKeeps
<1>3. CASE Naming!Stop BY <1>3, StopKeeps
<1>4. CASE Naming!Shutdown \/ Naming!Stopped BY <1>4, ShutdownKeeps
<1>5. ASSUME NEW g \in Naming!Starts, Naming!Thread(g)
      PROVE  NamingInv'
  BY <1>5, RegisterLocalKeeps, TakeContextKeeps, SpinKeeps, FetchKeeps, PoolKeeps, PoolsDoneKeeps,
     ProbeKeeps, ProbesDoneKeeps DEF Naming!Thread
<1> QED BY <1>1, <1>2, <1>3, <1>4, <1>5 DEF Naming!Next

\* While no start is on, nothing but the configuration service moves.
LEMMA NamingIdle ==
  ASSUME NamingInv, UNCHANGED namingVars, Naming!ConfigTypeOK',
         UNCHANGED <<configs, config>> \/ (\A g \in Naming!Starts : init[g] = "none")
  PROVE  NamingInv'
<1>1. UNCHANGED <<started, bundle, init, context, ref, at, funcs, registered, open, overlaps, bereft>>
  BY DEF namingVars
<1>2. Naming!TypeOK' BY <1>1 DEF NamingInv, Naming!TypeOK
<1>3. Strays' BY <1>1 DEF NamingInv, Strays
<1>4. ASSUME NEW g \in Naming!Starts
      PROVE  StartInv(g)'
  <2>1. Of(g)' = Of(g) /\ Opened(g)' = Opened(g) /\ StartInv(g) BY <1>1 DEF Of, Opened, NamingInv
  <2>2. Found(g)' BY <1>1, <2>1 DEF StartInv, Found
  <2> QED BY <1>1, <2>1, <2>2 DEF StartInv, Fresh, OnTime, Active, Causes, Progress, Naming!Working
<1> QED BY <1>2, <1>3, <1>4 DEF NamingInv, Naming!Starts

-----------------------------------------------------------------------------
(* The cache keeps CacheInv.                                               *)

LEMMA CacheConstants == MaxConfigs \in Nat /\ MaxCalls \in Nat /\ NoThread \notin Threads
  BY ClientsAssumption DEF Cache!ConstantsOK, Cache!ConfigConstantsOK

LEMMA CacheInit == Cache!Init => CacheInv
<1> SUFFICES ASSUME Cache!Init PROVE CacheInv
  OBVIOUS
<1> USE CacheConstants DEF Cache!Init, Cache!ConfigInit, Cache!Busy
<1> USE DEF Cache!Calls, Cache!Values
<1>a. key \in [Cache!Calls -> Keys] OBVIOUS
<1>b. store \in [Keys -> Cache!Values] /\ call \in [Threads -> Cache!Values] /\ calls \in 0 .. MaxCalls
  OBVIOUS
<1>c. prev \in [Cache!Calls -> Cache!Values] /\ before \in [Cache!Calls -> SUBSET Cache!Calls]
  OBVIOUS
<1>d. expected \in [Keys -> SUBSET Cache!Values] OBVIOUS
<1>e. kind \in [Cache!Calls -> {"none", "get", "put", "remove", "clear"}] OBVIOUS
<1>f. /\ pc \in [Threads -> {"new", "build", "spin", "fetch", "refused", "raised", "idle", "ask", "write"}]
      /\ cacheRef \in [Threads -> 0 .. MaxConfigs]
  OBVIOUS
<1>g. wire \subseteq [call : Cache!Calls, keys : SUBSET Keys, value : Cache!Values] OBVIOUS
<1>h. Cache!ConfigTypeOK /\ service \in 0 .. MaxConfigs BY DEF Cache!ConfigTypeOK
<1>1. Cache!TypeOK
  BY <1>a, <1>b, <1>c, <1>d, <1>e, <1>f, <1>g, <1>h DEF Cache!TypeOK
<1>2. BuildInv BY DEF BuildInv
<1>3. BusyInv /\ WireInv /\ EndedInv /\ ExpectedInv
  BY DEF BusyInv, WireInv, EndedInv, ExpectedInv, Cache!Calls
<1>4. Held /\ Seen /\ Replaced BY DEF Held, Seen, Replaced, Spent, Cache!Calls
<1> QED BY <1>1, <1>2, <1>3, <1>4 DEF CacheInv, CallInv

\* Getting a cache does not touch the calls.
LEMMA CallsKept ==
  ASSUME CallInv,
         UNCHANGED <<store, wire, calls, call, kind, key, prev, ended, before, expected>>,
         \A t \in Threads : Cache!Busy(t)' => Cache!Busy(t)
  PROVE  CallInv'
<1>1. BusyInv' /\ WireInv' /\ EndedInv' /\ ExpectedInv'
  BY DEF CallInv, BusyInv, WireInv, EndedInv, ExpectedInv
<1>2. Held' BY DEF CallInv, Held, Spent
<1>3. Seen' BY DEF CallInv, Seen, Spent
<1>4. Replaced' BY DEF CallInv, Replaced
<1> QED BY <1>1, <1>2, <1>3, <1>4 DEF CallInv

LEMMA BuildKeeps ==
  ASSUME CacheInv,
         \/ Cache!ConfigStart \/ Cache!ConfigStop
         \/ \E t \in Threads : Cache!GetCache(t) \/ Cache!Builds(t)
  PROVE  CacheInv'
<1> USE CacheConstants DEF Cache!Goto, Cache!buildStep, Cache!configVars, Cache!buildVars,
        Cache!serverVars, Cache!callVars
<1>a. Cache!TypeOK /\ BuildInv /\ CallInv BY DEF CacheInv
<1>1. UNCHANGED <<store, wire, calls, call, kind, key, prev, ended, before, expected>>
  BY DEF Cache!ConfigStart, Cache!ConfigStop, Cache!GetCache, Cache!Builds, Cache!Lazy, Cache!Spin,
         Cache!Fetch, Cache!Build
<1>2. CASE Cache!ConfigStart
  <2>1. Cache!TypeOK' BY <1>2, <1>a DEF Cache!ConfigStart, Cache!Publish, Cache!TypeOK, Cache!ConfigTypeOK
  <2>2. BuildInv' BY <1>2, <1>a DEF Cache!ConfigStart, Cache!Publish, BuildInv
  <2>3. CallInv' BY <1>1, <1>2, <1>a, CallsKept DEF Cache!ConfigStart, Cache!Busy
  <2> QED BY <2>1, <2>2, <2>3 DEF CacheInv
<1>3. CASE Cache!ConfigStop
  <2>1. Cache!TypeOK' BY <1>3, <1>a DEF Cache!ConfigStop, Cache!Withdraw, Cache!TypeOK, Cache!ConfigTypeOK
  <2>2. BuildInv' BY <1>3, <1>a DEF Cache!ConfigStop, Cache!Withdraw, BuildInv
  <2>3. CallInv' BY <1>1, <1>3, <1>a, CallsKept DEF Cache!ConfigStop, Cache!Busy
  <2> QED BY <2>1, <2>2, <2>3 DEF CacheInv
<1>4. ASSUME NEW t \in Threads, Cache!GetCache(t) \/ Cache!Builds(t)
      PROVE  CacheInv'
  <2> USE DEF Cache!Builds
  <2>1. CASE Cache!GetCache(t) \/ Cache!Lazy(t)
    <3>1. Cache!TypeOK' BY <2>1, <1>a, <1>1 DEF Cache!GetCache, Cache!Lazy, Cache!TypeOK, Cache!ConfigTypeOK
    <3>2. BuildInv' BY <2>1, <1>a DEF Cache!GetCache, Cache!Lazy, BuildInv, Cache!TypeOK
    <3>3. CallInv' BY <1>1, <2>1, <1>a, CallsKept DEF Cache!GetCache, Cache!Lazy, Cache!Busy, Cache!TypeOK
    <3> QED BY <3>1, <3>2, <3>3 DEF CacheInv
  <2>2. CASE Cache!Spin(t)
    <3>1. Cache!TypeOK' BY <2>2, <1>a, <1>1 DEF Cache!Spin, Cache!TypeOK, Cache!ConfigTypeOK
    <3>2. BuildInv' BY <2>2, <1>a DEF Cache!Spin, BuildInv, Cache!TypeOK
    <3>3. CallInv' BY <1>1, <2>2, <1>a, CallsKept DEF Cache!Spin, Cache!Busy, Cache!TypeOK
    <3> QED BY <3>1, <3>2, <3>3 DEF CacheInv
  <2>3. CASE Cache!Fetch(t)
    <3>1. Cache!TypeOK' BY <2>3, <1>a, <1>1 DEF Cache!Fetch, Cache!TypeOK, Cache!ConfigTypeOK
    <3>2. BuildInv' BY <2>3, <1>a DEF Cache!Fetch, BuildInv, Cache!TypeOK
    <3>3. CallInv' BY <1>1, <2>3, <1>a, CallsKept DEF Cache!Fetch, Cache!Busy, Cache!TypeOK
    <3> QED BY <3>1, <3>2, <3>3 DEF CacheInv
  <2>4. CASE Cache!Build(t)
    <3>1. Cache!TypeOK' BY <2>4, <1>a, <1>1 DEF Cache!Build, Cache!TypeOK, Cache!ConfigTypeOK
    <3>2. BuildInv' BY <2>4, <1>a DEF Cache!Build, BuildInv, Cache!TypeOK
    <3>3. CallInv' BY <1>1, <2>4, <1>a, CallsKept DEF Cache!Build, Cache!Busy, Cache!TypeOK
    <3> QED BY <3>1, <3>2, <3>3 DEF CacheInv
  <2> QED BY <1>4, <2>1, <2>2, <2>3, <2>4
<1> QED BY <1>2, <1>3, <1>4

\* The calls do not touch what getting a cache takes.
LEMMA BuildKept ==
  ASSUME BuildInv, UNCHANGED <<config, resolved, service, cacheRef, cacheBereft>>,
         \A t \in Threads : pc'[t] = pc[t] \/ pc'[t] \in {"idle", "ask", "write"}
  PROVE  BuildInv'
BY DEF BuildInv

LEMMA BeginKeeps ==
  ASSUME CacheInv, NEW t \in Threads, NEW k \in Keys, NEW m \in {"get", "put", "remove"},
         Cache!Begin(t, m, k)
  PROVE  CacheInv'
<1> USE CacheConstants
<1> DEFINE n == calls + 1
<1>a. Cache!TypeOK /\ BuildInv /\ CallInv BY DEF CacheInv
<1>1. /\ pc[t] = "idle" /\ calls < MaxCalls /\ calls' = n
      /\ call' = [call EXCEPT ![t] = n] /\ kind' = [kind EXCEPT ![n] = m]
      /\ key' = [key EXCEPT ![n] = k] /\ before' = [before EXCEPT ![n] = ended]
      /\ expected' = IF m = "put" THEN [expected EXCEPT ![k] = @ \cup {n}] ELSE expected
      /\ pc' = [pc EXCEPT ![t] = "ask"]
      /\ UNCHANGED <<store, wire, prev, ended, configs, config, resolved, service, monitor, cacheRef,
                     cacheBereft>>
  BY DEF Cache!Begin, Cache!Goto, Cache!serverVars, Cache!callStep, Cache!configVars, Cache!buildVars
<1>2. n \in Cache!Calls /\ n \in Cache!Values /\ calls \in Nat /\ calls' \in 0 .. MaxCalls
  BY <1>a, <1>1 DEF Cache!TypeOK, Cache!Calls, Cache!Values
<1>3. Cache!TypeOK'
  <2>1. pc' \in [Threads -> {"new", "build", "spin", "fetch", "refused", "raised", "idle", "ask", "write"}]
    BY <1>a, <1>1 DEF Cache!TypeOK
  <2>2. call' \in [Threads -> Cache!Values]
    BY <1>a, <1>1, <1>2 DEF Cache!TypeOK
  <2>3. kind' \in [Cache!Calls -> {"none", "get", "put", "remove", "clear"}]
    BY <1>a, <1>1, <1>2 DEF Cache!TypeOK
  <2>4. key' \in [Cache!Calls -> Keys] BY <1>a, <1>1, <1>2 DEF Cache!TypeOK
  <2>5. before' \in [Cache!Calls -> SUBSET Cache!Calls] BY <1>a, <1>1, <1>2 DEF Cache!TypeOK
  <2>6. expected' \in [Keys -> SUBSET Cache!Values] BY <1>a, <1>1, <1>2 DEF Cache!TypeOK
  <2> QED BY <1>a, <1>1, <1>2, <2>1, <2>2, <2>3, <2>4, <2>5, <2>6 DEF Cache!TypeOK, Cache!ConfigTypeOK
<1>4. BuildInv' BY <1>1, <1>a, BuildKept DEF Cache!TypeOK
<1>5. /\ \A u \in Threads : u # t => Cache!Busy(u)' = Cache!Busy(u) /\ call'[u] = call[u]
      /\ call'[t] = n /\ ~Cache!Busy(t)
  BY <1>1, <1>a DEF Cache!TypeOK, Cache!Busy
<1>6. \A c \in 1 .. calls : c # n /\ c \in Cache!Calls /\ kind'[c] = kind[c] /\ key'[c] = key[c]
  BY <1>1, <1>2, <1>a DEF Cache!TypeOK, Cache!Calls
<1>7. kind'[n] = m /\ key'[n] = k BY <1>1, <1>2, <1>a DEF Cache!TypeOK
<1>8. n \notin 1 .. calls /\ 1 .. calls \subseteq 1 .. calls' /\ n \in 1 .. calls'
  BY <1>1, <1>2
<1>9. BusyInv'
  <2>1. \A r \in wire : r.call \in 1 .. calls BY <1>a DEF CallInv, WireInv
  <2>2. ended \subseteq 1 .. calls BY <1>a DEF CallInv, EndedInv
  <2>3. ASSUME NEW u \in Threads, Cache!Busy(u)', u # t
        PROVE  /\ Cache!Busy(u) /\ call'[u] = call[u] /\ call[u] \in 1 .. calls
               /\ kind'[call[u]] \in {"get", "put", "remove"} /\ call[u] \notin ended
               /\ \A r \in wire : r.call # call[u]
    BY <2>3, <1>a, <1>5, <1>6 DEF CallInv, BusyInv
  <2>4. \A u, v \in Threads : Cache!Busy(u)' /\ Cache!Busy(v)' /\ call'[u] = call'[v] => u = v
    BY <1>a, <1>5, <1>8, <2>3 DEF CallInv, BusyInv
  <2> QED BY <1>1, <1>5, <1>7, <1>8, <2>1, <2>2, <2>3, <2>4 DEF BusyInv
<1>10. WireInv' BY <1>1, <1>6, <1>8, <1>a DEF CallInv, WireInv
<1>11. EndedInv'
  <2>1. \A d \in Cache!Calls : before'[d] \subseteq ended
    BY <1>1, <1>2, <1>a DEF CallInv, EndedInv, Cache!TypeOK
  <2>2. \A d \in Cache!Calls : d > calls' => d > calls BY <1>1, <1>2 DEF Cache!Calls
  <2> QED BY <1>1, <1>8, <1>a, <2>1, <2>2 DEF CallInv, EndedInv
<1>12. ExpectedInv'
  <2>1. \A j \in Keys : expected[j] \subseteq expected'[j] BY <1>1, <1>a DEF Cache!TypeOK
  <2>2. ASSUME NEW j \in Keys, NEW u \in Threads, Cache!Busy(u)', kind'[call'[u]] = "put",
               key'[call'[u]] = j
        PROVE  call'[u] \in expected'[j]
    <3>1. CASE u = t BY <1>1, <1>5, <1>7, <1>a, <2>2, <3>1 DEF Cache!TypeOK
    <3>2. CASE u # t
      <4>1. Cache!Busy(u) /\ call'[u] = call[u] /\ call[u] \in 1 .. calls
        BY <1>5, <1>a, <2>2, <3>2 DEF CallInv, BusyInv
      <4> QED BY <1>6, <1>a, <2>1, <2>2, <4>1 DEF CallInv, ExpectedInv
    <3> QED BY <3>1, <3>2
  <2> QED BY <1>1, <1>a, <2>1, <2>2 DEF CallInv, ExpectedInv
<1>13. \A c \in Cache!Values : Spent(c) => Spent(c)' /\ c \in 1 .. calls
  BY <1>1, <1>5, <1>8 DEF Spent
<1>14. Held'
  <2>1. ASSUME NEW j \in Keys, store[j] # 0
        PROVE  Spent(store[j])' /\ key'[store[j]] = j
    <3>1. Spent(store[j]) /\ key[store[j]] = j BY <1>a, <2>1 DEF CallInv, Held
    <3>2. store[j] \in Cache!Values BY <1>a DEF Cache!TypeOK
    <3>3. PICK v \in Cache!Values : v = store[j] BY <3>2
    <3>4. Spent(v)' /\ v \in 1 .. calls BY <1>13, <3>1, <3>3
    <3> QED BY <1>1, <1>6, <3>1, <3>3, <3>4
  <2> QED BY <1>1, <2>1 DEF Held
<1>15. Seen'
  <2>1. ASSUME NEW c \in Cache!Calls, prev[c] # 0
        PROVE  Spent(prev[c])' /\ key'[prev[c]] = key'[c]
    <3>1. Spent(prev[c]) /\ key[prev[c]] = key[c] BY <1>a, <2>1 DEF CallInv, Seen
    <3>2. ~(c > calls) BY <1>a, <2>1 DEF CallInv, EndedInv
    <3>3. c \in 1 .. calls BY <1>2, <3>2 DEF Cache!Calls
    <3>4. prev[c] \in Cache!Values BY <1>a DEF Cache!TypeOK
    <3>5. PICK v \in Cache!Values : v = prev[c] BY <3>4
    <3>6. Spent(v)' /\ v \in 1 .. calls BY <1>13, <3>1, <3>5
    <3> QED BY <1>1, <1>6, <3>1, <3>3, <3>5, <3>6
  <2> QED BY <1>1, <2>1 DEF Seen
<1>16. Replaced'
  <2>1. prev[n] = 0 BY <1>2, <1>a DEF CallInv, EndedInv
  <2>2. ended \subseteq 1 .. calls BY <1>a DEF CallInv, EndedInv
  <2>3. \A d \in Cache!Calls : d # n => before'[d] = before[d] BY <1>1, <1>a DEF Cache!TypeOK
  <2>4. ASSUME NEW c \in ended, kind'[c] \in {"put", "remove"}, prev[c] # 0
        PROVE  /\ \A j \in Keys : store[j] # prev[c]
               /\ \A d \in Cache!Calls : c \in before'[d] => prev[d] # prev[c]
    BY <1>6, <1>a, <2>1, <2>2, <2>3, <2>4 DEF CallInv, Replaced
  <2> QED BY <1>1, <2>4 DEF Replaced
<1> QED BY <1>3, <1>4, <1>9, <1>10, <1>11, <1>12, <1>14, <1>15, <1>16 DEF CacheInv, CallInv

\* What a thread that is at a call may count on.
LEMMA CallFacts ==
  ASSUME CacheInv, NEW t \in Threads, Cache!Busy(t)
  PROVE  /\ Cache!TypeOK /\ BuildInv /\ CallInv
         /\ call[t] \in 1 .. calls /\ call[t] \in Cache!Calls /\ call[t] # 0
         /\ call[t] \notin ended /\ kind[call[t]] \in {"get", "put", "remove"}
         /\ key[call[t]] \in Keys
         /\ \A r \in wire : r.call # call[t]
         /\ \A u \in Threads \ {t} : Cache!Busy(u) => call[u] # call[t]
BY CacheConstants DEF CacheInv, CallInv, BusyInv, Cache!TypeOK, Cache!Calls

LEMMA AskKeeps ==
  ASSUME CacheInv, NEW t \in Threads, Cache!Ask(t)
  PROVE  CacheInv'
<1> USE CacheConstants
<1> DEFINE n == call[t]
<1>b. Cache!Busy(t) BY DEF Cache!Ask, Cache!Busy
<1>a. Cache!TypeOK /\ BuildInv /\ CallInv BY DEF CacheInv
<1>1. /\ pc[t] = "ask"
      /\ prev' = [prev EXCEPT ![n] = store[key[n]]]
      /\ \/ kind[n] = "get" /\ pc' = [pc EXCEPT ![t] = "idle"] /\ ended' = ended \cup {n}
         \/ pc' = [pc EXCEPT ![t] = "write"] /\ ended' = ended
      /\ UNCHANGED <<store, wire, calls, call, kind, key, before, expected, configs, config, resolved,
                     service, monitor, cacheRef, cacheBereft>>
  BY DEF Cache!Ask, Cache!Goto, Cache!serverVars, Cache!callStep, Cache!configVars, Cache!buildVars
<1>2. Cache!TypeOK'
  <2>1. pc' \in [Threads -> {"new", "build", "spin", "fetch", "refused", "raised", "idle", "ask", "write"}]
    BY <1>a, <1>1 DEF Cache!TypeOK
  <2>2. prev' \in [Cache!Calls -> Cache!Values] BY <1>a, <1>b, <1>1, CallFacts DEF Cache!TypeOK
  <2>3. ended' \subseteq Cache!Calls BY <1>a, <1>b, <1>1, CallFacts DEF Cache!TypeOK
  <2> QED BY <1>a, <1>1, <2>1, <2>2, <2>3 DEF Cache!TypeOK, Cache!ConfigTypeOK
<1>3. BuildInv' BY <1>1, <1>a, BuildKept DEF Cache!TypeOK
<1>4. \A u \in Threads : Cache!Busy(u)' => Cache!Busy(u) /\ (u = t => ended' = ended)
  BY <1>1, <1>a, <1>b DEF Cache!TypeOK, Cache!Busy
<1>5. ended \subseteq ended' /\ ended' \subseteq ended \cup {n} /\ n \notin ended
  BY <1>1, <1>b, CallFacts
<1>6. BusyInv'
  <2>1. ASSUME NEW u \in Threads, Cache!Busy(u)'
        PROVE  call[u] \notin ended'
    BY <1>1, <1>4, <1>5, <1>a, <1>b, <2>1, CallFacts DEF CallInv, BusyInv
  <2> QED BY <1>1, <1>4, <1>a, <2>1 DEF CallInv, BusyInv
<1>7. WireInv'
  <2>1. \A r \in wire : r.call # n BY <1>b, CallFacts
  <2> QED BY <1>1, <1>5, <1>a, <2>1 DEF CallInv, WireInv
<1>8. EndedInv'
  <2>1. \A d \in Cache!Calls : d > calls => d # n BY <1>a, <1>b, CallFacts DEF Cache!TypeOK
  <2>2. \A d \in Cache!Calls : d > calls => prev'[d] = 0
    BY <1>1, <1>a, <2>1 DEF CallInv, EndedInv, Cache!TypeOK
  <2>3. ended' \subseteq 1 .. calls BY <1>5, <1>a, <1>b, CallFacts DEF CallInv, EndedInv
  <2> QED BY <1>1, <1>5, <1>a, <2>2, <2>3 DEF CallInv, EndedInv
<1>9. ExpectedInv' BY <1>1, <1>4, <1>a DEF CallInv, ExpectedInv
<1>10. \A c \in Cache!Values : Spent(c) => Spent(c)'
  BY <1>1, <1>4 DEF Spent
<1>11. Held'
  <2>1. ASSUME NEW j \in Keys, store[j] # 0
        PROVE  Spent(store[j])' /\ key[store[j]] = j
    <3>1. Spent(store[j]) /\ key[store[j]] = j BY <1>a, <2>1 DEF CallInv, Held
    <3>2. PICK v \in Cache!Values : v = store[j] BY <1>a DEF Cache!TypeOK
    <3> QED BY <1>1, <1>10, <3>1, <3>2
  <2> QED BY <1>1, <2>1 DEF Held
<1>12. \A c \in Cache!Calls : prev'[c] = IF c = n THEN store[key[n]] ELSE prev[c]
  BY <1>1, <1>a DEF Cache!TypeOK
<1>13. Seen'
  <2>1. ASSUME NEW c \in Cache!Calls, prev'[c] # 0
        PROVE  Spent(prev[c])' /\ key[prev'[c]] = key[c]
    <3>1. PICK v \in Cache!Values : v = prev'[c] BY <1>2 DEF Cache!TypeOK
    <3>2. Spent(v) /\ key[v] = key[c]
      BY <1>12, <1>a, <1>b, <2>1, <3>1, CallFacts DEF CallInv, Seen, Held
    <3> QED BY <1>10, <3>1, <3>2
  <2> QED BY <1>1, <2>1 DEF Seen
<1>14. Replaced'
  <2>1. ASSUME NEW c \in ended', kind[c] \in {"put", "remove"}, prev'[c] # 0
        PROVE  /\ \A j \in Keys : store[j] # prev'[c]
               /\ \A d \in Cache!Calls : c \in before[d] => prev'[d] # prev'[c]
    <3>1. c # n /\ c \in ended BY <1>1, <1>5, <2>1
    <3>2. prev'[c] = prev[c] BY <1>12, <1>a, <3>1 DEF Cache!TypeOK
    <3>3. key[n] \in Keys BY <1>b, CallFacts
    <3> QED BY <1>12, <1>a, <2>1, <3>1, <3>2, <3>3 DEF CallInv, Replaced
  <2> QED BY <1>1, <2>1 DEF Replaced
<1> QED BY <1>2, <1>3, <1>6, <1>7, <1>8, <1>9, <1>11, <1>13, <1>14 DEF CacheInv, CallInv

\* The call ends without an answer: what it would have written is on its way, if
\* anything is.
LEMMA RaisesKeeps ==
  ASSUME CacheInv, NEW t \in Threads, Cache!AskRaises(t) \/ Cache!WriteRaises(t)
  PROVE  CacheInv'
<1> USE CacheConstants
<1> DEFINE n == call[t]
           sent == [call |-> n, keys |-> {key[n]}, value |-> Cache!Left(n)]
<1>b. Cache!Busy(t) BY DEF Cache!AskRaises, Cache!WriteRaises, Cache!Busy
<1>a. Cache!TypeOK /\ BuildInv /\ CallInv BY DEF CacheInv
<1>1. /\ pc' = [pc EXCEPT ![t] = "idle"]
      /\ wire \subseteq wire' /\ wire' \subseteq wire \cup {sent}
      /\ UNCHANGED <<store, calls, call, kind, key, prev, ended, before, expected, configs, config,
                     resolved, service, monitor, cacheRef, cacheBereft>>
  BY DEF Cache!AskRaises, Cache!WriteRaises, Cache!Goto, Cache!serverVars, Cache!callVars,
         Cache!callStep, Cache!configVars, Cache!buildVars
<1>c. /\ sent.call = n /\ sent.keys = {key[n]} /\ sent.value = Cache!Left(n)
      /\ Cache!Left(n) \in {0, n}
  BY DEF Cache!Left
<1>2. Cache!TypeOK'
  <2>1. pc' \in [Threads -> {"new", "build", "spin", "fetch", "refused", "raised", "idle", "ask", "write"}]
    BY <1>a, <1>1 DEF Cache!TypeOK
  <2>2. n \in Cache!Calls /\ {key[n]} \in SUBSET Keys /\ Cache!Left(n) \in Cache!Values
    BY <1>b, <1>c, CallFacts DEF Cache!Calls, Cache!Values
  <2>3. wire' \subseteq [call : Cache!Calls, keys : SUBSET Keys, value : Cache!Values]
    BY <1>a, <1>1, <2>2 DEF Cache!TypeOK
  <2> QED BY <1>a, <1>1, <2>1, <2>3 DEF Cache!TypeOK, Cache!ConfigTypeOK
<1>3. BuildInv' BY <1>1, <1>a, BuildKept DEF Cache!TypeOK
<1>4. \A u \in Threads : Cache!Busy(u)' => Cache!Busy(u) /\ u # t
  BY <1>1, <1>a DEF Cache!TypeOK, Cache!Busy
<1>5. BusyInv'
  <2>1. ASSUME NEW u \in Threads, Cache!Busy(u)', NEW r \in wire'
        PROVE  r.call # call[u]
    BY <1>1, <1>4, <1>a, <1>b, <1>c, <2>1, CallFacts DEF CallInv, BusyInv
  <2> QED BY <1>1, <1>4, <1>a, <2>1 DEF CallInv, BusyInv
<1>6. WireInv' BY <1>1, <1>a, <1>b, <1>c, CallFacts DEF CallInv, WireInv
<1>7. EndedInv' BY <1>1, <1>a DEF CallInv, EndedInv
<1>8. ExpectedInv'
  <2>1. Cache!Left(n) \in expected[key[n]] \cup {0}
    BY <1>a, <1>b, CallFacts DEF CallInv, ExpectedInv, Cache!Left
  <2>2. ASSUME NEW j \in Keys, NEW r \in wire', j \in r.keys
        PROVE  r.value \in expected[j] \cup {0}
    BY <1>1, <1>a, <1>c, <2>1, <2>2 DEF CallInv, ExpectedInv
  <2> QED BY <1>1, <1>4, <1>a, <2>2 DEF CallInv, ExpectedInv
<1>9. \A c \in Cache!Values : Spent(c) => Spent(c)'
  BY <1>1, <1>4, <1>b, <1>c DEF Spent
<1>10. Held'
  <2>1. ASSUME NEW j \in Keys, store[j] # 0
        PROVE  Spent(store[j])' /\ key[store[j]] = j
    <3>1. Spent(store[j]) /\ key[store[j]] = j BY <1>a, <2>1 DEF CallInv, Held
    <3>2. PICK v \in Cache!Values : v = store[j] BY <1>a DEF Cache!TypeOK
    <3> QED BY <1>1, <1>9, <3>1, <3>2
  <2> QED BY <1>1, <2>1 DEF Held
<1>11. Seen'
  <2>1. ASSUME NEW c \in Cache!Calls, prev[c] # 0
        PROVE  Spent(prev[c])' /\ key[prev[c]] = key[c]
    <3>1. PICK v \in Cache!Values : v = prev[c] BY <1>a DEF Cache!TypeOK
    <3>2. Spent(v) /\ key[v] = key[c] BY <1>a, <2>1, <3>1 DEF CallInv, Seen
    <3> QED BY <1>1, <1>9, <3>1, <3>2
  <2> QED BY <1>1, <2>1 DEF Seen
<1>12. Replaced' BY <1>1, <1>a DEF CallInv, Replaced
<1> QED BY <1>2, <1>3, <1>5, <1>6, <1>7, <1>8, <1>10, <1>11, <1>12 DEF CacheInv, CallInv

LEMMA WriteKeeps ==
  ASSUME CacheInv, NEW t \in Threads, Cache!Write(t)
  PROVE  CacheInv'
<1> USE CacheConstants
<1>n. PICK n \in Cache!Calls : n = call[t]
  BY CallFacts DEF Cache!Write, Cache!Busy
<1>k. PICK k \in Keys : k = key[n]
  BY <1>n, CallFacts DEF Cache!Write, Cache!Busy
<1>b. Cache!Busy(t) BY DEF Cache!Write, Cache!Busy
<1>a. Cache!TypeOK /\ BuildInv /\ CallInv BY DEF CacheInv
<1>1. /\ pc' = [pc EXCEPT ![t] = "idle"]
      /\ store' = [store EXCEPT ![k] = Cache!Left(n)]
      /\ ended' = ended \cup {n}
      /\ expected' = [expected EXCEPT ![k] = {Cache!Left(n)} \cup Cache!Pending(k, t)]
      /\ UNCHANGED <<wire, calls, call, kind, key, prev, before, configs, config, resolved, service,
                     monitor, cacheRef, cacheBereft>>
  BY <1>n, <1>k DEF Cache!Write, Cache!Goto, Cache!callStep, Cache!configVars, Cache!buildVars
<1>c. Cache!Left(n) \in {0, n} /\ Cache!Left(n) \in Cache!Values /\ n \in 1 .. calls /\ n # 0
  BY <1>n, <1>b, CallFacts DEF Cache!Left, Cache!Calls, Cache!Values
<1>2. Cache!TypeOK'
  <2>1. pc' \in [Threads -> {"new", "build", "spin", "fetch", "refused", "raised", "idle", "ask", "write"}]
    BY <1>a, <1>1 DEF Cache!TypeOK
  <2>2. store' \in [Keys -> Cache!Values] BY <1>a, <1>1, <1>c DEF Cache!TypeOK
  <2>3. ended' \subseteq Cache!Calls BY <1>a, <1>1 DEF Cache!TypeOK
  <2>4. Cache!Pending(k, t) \subseteq Cache!Values
    <3>1. \A u \in Threads : Cache!Left(call[u]) \in Cache!Values
      BY <1>a DEF Cache!TypeOK, Cache!Left, Cache!Values
    <3> QED BY <1>a, <3>1 DEF Cache!Pending, Cache!TypeOK
  <2>5. expected' \in [Keys -> SUBSET Cache!Values] BY <1>a, <1>1, <1>c, <2>4 DEF Cache!TypeOK
  <2> QED BY <1>a, <1>1, <2>1, <2>2, <2>3, <2>5 DEF Cache!TypeOK, Cache!ConfigTypeOK
<1>3. BuildInv' BY <1>1, <1>a, BuildKept DEF Cache!TypeOK
<1>4. \A u \in Threads : Cache!Busy(u)' => Cache!Busy(u) /\ u # t /\ call[u] # n
  BY <1>1, <1>a, <1>b, <1>n, CallFacts DEF Cache!TypeOK, Cache!Busy
<1>5. n \notin ended /\ \A r \in wire : r.call # n BY <1>n, <1>b, CallFacts
<1>6. BusyInv' BY <1>1, <1>4, <1>a DEF CallInv, BusyInv
<1>7. WireInv' BY <1>1, <1>5, <1>a DEF CallInv, WireInv
<1>8. EndedInv' BY <1>1, <1>c, <1>a DEF CallInv, EndedInv
<1>9. ExpectedInv'
  <2>1. /\ \A j \in Keys : j # k => store'[j] = store[j] /\ expected'[j] = expected[j]
        /\ store'[k] = Cache!Left(n) /\ expected'[k] = {Cache!Left(n)} \cup Cache!Pending(k, t)
    BY <1>1, <1>a DEF Cache!TypeOK
  <2>2. ASSUME NEW r \in wire, k \in r.keys
        PROVE  r.value \in Cache!Pending(k, t)
    BY <2>2 DEF Cache!Pending
  <2>3. ASSUME NEW u \in Threads, Cache!Busy(u)', kind[call[u]] = "put", key[call[u]] = k
        PROVE  call[u] \in Cache!Pending(k, t)
    <3>1. u \in {x \in Threads \ {t} : Cache!Busy(x) /\ kind[call[x]] # "get" /\ key[call[x]] = k}
      BY <1>4, <2>3
    <3>2. Cache!Left(call[u]) = call[u] BY <2>3 DEF Cache!Left
    <3> QED BY <3>1, <3>2 DEF Cache!Pending
  <2> QED BY <1>1, <1>4, <1>a, <2>1, <2>2, <2>3 DEF CallInv, ExpectedInv
<1>10. \A c \in Cache!Values : Spent(c) => Spent(c)' /\ c # n
  BY <1>1, <1>4, <1>b, <1>n DEF Spent
<1>11. \A j \in Keys : store'[j] = IF j = k THEN Cache!Left(n) ELSE store[j]
  BY <1>1, <1>a DEF Cache!TypeOK
<1>12. Held'
  <2>1. Spent(n)'
    <3>1. \A r \in wire : r.value # n BY <1>5, <1>a, <1>c DEF CallInv, WireInv
    <3> QED BY <1>1, <1>4, <1>c, <3>1 DEF Spent
  <2>2. ASSUME NEW j \in Keys, store'[j] # 0
        PROVE  Spent(store[j])' /\ key[store'[j]] = j
    <3>1. PICK v \in Cache!Values : v = store'[j] BY <1>2 DEF Cache!TypeOK
    <3>2. CASE j = k /\ v = n BY <1>k, <2>1, <3>1, <3>2
    <3>3. CASE ~(j = k /\ v = n)
      <4>1. v = store[j] /\ v # 0 BY <1>11, <1>c, <2>2, <3>1, <3>3
      <4>2. Spent(v) /\ key[v] = j BY <1>a, <4>1 DEF CallInv, Held
      <4> QED BY <1>10, <3>1, <4>2
    <3> QED BY <3>2, <3>3
  <2> QED BY <1>1, <2>2 DEF Held
<1>13. Seen'
  <2>1. ASSUME NEW c \in Cache!Calls, prev[c] # 0
        PROVE  Spent(prev[c])' /\ key[prev[c]] = key[c]
    <3>1. PICK v \in Cache!Values : v = prev[c] BY <1>a DEF Cache!TypeOK
    <3>2. Spent(v) /\ key[v] = key[c] BY <1>a, <2>1, <3>1 DEF CallInv, Seen
    <3> QED BY <1>1, <1>10, <3>1, <3>2
  <2> QED BY <1>1, <2>1 DEF Seen
<1>14. Replaced'
  <2>1. ASSUME NEW c \in ended', kind[c] \in {"put", "remove"}, prev[c] # 0
        PROVE  /\ \A j \in Keys : store'[j] # prev[c]
               /\ \A d \in Cache!Calls : c \in before[d] => prev[d] # prev[c]
    <3>1. c \in Cache!Calls BY <1>2, <2>1 DEF Cache!TypeOK
    <3>2. PICK v \in Cache!Values : v = prev[c] BY <1>a, <3>1 DEF Cache!TypeOK
    <3>3. Spent(v) /\ key[v] = key[c] /\ v # n
      BY <1>10, <1>a, <2>1, <3>1, <3>2 DEF CallInv, Seen
    <3>4. CASE c \in ended
      BY <1>11, <1>c, <1>a, <2>1, <3>2, <3>3, <3>4 DEF CallInv, Replaced
    <3>5. CASE c = n
      <4>1. \A j \in Keys : j # k => store[j] # v
        BY <1>k, <1>a, <2>1, <3>2, <3>3, <3>5 DEF CallInv, Held
      <4>2. \A d \in Cache!Calls : c \notin before[d] BY <1>5, <1>a, <3>5 DEF CallInv, EndedInv
      <4> QED BY <1>11, <1>c, <2>1, <3>2, <3>3, <4>1, <4>2
    <3> QED BY <1>1, <2>1, <3>4, <3>5
  <2> QED BY <1>1, <2>1 DEF Replaced
<1> QED BY <1>2, <1>3, <1>6, <1>7, <1>8, <1>9, <1>12, <1>13, <1>14 DEF CacheInv, CallInv

LEMMA ClearKeeps ==
  ASSUME CacheInv, NEW t \in Threads, Cache!Clear(t)
  PROVE  CacheInv'
<1> USE CacheConstants
<1> DEFINE n == calls + 1
           flush == [call |-> n, keys |-> Keys, value |-> 0]
<1>a. Cache!TypeOK /\ BuildInv /\ CallInv BY DEF CacheInv
<1>1. /\ calls < MaxCalls /\ calls' = n /\ wire' = wire \cup {flush}
      /\ kind' = [kind EXCEPT ![n] = "clear"]
      /\ UNCHANGED <<pc, store, call, key, prev, ended, before, expected, configs, config, resolved,
                     service, monitor, cacheRef, cacheBereft>>
  BY DEF Cache!Clear, Cache!callStep, Cache!configVars, Cache!buildVars
<1>c. flush.call = n /\ flush.keys = Keys /\ flush.value = 0 OBVIOUS
<1>2. n \in Cache!Calls /\ 0 \in Cache!Values /\ calls \in Nat /\ calls' \in 0 .. MaxCalls
  BY <1>a, <1>1 DEF Cache!TypeOK, Cache!Calls, Cache!Values
<1>3. Cache!TypeOK'
  <2>1. kind' \in [Cache!Calls -> {"none", "get", "put", "remove", "clear"}]
    BY <1>a, <1>1, <1>2 DEF Cache!TypeOK
  <2>2. wire' \subseteq [call : Cache!Calls, keys : SUBSET Keys, value : Cache!Values]
    BY <1>a, <1>1, <1>2 DEF Cache!TypeOK
  <2> QED BY <1>a, <1>1, <1>2, <2>1, <2>2 DEF Cache!TypeOK, Cache!ConfigTypeOK
<1>4. BuildInv' BY <1>1, <1>a, BuildKept
<1>5. \A u \in Threads : Cache!Busy(u)' <=> Cache!Busy(u) BY <1>1 DEF Cache!Busy
<1>6. n \notin 1 .. calls /\ 1 .. calls \subseteq 1 .. calls' /\ n \in 1 .. calls'
  BY <1>1, <1>2
<1>7. \A c \in 1 .. calls : c # n /\ kind'[c] = kind[c]
  BY <1>1, <1>2, <1>a DEF Cache!TypeOK, Cache!Calls
<1>8. BusyInv'
  <2>1. ASSUME NEW u \in Threads, Cache!Busy(u)'
        PROVE  /\ call[u] \in 1 .. calls' /\ call[u] \notin ended
               /\ kind'[call[u]] \in {"get", "put", "remove"}
               /\ \A r \in wire' : r.call # call[u]
    BY <1>1, <1>5, <1>6, <1>7, <1>a, <1>c, <2>1 DEF CallInv, BusyInv
  <2> QED BY <1>1, <1>5, <1>a, <2>1 DEF CallInv, BusyInv
<1>9. WireInv' BY <1>1, <1>6, <1>a, <1>c DEF CallInv, WireInv
<1>10. EndedInv'
  <2>1. \A d \in Cache!Calls : d > calls' => d > calls BY <1>1, <1>2 DEF Cache!Calls
  <2> QED BY <1>1, <1>6, <1>a, <2>1 DEF CallInv, EndedInv
<1>11. ExpectedInv'
  <2>1. ASSUME NEW u \in Threads, Cache!Busy(u)'
        PROVE  Cache!Busy(u) /\ kind'[call[u]] = kind[call[u]]
    BY <1>5, <1>7, <1>a, <2>1 DEF CallInv, BusyInv
  <2>2. ASSUME NEW j \in Keys, NEW r \in wire', j \in r.keys
        PROVE  r.value \in expected[j] \cup {0}
    BY <1>1, <1>a, <1>c, <2>2 DEF CallInv, ExpectedInv
  <2> QED BY <1>1, <1>a, <2>1, <2>2 DEF CallInv, ExpectedInv
<1>12. \A c \in Cache!Values : Spent(c) => Spent(c)'
  <2>1. ASSUME NEW c \in Cache!Values, Spent(c)
        PROVE  Spent(c)'
    <3>1. c # 0 BY <1>2, <2>1 DEF Spent
    <3> QED BY <1>1, <1>5, <1>6, <1>c, <2>1, <3>1 DEF Spent
  <2> QED BY <2>1
<1>13. Held'
  <2>1. ASSUME NEW j \in Keys, store[j] # 0
        PROVE  Spent(store[j])' /\ key[store[j]] = j
    <3>1. Spent(store[j]) /\ key[store[j]] = j BY <1>a, <2>1 DEF CallInv, Held
    <3>2. PICK v \in Cache!Values : v = store[j] BY <1>a DEF Cache!TypeOK
    <3> QED BY <1>1, <1>12, <3>1, <3>2
  <2> QED BY <1>1, <2>1 DEF Held
<1>14. Seen'
  <2>1. ASSUME NEW c \in Cache!Calls, prev[c] # 0
        PROVE  Spent(prev[c])' /\ key[prev[c]] = key[c]
    <3>1. PICK v \in Cache!Values : v = prev[c] BY <1>a DEF Cache!TypeOK
    <3>2. Spent(v) /\ key[v] = key[c] BY <1>a, <2>1, <3>1 DEF CallInv, Seen
    <3> QED BY <1>1, <1>12, <3>1, <3>2
  <2> QED BY <1>1, <2>1 DEF Seen
<1>15. Replaced'
  <2>1. \A c \in ended : kind'[c] = kind[c] BY <1>7, <1>a DEF CallInv, EndedInv
  <2> QED BY <1>1, <1>a, <2>1 DEF CallInv, Replaced
<1> QED BY <1>3, <1>4, <1>8, <1>9, <1>10, <1>11, <1>13, <1>14, <1>15 DEF CacheInv, CallInv

\* The server carries out, or drops, a late request.
LEMMA LateKeeps ==
  ASSUME CacheInv, NEW r \in wire, Cache!Late(r)
  PROVE  CacheInv'
<1> USE CacheConstants
<1>a. Cache!TypeOK /\ BuildInv /\ CallInv BY DEF CacheInv
<1>1. /\ wire' = wire \ {r}
      /\ \/ store' = [k \in Keys |-> IF k \in r.keys THEN r.value ELSE store[k]]
         \/ store' = store
      /\ UNCHANGED <<pc, calls, call, kind, key, prev, ended, before, expected, configs, config,
                     resolved, service, monitor, cacheRef, cacheBereft>>
  BY DEF Cache!Late, Cache!callStep, Cache!callVars, Cache!configVars, Cache!buildVars
<1>2. r.call \in Cache!Calls /\ r.keys \in SUBSET Keys /\ r.value \in Cache!Values
  BY <1>a DEF Cache!TypeOK
<1>3. \A j \in Keys : store'[j] = store[j] \/ (j \in r.keys /\ store'[j] = r.value)
  BY <1>1
<1>4. Cache!TypeOK'
  <2>1. store' \in [Keys -> Cache!Values] BY <1>a, <1>1, <1>2 DEF Cache!TypeOK
  <2>2. wire' \subseteq [call : Cache!Calls, keys : SUBSET Keys, value : Cache!Values]
    BY <1>a, <1>1 DEF Cache!TypeOK
  <2> QED BY <1>a, <1>1, <2>1, <2>2 DEF Cache!TypeOK, Cache!ConfigTypeOK
<1>5. BuildInv' BY <1>1, <1>a, BuildKept
<1>6. \A u \in Threads : Cache!Busy(u)' <=> Cache!Busy(u) BY <1>1 DEF Cache!Busy
<1>7. BusyInv' BY <1>1, <1>6, <1>a DEF CallInv, BusyInv
<1>8. WireInv' BY <1>1, <1>a DEF CallInv, WireInv
<1>9. EndedInv' BY <1>1, <1>a DEF CallInv, EndedInv
<1>10. ExpectedInv'
  <2>1. \A j \in Keys : store'[j] \in expected[j] \cup {0}
    BY <1>3, <1>a DEF CallInv, ExpectedInv
  <2> QED BY <1>1, <1>6, <1>a, <2>1 DEF CallInv, ExpectedInv
<1>11. \A c \in Cache!Values : Spent(c) => Spent(c)'
  BY <1>1, <1>6 DEF Spent
<1>12. ASSUME r.value # 0
       PROVE  /\ r.value = r.call /\ r.keys = {key[r.call]} /\ r.value \in 1 .. calls
              /\ \A x \in wire \ {r} : x.value # r.value
              /\ \A u \in Threads : Cache!Busy(u) => call[u] # r.value
  <2>1. r.value = r.call /\ r.keys = {key[r.call]} /\ r.value \in 1 .. calls
    BY <1>12, <1>a DEF CallInv, WireInv
  <2>2. ASSUME NEW x \in wire, x.value = r.value
        PROVE  x = r
    <3>1. x.call = r.call /\ x.keys = r.keys
      BY <1>12, <2>1, <2>2, <1>a DEF CallInv, WireInv
    <3>2. /\ x \in [call : Cache!Calls, keys : SUBSET Keys, value : Cache!Values]
          /\ r \in [call : Cache!Calls, keys : SUBSET Keys, value : Cache!Values]
      BY <1>a DEF Cache!TypeOK
    <3> QED BY <2>2, <3>1, <3>2
  <2> QED BY <2>1, <2>2, <1>a DEF CallInv, BusyInv
<1>13. Held'
  <2>1. ASSUME NEW j \in Keys, store'[j] # 0
        PROVE  Spent(store[j])' /\ key[store'[j]] = j
    <3>1. PICK v \in Cache!Values : v = store'[j] BY <1>4 DEF Cache!TypeOK
    <3>2. CASE v = store[j]
      <4>1. Spent(v) /\ key[v] = j BY <1>a, <2>1, <3>1, <3>2 DEF CallInv, Held
      <4> QED BY <1>11, <3>1, <4>1
    <3>3. CASE j \in r.keys /\ v = r.value
      <4>1. key[v] = j BY <1>12, <2>1, <3>1, <3>3
      <4>2. Spent(v)' BY <1>1, <1>6, <1>12, <2>1, <3>1, <3>3 DEF Spent
      <4> QED BY <3>1, <4>1, <4>2
    <3> QED BY <1>3, <3>1, <3>2, <3>3
  <2> QED BY <1>1, <2>1 DEF Held
<1>14. Seen'
  <2>1. ASSUME NEW c \in Cache!Calls, prev[c] # 0
        PROVE  Spent(prev[c])' /\ key[prev[c]] = key[c]
    <3>1. PICK v \in Cache!Values : v = prev[c] BY <1>a DEF Cache!TypeOK
    <3>2. Spent(v) /\ key[v] = key[c] BY <1>a, <2>1, <3>1 DEF CallInv, Seen
    <3> QED BY <1>1, <1>11, <3>1, <3>2
  <2> QED BY <1>1, <2>1 DEF Seen
<1>15. Replaced'
  <2>1. ASSUME NEW c \in ended, kind[c] \in {"put", "remove"}, prev[c] # 0
        PROVE  /\ \A j \in Keys : store'[j] # prev[c]
               /\ \A d \in Cache!Calls : c \in before[d] => prev[d] # prev[c]
    <3>1. c \in Cache!Calls BY <1>a DEF Cache!TypeOK
    <3>2. r.value # prev[c] BY <1>a, <2>1, <3>1 DEF CallInv, Seen, Spent
    <3> QED BY <1>3, <1>a, <2>1, <3>2 DEF CallInv, Replaced
  <2> QED BY <1>1, <2>1 DEF Replaced
<1> QED BY <1>4, <1>5, <1>7, <1>8, <1>9, <1>10, <1>13, <1>14, <1>15 DEF CacheInv, CallInv

LEMMA EvictKeeps ==
  ASSUME CacheInv, NEW k \in Keys, Cache!Evict(k)
  PROVE  CacheInv'
<1> USE CacheConstants
<1>a. Cache!TypeOK /\ BuildInv /\ CallInv BY DEF CacheInv
<1>1. /\ store' = [store EXCEPT ![k] = 0]
      /\ UNCHANGED <<pc, wire, calls, call, kind, key, prev, ended, before, expected, configs, config,
                     resolved, service, monitor, cacheRef, cacheBereft>>
  BY DEF Cache!Evict, Cache!callStep, Cache!callVars, Cache!configVars, Cache!buildVars
<1>2. \A j \in Keys : store'[j] \in {0, store[j]} BY <1>1, <1>a DEF Cache!TypeOK
<1>3. Cache!TypeOK'
  <2>1. store' \in [Keys -> Cache!Values] BY <1>a, <1>1 DEF Cache!TypeOK, Cache!Values
  <2> QED BY <1>a, <1>1, <2>1 DEF Cache!TypeOK, Cache!ConfigTypeOK
<1>4. BuildInv' BY <1>1, <1>a, BuildKept
<1>5. \A u \in Threads : Cache!Busy(u)' <=> Cache!Busy(u) BY <1>1 DEF Cache!Busy
<1>6. BusyInv' BY <1>1, <1>5, <1>a DEF CallInv, BusyInv
<1>7. WireInv' /\ EndedInv' BY <1>1, <1>a DEF CallInv, WireInv, EndedInv
<1>8. ExpectedInv' BY <1>1, <1>2, <1>5, <1>a DEF CallInv, ExpectedInv
<1>9. \A c \in Cache!Values : Spent(c) => Spent(c)' BY <1>1, <1>5 DEF Spent
<1>10. Held'
  <2>1. ASSUME NEW j \in Keys, store'[j] # 0
        PROVE  Spent(store[j])' /\ key[store'[j]] = j
    <3>1. store'[j] = store[j] BY <1>2, <2>1
    <3>2. PICK v \in Cache!Values : v = store[j] BY <1>a DEF Cache!TypeOK
    <3>3. Spent(v) /\ key[v] = j BY <1>a, <2>1, <3>1, <3>2 DEF CallInv, Held
    <3> QED BY <1>9, <3>1, <3>2, <3>3
  <2> QED BY <1>1, <2>1 DEF Held
<1>11. Seen'
  <2>1. ASSUME NEW c \in Cache!Calls, prev[c] # 0
        PROVE  Spent(prev[c])' /\ key[prev[c]] = key[c]
    <3>1. PICK v \in Cache!Values : v = prev[c] BY <1>a DEF Cache!TypeOK
    <3>2. Spent(v) /\ key[v] = key[c] BY <1>a, <2>1, <3>1 DEF CallInv, Seen
    <3> QED BY <1>1, <1>9, <3>1, <3>2
  <2> QED BY <1>1, <2>1 DEF Seen
<1>12. Replaced' BY <1>1, <1>2, <1>a DEF CallInv, Replaced
<1> QED BY <1>3, <1>4, <1>6, <1>7, <1>8, <1>10, <1>11, <1>12 DEF CacheInv, CallInv

LEMMA CacheKeeps == ASSUME CacheInv, Cache!Next PROVE CacheInv'
<1>1. ASSUME NEW t \in Threads,
             \/ Cache!GetCache(t) \/ Cache!Builds(t) \/ Cache!Works(t) \/ Cache!Clear(t)
             \/ \E k \in Keys, m \in {"get", "put", "remove"} : Cache!Begin(t, m, k)
      PROVE  CacheInv'
  BY <1>1, BuildKeeps, AskKeeps, RaisesKeeps, WriteKeeps, ClearKeeps, BeginKeeps DEF Cache!Works
<1>2. CASE Cache!ConfigStart \/ Cache!ConfigStop BY <1>2, BuildKeeps
<1>3. CASE \E r \in wire : Cache!Late(r) BY <1>3, LateKeeps
<1>4. CASE \E k \in Keys : Cache!Evict(k) BY <1>4, EvictKeeps
<1> QED BY <1>1, <1>2, <1>3, <1>4 DEF Cache!Next

\* While no cache has been asked for, nothing but the configuration service moves.
LEMMA CacheIdle ==
  ASSUME CacheInv, UNCHANGED cacheVars, Cache!ConfigTypeOK',
         UNCHANGED config \/ \A t \in Threads : pc[t] = "new"
  PROVE  CacheInv'
<1>1. UNCHANGED <<resolved, service, monitor, cacheRef, pc, store, wire, calls, call, kind, key, prev,
                  ended, before, expected, cacheBereft>>
  BY DEF cacheVars
<1>2. Cache!TypeOK' BY <1>1 DEF CacheInv, Cache!TypeOK
<1>3. BuildInv' BY <1>1 DEF CacheInv, BuildInv
<1>4. \A u \in Threads : Cache!Busy(u)' <=> Cache!Busy(u) BY <1>1 DEF Cache!Busy
<1>5. CallInv' BY <1>1, <1>4, CallsKept DEF CacheInv
<1> QED BY <1>2, <1>3, <1>5 DEF CacheInv

-----------------------------------------------------------------------------
(* The two of them over one service.                                       *)

LEMMA InvInit == Init => Inv
<1> SUFFICES ASSUME Init PROVE Inv
  OBVIOUS
<1>1. NamingInv /\ CacheInv BY NamingInit, CacheInit DEF Init
<1>2. Other BY DEF Init, Other, Naming!Init, Cache!Init
<1> QED BY <1>1, <1>2 DEF Inv

LEMMA InvStep == ASSUME Inv, [Next]_vars PROVE Inv'
<1>1. NamingInv /\ CacheInv /\ Other BY DEF Inv
<1>2. CASE NamingStep
  <2>1. client = "naming" /\ Naming!Next /\ UNCHANGED <<client, cacheVars>> BY <1>2 DEF NamingStep
  <2>2. NamingInv' BY <1>1, <2>1, NamingKeeps
  <2>3. Cache!ConfigTypeOK'
    BY <2>2 DEF NamingInv, Naming!TypeOK, Naming!ConfigTypeOK, Cache!ConfigTypeOK
  <2>4. CacheInv' BY <1>1, <2>1, <2>3, CacheIdle DEF Other
  <2>5. Other' BY <1>1, <2>1 DEF Other, cacheVars
  <2> QED BY <2>2, <2>4, <2>5 DEF Inv
<1>3. CASE CacheStep
  <2>1. client = "cache" /\ Cache!Next /\ UNCHANGED <<client, namingVars>> BY <1>3 DEF CacheStep
  <2>2. CacheInv' BY <1>1, <2>1, CacheKeeps
  <2>3. Naming!ConfigTypeOK'
    BY <2>2 DEF CacheInv, Cache!TypeOK, Naming!ConfigTypeOK, Cache!ConfigTypeOK
  <2>4. NamingInv' BY <1>1, <2>1, <2>3, NamingIdle DEF Other
  <2>5. Other' BY <1>1, <2>1 DEF Other, namingVars
  <2> QED BY <2>2, <2>4, <2>5 DEF Inv
<1>4. CASE UNCHANGED vars
  <2>1. UNCHANGED <<client, configs, config>> /\ UNCHANGED namingVars /\ UNCHANGED cacheVars
    BY <1>4 DEF vars
  <2>2. Naming!ConfigTypeOK' /\ Cache!ConfigTypeOK'
    BY <1>1, <2>1 DEF NamingInv, Naming!TypeOK, Naming!ConfigTypeOK, Cache!ConfigTypeOK
  <2>3. NamingInv' BY <1>1, <2>1, <2>2, NamingIdle
  <2>4. CacheInv' BY <1>1, <2>1, <2>2, CacheIdle
  <2>5. Other' BY <1>1, <2>1 DEF Other, namingVars, cacheVars
  <2> QED BY <2>3, <2>4, <2>5 DEF Inv
<1> QED BY <1>2, <1>3, <1>4 DEF Next

LEMMA Invariance == Spec => []Inv
<1>1. Init => Inv BY InvInit
<1>2. Inv /\ [Next]_vars => Inv' BY InvStep
<1> QED BY <1>1, <1>2, PTL DEF Spec

\* Both modules keep their types.
THEOREM TypeCorrect == Spec => []TypeOK
<1>1. Inv => TypeOK BY DEF Inv, NamingInv, CacheInv, TypeOK
<1> QED BY <1>1, Invariance, PTL

\* NamingService.init: a bad pool or a dead database costs no other data source.
THEOREM AllConfiguredHolds == Spec => []AllConfigured
<1>1. Inv => AllConfigured
  <2> SUFFICES ASSUME Inv, NEW g \in Naming!Starts, g = started, bundle = "active",
                      init[g] = "through"
               PROVE  /\ Of(g) = Naming!Sources \ Bad
                      /\ Naming!Pools \ (Bad \cup MayFail) \subseteq Opened(g)
    BY DEF AllConfigured, Naming!AllConfigured, Of, Opened
  <2>1. Progress(g) BY DEF Inv, NamingInv, StartInv
  <2> QED BY <2>1 DEF Progress, Active
<1> QED BY <1>1, Invariance, PTL

\* NamingService.init: what stays registered behind a stop was registered by an
\* init that the stop overtook.
THEOREM StrayOnlyByOverlapHolds == Spec => []StrayOnlyByOverlap
<1>1. Inv => StrayOnlyByOverlap
  BY DEF Inv, NamingInv, Strays, StrayOnlyByOverlap, Naming!StrayOnlyByOverlap
<1> QED BY <1>1, Invariance, PTL

\* NamingService.init fails only under a stop, or when the configuration service
\* goes between getServiceReference and getService.
THEOREM RaisesWithCauseHolds == Spec => []RaisesWithCause
<1>1. Inv => RaisesWithCause
  BY DEF Inv, NamingInv, StartInv, Causes, RaisesWithCause, Naming!RaisesWithCause
<1> QED BY <1>1, Invariance, PTL

\* ShiroDynamyCache: a value that was replaced never comes back, late requests of
\* calls that have timed out included.
THEOREM NothingOldComesBackHolds == Spec => []NothingOldComesBack
<1>1. Inv => NothingOldComesBack
  BY DEF Inv, CacheInv, CallInv, ExpectedInv, NothingOldComesBack, Cache!NothingOldComesBack
<1> QED BY <1>1, Invariance, PTL

\* ShiroDynamyCache: two calls answer the same previous value only if they overlapped.
THEOREM SamePreviousOverlapHolds == Spec => []SamePreviousOverlap
<1>1. Inv => SamePreviousOverlap
  <2> SUFFICES ASSUME Inv, NEW c \in ended, NEW d \in ended, kind[c] \in {"put", "remove"},
                      c \in before[d], prev[c] # 0
               PROVE  prev[d] # prev[c]
    BY DEF SamePreviousOverlap, Cache!SamePreviousOverlap
  <2>1. d \in Cache!Calls BY DEF Inv, CacheInv, Cache!TypeOK
  <2> QED BY <2>1 DEF Inv, CacheInv, CallInv, Replaced
<1> QED BY <1>1, Invariance, PTL

-----------------------------------------------------------------------------
(* The composition implements each of its clients.                         *)

\* Where the cache is shown, the naming service sees the configuration service come
\* and go, and nobody who misses it.
LEMMA NamingSees ==
  ASSUME Inv, CacheStep
  PROVE  [Naming!Next]_(Naming!vars)
<1>1. UNCHANGED namingVars /\ client = "cache" /\ Cache!Next BY DEF CacheStep
<1>2. CASE Cache!ConfigStart
  <2>1. Naming!Publish BY <1>2 DEF Cache!ConfigStart, Cache!Publish, Naming!Publish
  <2>2. Naming!ConfigStart
    BY <1>1, <2>1 DEF Naming!ConfigStart, namingVars, Naming!bundleVars, Naming!threadVars, Naming!history
  <2> QED BY <2>2 DEF Naming!Next
<1>3. CASE Cache!ConfigStop
  <2>1. Naming!Withdraw BY <1>3 DEF Cache!ConfigStop, Cache!Withdraw, Naming!Withdraw
  <2>2. {g \in Naming!Starts : init[g] = "fetch"} = {} BY <1>1 DEF Inv, Other
  <2>3. Naming!ConfigStop
    BY <1>1, <2>1, <2>2 DEF Naming!ConfigStop, namingVars, Naming!bundleVars, Naming!threadVars
  <2> QED BY <2>3 DEF Naming!Next
<1>4. CASE UNCHANGED <<configs, config>>
  BY <1>1, <1>4 DEF namingVars, Naming!vars, Naming!configVars, Naming!bundleVars, Naming!threadVars, Naming!history
<1>5. CASE \E t \in Threads : Cache!GetCache(t) \/ Cache!Builds(t)
  BY <1>4, <1>5 DEF Cache!GetCache, Cache!Builds, Cache!Lazy, Cache!Spin, Cache!Fetch, Cache!Build,
     Cache!buildStep, Cache!configVars
<1>6. CASE \E t \in Threads : Cache!Works(t) \/ Cache!Clear(t)
  BY <1>4, <1>6 DEF Cache!Works, Cache!Ask, Cache!AskRaises, Cache!Write, Cache!WriteRaises, Cache!Clear,
     Cache!callStep, Cache!configVars
<1>7. ASSUME NEW t \in Threads, NEW k \in Keys, NEW m \in {"get", "put", "remove"}, Cache!Begin(t, m, k)
      PROVE  UNCHANGED <<configs, config>>
  BY <1>7 DEF Cache!Begin, Cache!callStep, Cache!configVars
<1>8. CASE (\E r \in wire : Cache!Late(r)) \/ \E k \in Keys : Cache!Evict(k)
  BY <1>4, <1>8 DEF Cache!Late, Cache!Evict, Cache!callStep, Cache!configVars
<1> QED BY <1>1, <1>2, <1>3, <1>4, <1>5, <1>6, <1>7, <1>8 DEF Cache!Next

\* Where the naming service is shown, likewise for the cache.
LEMMA CacheSees ==
  ASSUME Inv, NamingStep
  PROVE  [Cache!Next]_(Cache!vars)
<1>1. UNCHANGED cacheVars /\ client = "naming" /\ Naming!Next BY DEF NamingStep
<1>2. CASE Naming!ConfigStart
  <2>1. Cache!Publish BY <1>2 DEF Naming!ConfigStart, Cache!Publish, Naming!Publish
  <2>2. Cache!ConfigStart
    BY <1>1, <2>1 DEF Cache!ConfigStart, cacheVars, Cache!buildVars, Cache!serverVars, Cache!callVars
  <2> QED BY <2>2 DEF Cache!Next
<1>3. CASE Naming!ConfigStop
  <2>1. Cache!Withdraw BY <1>3 DEF Naming!ConfigStop, Cache!Withdraw, Naming!Withdraw
  <2>2. ~ \E t \in Threads : pc[t] = "fetch" BY <1>1 DEF Inv, Other
  <2>3. cacheBereft' = (cacheBereft \/ \E t \in Threads : pc[t] = "fetch")
    <3>1. cacheBereft' = cacheBereft /\ cacheBereft \in BOOLEAN
      BY <1>1 DEF cacheVars, Inv, CacheInv, Cache!TypeOK
    <3> QED BY <2>2, <3>1
  <2>4. Cache!ConfigStop
    BY <1>1, <2>1, <2>3 DEF Cache!ConfigStop, cacheVars, Cache!serverVars, Cache!callVars
  <2> QED BY <2>4 DEF Cache!Next
<1>4. CASE UNCHANGED <<configs, config>>
  BY <1>1, <1>4 DEF cacheVars, Cache!vars, Cache!configVars, Cache!buildVars, Cache!serverVars, Cache!callVars
<1>5. CASE Naming!Start \/ Naming!Stop \/ Naming!Shutdown \/ Naming!Stopped
  BY <1>4, <1>5 DEF Naming!Start, Naming!Stop, Naming!Shutdown, Naming!Stopped, Naming!configVars
<1>6. CASE \E g \in Naming!Starts : Naming!Thread(g)
  BY <1>4, <1>6 DEF Naming!Thread, Naming!RegisterLocal, Naming!TakeContext, Naming!Spin, Naming!Fetch,
     Naming!Pool, Naming!PoolsDone, Naming!Probe, Naming!ProbesDone, Naming!threadStep, Naming!configVars
<1> QED BY <1>1, <1>2, <1>3, <1>5, <1>6 DEF Naming!Next

\* Whichever client a behaviour shows, what the naming service and the configuration
\* go through in it is a behaviour of NamingService: the calls of the cache show
\* there as stutters, and a configuration that goes harms nobody who is not shown.
THEOREM ImplementsNaming == Spec => Naming!Spec
<1>1. Init => Naming!Init BY DEF Init
<1>2. ASSUME Inv, [Next]_vars PROVE [Naming!Next]_(Naming!vars)
  <2>1. CASE NamingStep BY <2>1 DEF NamingStep
  <2>2. CASE CacheStep BY <1>2, <2>2, NamingSees
  <2>3. CASE UNCHANGED vars
    BY <2>3 DEF vars, namingVars, Naming!vars, Naming!configVars, Naming!bundleVars, Naming!threadVars, Naming!history
  <2> QED BY <1>2, <2>1, <2>2, <2>3 DEF Next
<1> QED BY <1>1, <1>2, Invariance, PTL DEF Spec, Naming!Spec

\* And what the cache goes through is a behaviour of ShiroCache.
THEOREM ImplementsCache == Spec => Cache!Spec
<1>1. Init => Cache!Init BY DEF Init
<1>2. ASSUME Inv, [Next]_vars PROVE [Cache!Next]_(Cache!vars)
  <2>1. CASE CacheStep BY <2>1 DEF CacheStep
  <2>2. CASE NamingStep BY <1>2, <2>2, CacheSees
  <2>3. CASE UNCHANGED vars
    BY <2>3 DEF vars, cacheVars, Cache!vars, Cache!configVars, Cache!buildVars, Cache!serverVars, Cache!callVars
  <2> QED BY <1>2, <2>1, <2>2, <2>3 DEF Next
<1> QED BY <1>1, <1>2, Invariance, PTL DEF Spec, Cache!Spec

-----------------------------------------------------------------------------
(* The lazy configService.                                                 *)

LockInv ==
  /\ \A t \in Threads : monitor = t <=> pc[t] \in {"spin", "fetch"}
  /\ resolved => monitor = NoThread
  /\ \A t \in Threads : pc[t] = "refused" => resolved /\ service = 0

LEMMA LockStep ==
  ASSUME CacheInv, LockInv, [Cache!Next]_(Cache!vars)
  PROVE  LockInv'
<1>1. /\ monitor \in Threads \cup {NoThread} /\ NoThread \notin Threads
      /\ pc \in [Threads -> {"new", "build", "spin", "fetch", "refused", "raised", "idle", "ask", "write"}]
  BY CacheConstants DEF CacheInv, Cache!TypeOK
<1> USE <1>1
<1>2. ASSUME UNCHANGED <<resolved, service, monitor>>,
             \A u \in Threads :
               /\ pc'[u] \in {"spin", "fetch"} <=> pc[u] \in {"spin", "fetch"}
               /\ pc'[u] = "refused" => pc[u] = "refused" \/ (resolved /\ service = 0)
      PROVE  LockInv'
  BY <1>2 DEF LockInv
<1>3. ASSUME NEW t \in Threads, Cache!Lazy(t) PROVE LockInv'
  BY <1>3 DEF LockInv, Cache!Lazy, Cache!Goto
<1>4. ASSUME NEW t \in Threads, Cache!Fetch(t) PROVE LockInv'
  BY <1>4 DEF LockInv, Cache!Fetch, Cache!Goto
<1>5. ASSUME NEW t \in Threads, Cache!GetCache(t) \/ Cache!Spin(t) \/ Cache!Build(t) PROVE LockInv'
  BY <1>2, <1>5 DEF Cache!GetCache, Cache!Spin, Cache!Build, Cache!Goto
<1>6. ASSUME NEW t \in Threads, Cache!Works(t) \/ Cache!Clear(t) PROVE LockInv'
  BY <1>2, <1>6 DEF Cache!Works, Cache!Ask, Cache!AskRaises, Cache!Write, Cache!WriteRaises, Cache!Clear,
     Cache!Goto, Cache!callStep, Cache!buildVars
<1>7. ASSUME NEW t \in Threads, NEW k \in Keys, NEW m, Cache!Begin(t, m, k) PROVE LockInv'
  BY <1>2, <1>7 DEF Cache!Begin, Cache!Goto, Cache!callStep, Cache!buildVars
<1>8. CASE Cache!ConfigStart \/ Cache!ConfigStop \/ UNCHANGED Cache!vars
  BY <1>2, <1>8 DEF Cache!ConfigStart, Cache!ConfigStop, Cache!vars, Cache!buildVars
<1>9. CASE (\E r \in wire : Cache!Late(r)) \/ \E k \in Keys : Cache!Evict(k)
  BY <1>2, <1>9 DEF Cache!Late, Cache!Evict, Cache!callStep, Cache!buildVars
<1> QED BY <1>3, <1>4, <1>5, <1>6, <1>7, <1>8, <1>9 DEF Cache!Next, Cache!Builds

LEMMA LockAlways == Spec => [](Inv /\ LockInv)
<1>1. Init => LockInv BY CacheConstants DEF Init, Cache!Init, LockInv
<1>2. ASSUME Inv, LockInv, [Cache!Next]_(Cache!vars) PROVE LockInv'
  BY <1>2, LockStep DEF Inv
<1> QED BY <1>1, <1>2, Invariance, ImplementsCache, PTL DEF Spec, Cache!Spec

\* DynamyMemcacheManager: a getCache that finds the manager's monitor taken waits for
\* a thread that is computing configService, never for one that has left, and nobody
\* computes it again: this is what GetCacheEnds rests on.
OneResolver ==
  /\ monitor # NoThread => ~resolved /\ pc[monitor] \in {"spin", "fetch"}
  /\ \A t, u \in Threads : pc[t] \in {"spin", "fetch"} /\ pc[u] \in {"spin", "fetch"} => t = u

THEOREM OneResolverHolds == Spec => []OneResolver
<1>1. ASSUME Inv, LockInv PROVE OneResolver
  BY <1>1, CacheConstants DEF Inv, CacheInv, Cache!TypeOK, LockInv, OneResolver
<1> QED BY <1>1, LockAlways, PTL

\* DynamyMemcacheManager.build: a getCache that ends on a null configService found the
\* lazy value computed and null, which it is only when the service went between
\* getServiceReference and getService; what the lines after the first raise is not
\* meant.
THEOREM RefusedWithCauseHolds == Spec => []RefusedWithCause
<1>1. ASSUME Inv, LockInv PROVE RefusedWithCause
  BY <1>1 DEF Inv, CacheInv, BuildInv, LockInv, RefusedWithCause, Cache!RefusedWithCause
<1> QED BY <1>1, LockAlways, PTL

\* What configService came to be, null included, it stays.
ResolvedForGood == [][resolved => UNCHANGED <<resolved, service>>]_vars

THEOREM ResolvedForGoodHolds == Spec => ResolvedForGood
<1>1. ASSUME Inv, LockInv, [Cache!Next]_(Cache!vars), resolved PROVE UNCHANGED <<resolved, service>>
  <2>1. \A t \in Threads : pc[t] # "fetch" BY <1>1, CacheConstants DEF LockInv
  <2>2. UNCHANGED <<resolved, service>> \/ \E t \in Threads : Cache!Fetch(t)
    BY <1>1 DEF Cache!Next, Cache!GetCache, Cache!Builds, Cache!Lazy, Cache!Spin, Cache!Build, Cache!Works,
       Cache!Ask, Cache!AskRaises, Cache!Write, Cache!WriteRaises, Cache!Clear, Cache!Begin, Cache!Late,
       Cache!Evict, Cache!ConfigStart, Cache!ConfigStop, Cache!callStep, Cache!buildVars, Cache!vars
  <2> QED BY <2>1, <2>2 DEF Cache!Fetch
<1>2. UNCHANGED vars => UNCHANGED <<resolved, service>> BY DEF vars, cacheVars
<1> QED BY <1>1, <1>2, LockAlways, ImplementsCache, PTL DEF ResolvedForGood, Cache!Spec

=============================================================================
