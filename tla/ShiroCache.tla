---------------------------- MODULE ShiroCache ----------------------------
(***************************************************************************)
(* Shiro's cache over memcached.  getCache builds a new client each time,  *)
(* from the configuration that DynamyMemcacheManager looks up once, in a    *)
(* lazy val; get, put, remove and clear are calls to a server that all      *)
(* share, put and remove two calls each.  The names of caches are no part   *)
(* of their keys, so all caches are one.                                    *)
(*                                                                         *)
(* A call to the server may time out: then it raises here, and what was     *)
(* sent may still be carried out later.  clear asks for no reply at all.    *)
(***************************************************************************)
EXTENDS ServerConfig

CONSTANTS
  Threads, NoThread,  \* threads that use the cache
  Keys,
  MaxCalls            \* bound: calls of get, put, remove and clear

Calls  == 1 .. MaxCalls
Values == 0 .. MaxCalls   \* the call whose put wrote it; 0 is no value

ConstantsOK == ConfigConstantsOK /\ NoThread \notin Threads /\ MaxCalls \in Nat

VARIABLES
  resolved, service,  \* the lazy configService: computed?  its value, 0 for null
  monitor,    \* the thread that computes it
  ref,        \* thread -> the configuration service it has a reference to
  pc,         \* thread -> where it is
  store,      \* memcached: key -> value
  wire,       \* requests under way that nobody waits for
  calls,      \* calls so far
  call,       \* thread -> its call
  kind, key,  \* call -> which method on which key
  prev,       \* call -> the value its cache.get answered
  ended,      \* history: calls that have answered
  before,     \* history: call -> the calls that had answered when it began
  expected,   \* history: key -> values the calls so far may have left
  bereft      \* history: has the configuration gone after it was found?

buildVars  == <<resolved, service, monitor, ref, bereft>>
serverVars == <<store, wire>>
callVars   == <<calls, call, kind, key, prev, ended, before, expected>>
vars == <<configVars, buildVars, pc, serverVars, callVars>>

Init ==
  /\ ConfigInit
  /\ resolved = FALSE /\ service = 0 /\ monitor = NoThread /\ bereft = FALSE
  /\ ref = [t \in Threads |-> 0]
  /\ pc = [t \in Threads |-> "new"]
  /\ store = [k \in Keys |-> 0]
  /\ wire = {}
  /\ calls = 0
  /\ call = [t \in Threads |-> 0]
  /\ kind = [n \in Calls |-> "none"]
  /\ key \in {[n \in Calls |-> k] : k \in Keys}
  /\ prev = [n \in Calls |-> 0]
  /\ ended = {}
  /\ before = [n \in Calls |-> {}]
  /\ expected = [k \in Keys |-> {0}]

Goto(t, l) == pc' = [pc EXCEPT ![t] = l]

-----------------------------------------------------------------------------
(* getCache.                                                               *)

ConfigStart == Publish /\ UNCHANGED <<buildVars, pc, serverVars, callVars>>

ConfigStop ==
  /\ Withdraw
  /\ bereft' = (bereft \/ \E t \in Threads : pc[t] = "fetch")
  /\ UNCHANGED <<resolved, service, monitor, ref, pc, serverVars, callVars>>

buildStep == UNCHANGED <<configVars, bereft, serverVars, callVars>>

GetCache(t) ==
  /\ pc[t] = "new"
  /\ Goto(t, "build")
  /\ UNCHANGED <<resolved, service, monitor, ref>> /\ buildStep

\* The first thread computes configService while it holds the manager's monitor.
Lazy(t) ==
  /\ pc[t] = "build" /\ ~resolved /\ monitor = NoThread
  /\ monitor' = t
  /\ Goto(t, "spin")
  /\ UNCHANGED <<resolved, service, ref>> /\ buildStep

Spin(t) ==
  /\ pc[t] = "spin" /\ config # 0
  /\ ref' = [ref EXCEPT ![t] = config]
  /\ Goto(t, "fetch")
  /\ UNCHANGED <<resolved, service, monitor>> /\ buildStep

FetchLocking(t) ==
  /\ pc[t] = "fetch"
  /\ IF ref[t] = config
     THEN resolved' = TRUE /\ service' = ref[t] /\ monitor' = NoThread /\ Goto(t, "build")
     ELSE Goto(t, "refused") /\ UNCHANGED <<resolved, service, monitor>>
  /\ UNCHANGED ref /\ buildStep

\* getService answers null when the service is gone; the lazy val keeps that too.
Fetch(t) ==
  /\ pc[t] = "fetch"
  /\ resolved' = TRUE
  /\ service' = IF ref[t] = config THEN ref[t] ELSE 0
  /\ monitor' = NoThread
  /\ Goto(t, "build")
  /\ UNCHANGED ref /\ buildStep

\* The first line of build raises on a null configService; those after it on a
\* configuration with no cache, bad addresses or a client that cannot be built.
\* Where none does the thread has its client.
Build(t) ==
  /\ pc[t] = "build" /\ resolved
  /\ \/ service = 0 /\ Goto(t, "refused")
     \/ service # 0 /\ (Goto(t, "raised") \/ Goto(t, "idle"))
  /\ UNCHANGED <<resolved, service, monitor, ref>> /\ buildStep

Builds(t) == Lazy(t) \/ Spin(t) \/ Fetch(t) \/ Build(t)

-----------------------------------------------------------------------------
(* The methods of ShiroDynamyCache.                                        *)

callStep == UNCHANGED <<configVars, buildVars>>

\* What a call of this kind leaves under its key.
Left(n) == IF kind[n] = "put" THEN n ELSE 0

Busy(t) == pc[t] \in {"ask", "write"}

\* Writes to k that may still be carried out, but for those of thread t.
Pending(k, t) ==
  {Left(call[u]) : u \in {x \in Threads \ {t} : Busy(x) /\ kind[call[x]] # "get"
                                                 /\ key[call[x]] = k}}
    \cup {r.value : r \in {x \in wire : k \in x.keys}}

Begin(t, m, k) ==
  /\ pc[t] = "idle" /\ calls < MaxCalls
  /\ calls' = calls + 1
  /\ call' = [call EXCEPT ![t] = calls']
  /\ kind' = [kind EXCEPT ![calls'] = m]
  /\ key' = [key EXCEPT ![calls'] = k]
  /\ before' = [before EXCEPT ![calls'] = ended]
  /\ expected' = IF m = "put" THEN [expected EXCEPT ![k] = @ \cup {calls'}] ELSE expected
  /\ Goto(t, "ask")
  /\ UNCHANGED <<serverVars, prev, ended>> /\ callStep

\* cache.get, the whole of get and the first half of put and remove.
Ask(t) ==
  /\ pc[t] = "ask"
  /\ prev' = [prev EXCEPT ![call[t]] = store[key[call[t]]]]
  /\ IF kind[call[t]] = "get"
     THEN Goto(t, "idle") /\ ended' = ended \cup {call[t]}
     ELSE Goto(t, "write") /\ UNCHANGED ended
  /\ UNCHANGED <<serverVars, calls, call, kind, key, before, expected>> /\ callStep

\* It times out: nothing is written.
AskRaises(t) ==
  /\ pc[t] = "ask"
  /\ Goto(t, "idle")
  /\ UNCHANGED <<serverVars, callVars>> /\ callStep

WritePutsOnly(t) ==
  /\ pc[t] = "write"
  /\ LET n == call[t]  k == key[n] IN
     /\ store' = IF kind[n] = "put" THEN [store EXCEPT ![k] = n] ELSE store
     /\ ended' = ended \cup {n}
     /\ expected' = [expected EXCEPT ![k] = {Left(n)} \cup Pending(k, t)]
  /\ Goto(t, "idle")
  /\ UNCHANGED <<wire, calls, call, kind, key, prev, before>> /\ callStep

\* cache.set or cache.remove, and the answer.
Write(t) ==
  /\ pc[t] = "write"
  /\ LET n == call[t]  k == key[n] IN
     /\ store' = [store EXCEPT ![k] = Left(n)]
     /\ ended' = ended \cup {n}
     /\ expected' = [expected EXCEPT ![k] = {Left(n)} \cup Pending(k, t)]
  /\ Goto(t, "idle")
  /\ UNCHANGED <<wire, calls, call, kind, key, prev, before>> /\ callStep

\* It times out; the request is on its way.
WriteRaises(t) ==
  /\ pc[t] = "write"
  /\ LET n == call[t] IN
     wire' = wire \cup {[call |-> n, keys |-> {key[n]}, value |-> Left(n)]}
  /\ Goto(t, "idle")
  /\ UNCHANGED <<store, callVars>> /\ callStep

\* flush_all, which nobody waits for.
Clear(t) ==
  /\ pc[t] = "idle" /\ calls < MaxCalls
  /\ calls' = calls + 1
  /\ wire' = wire \cup {[call |-> calls', keys |-> Keys, value |-> 0]}
  /\ kind' = [kind EXCEPT ![calls'] = "clear"]
  /\ UNCHANGED <<pc, store, call, key, prev, ended, before, expected>> /\ callStep

\* The server carries out a late request, unless it was never sent.
Late(r) ==
  /\ r \in wire
  /\ wire' = wire \ {r}
  /\ \/ store' = [k \in Keys |-> IF k \in r.keys THEN r.value ELSE store[k]]
     \/ UNCHANGED store
  /\ UNCHANGED <<pc, callVars>> /\ callStep

\* The server is full, or starts anew.
Evict(k) ==
  /\ store[k] # 0
  /\ store' = [store EXCEPT ![k] = 0]
  /\ UNCHANGED <<pc, wire, callVars>> /\ callStep

Works(t) == Ask(t) \/ AskRaises(t) \/ Write(t) \/ WriteRaises(t)

Next ==
  \/ ConfigStart \/ ConfigStop
  \/ \E t \in Threads :
       \/ GetCache(t) \/ Builds(t) \/ Works(t) \/ Clear(t)
       \/ \E k \in Keys, m \in {"get", "put", "remove"} : Begin(t, m, k)
  \/ \E r \in wire : Late(r)
  \/ \E k \in Keys : Evict(k)

Spec == Init /\ [][Next]_vars

\* A thread of the application goes on.
Fairness == \A t \in Threads : WF_vars(Builds(t))

FairSpec == Spec /\ Fairness

-----------------------------------------------------------------------------
(* Properties.                                                             *)

TypeOK ==
  /\ ConfigTypeOK
  /\ resolved \in BOOLEAN /\ service \in 0 .. MaxConfigs
  /\ monitor \in Threads \cup {NoThread}
  /\ ref \in [Threads -> 0 .. MaxConfigs] /\ bereft \in BOOLEAN
  /\ pc \in [Threads -> {"new", "build", "spin", "fetch", "refused", "raised",
                      "idle", "ask", "write"}]
  /\ store \in [Keys -> Values]
  /\ wire \subseteq [call : Calls, keys : SUBSET Keys, value : Values]
  /\ calls \in 0 .. MaxCalls /\ call \in [Threads -> Values]
  /\ kind \in [Calls -> {"none", "get", "put", "remove", "clear"}]
  /\ key \in [Calls -> Keys] /\ prev \in [Calls -> Values]
  /\ ended \subseteq Calls /\ before \in [Calls -> SUBSET Calls]
  /\ expected \in [Keys -> SUBSET Values]

\* What the server holds was left by the last put or remove that answered, by one
\* that was under way when it did or has begun since, or by one that had timed out
\* and is carried out late: nothing older ever comes back.
NothingOldComesBack == \A k \in Keys : store[k] \in expected[k] \cup {0}

\* Two calls that both answer the same previous value for their own to replace
\* overlapped, although each reads and writes in two calls.
SamePreviousOverlap == \A c, d \in ended :
  /\ kind[c] \in {"put", "remove"} /\ kind[d] \in {"put", "remove"}
  /\ key[c] = key[d] /\ c \in before[d] /\ prev[c] # 0
  => prev[d] # prev[c]

\* A getCache that fails for want of a configuration service does so because the
\* lazy configService is null, for this thread and all later ones, and that it is
\* only since the service went away in the moment after it was first found.
RefusedWithCause == \A t \in Threads :
  pc[t] = "refused" => resolved /\ service = 0 /\ bereft

\* If the configuration service comes to stay, every getCache ends, whichever
\* thread had to wait for it: with a client, with what the configuration itself or
\* the client's builder raises, or on a null configService, but that only if the
\* service went away in the moment after it was first found.
GetCacheEnds ==
  <>[](config # 0) =>
    \A t \in Threads :
      pc[t] = "build" ~> pc[t] \in {"idle", "raised"} \/ (pc[t] = "refused" /\ bereft)

=============================================================================
