--------------------------- MODULE ConfigClients ---------------------------
(***************************************************************************)
(* The two clients of the configuration service, NamingService and the     *)
(* cache of ShiroCache, over one bundle that comes and goes.  They share    *)
(* nothing else and neither changes it, so what one of them does depends on *)
(* the service alone: a behaviour shows the service and one of them.        *)
(***************************************************************************)
EXTENDS Naturals

CONSTANTS
  MaxConfigs, NPools, Bad, MayFail, MaxStarts,
  Threads, NoThread, Keys, MaxCalls

VARIABLES
  client,   \* the client this behaviour shows
  configs, config,
  started, bundle, init, context, ref, at, funcs, registered, open, overlaps, bereft,
  resolved, service, monitor, cacheRef, pc, store, wire, calls, call, kind, key, prev,
  ended, before, expected, cacheBereft

Naming == INSTANCE NamingService
Cache  == INSTANCE ShiroCache WITH ref <- cacheRef, bereft <- cacheBereft

namingVars == <<started, bundle, init, context, ref, at, funcs, registered, open, overlaps,
                bereft>>
cacheVars  == <<resolved, service, monitor, cacheRef, pc, store, wire, calls, call, kind,
                key, prev, ended, before, expected, cacheBereft>>
ASSUME ClientsAssumption == Naming!ConstantsOK /\ Cache!ConstantsOK

vars == <<client, configs, config, namingVars, cacheVars>>

Init == client \in {"naming", "cache"} /\ Naming!Init /\ Cache!Init

NamingStep == client = "naming" /\ Naming!Next /\ UNCHANGED <<client, cacheVars>>
CacheStep  == client = "cache" /\ Cache!Next /\ UNCHANGED <<client, namingVars>>

Next == NamingStep \/ CacheStep

Spec == Init /\ [][Next]_vars

FairSpec == Spec /\ Naming!Fairness /\ Cache!Fairness

-----------------------------------------------------------------------------
(* Properties, those of the two modules.                                   *)

TypeOK == Naming!TypeOK /\ Cache!TypeOK

AllConfigured       == Naming!AllConfigured
StrayOnlyByOverlap  == Naming!StrayOnlyByOverlap
RaisesWithCause     == Naming!RaisesWithCause
InitEnds            == Naming!InitEnds
NothingOldComesBack == Cache!NothingOldComesBack
SamePreviousOverlap == Cache!SamePreviousOverlap
RefusedWithCause    == Cache!RefusedWithCause
GetCacheEnds        == Cache!GetCacheEnds

=============================================================================
