--------------------------- MODULE ServerConfig ---------------------------
(***************************************************************************)
(* The configuration service of the bundle config, as those that wait for   *)
(* it see it: a service that comes and goes with its bundle.  The blueprint *)
(* container runs loadConfig before anyone gets the service; where that     *)
(* raises there is no service, as before the start.                         *)
(***************************************************************************)
EXTENDS Naturals

CONSTANT MaxConfigs   \* bound: starts of the bundle

\* Assumed, with their own, by the modules that take this one's clients as instances.
ConfigConstantsOK == MaxConfigs \in Nat

VARIABLES
  configs,   \* starts of the bundle
  config     \* the start whose service is registered, 0 if none is

configVars == <<configs, config>>

ConfigInit == configs = 0 /\ config = 0

Publish ==
  /\ config = 0 /\ configs < MaxConfigs
  /\ configs' = configs + 1
  /\ config' = configs'

Withdraw ==
  /\ config # 0
  /\ config' = 0
  /\ UNCHANGED configs

ConfigTypeOK == configs \in 0 .. MaxConfigs /\ config \in 0 .. MaxConfigs

=============================================================================
