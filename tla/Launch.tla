------------------------------- MODULE Launch -------------------------------
(* When the checkout opens: the owner proves the payments with both switches *)
(* off (payment-smoke.py), signs the proof into an activation, and turns the *)
(* switches on; the server asks for the one or the other and for a recipe    *)
(* engine that is ready (_runtime_payment_readiness). The other facts of the *)
(* readiness (operator, sources, receipt, worker) are taken as given.        *)
EXTENDS Engine

CONSTANT Configs   \* stores, variants, keys and secrets, one set after another

ASSUME LaunchAssumption == Configs \in Nat \ {0}

VARIABLES
  config,       \* the set in the environment now
  proving,      \* what a smoke that runs has read of release and config
  marker,       \* payment-smoke marker
  activation,   \* payment-activation marker
  proven        \* the configs a smoke went through with

launchVars == <<config, proving, marker, activation, proven>>

Unproven == [release |-> 0, config |-> 0, fresh |-> FALSE]
BothOn    == switched = Switches

(* _recipe_gate_ready: the switch alone is no defect of the recipes.         *)
RecipeGate == Blockers \ {"payments_enabled"} = {}

(* subscription_marker_status: of this release and this config, and of today. *)
Verified == marker.fresh /\ marker.release = release /\ marker.config = config

(* _subscription_evidence_status: with both switches on the activation       *)
(* counts, whatever its age and release; before, the marker.                 *)
Evidence == IF BothOn THEN activation.config = config ELSE Verified
Open == BothOn /\ Evidence /\ RecipeGate

----------------------------------------------------------------------------
(* payment-smoke.py: payments off, and nothing missing but the proof itself; *)
(* the release and the config are those it read when it began.               *)
ProveBegins ==
  /\ proving = Unproven /\ switched = {} /\ RecipeGate
  /\ proving' = [release |-> release, config |-> config, fresh |-> TRUE]
  /\ UNCHANGED <<config, marker, activation, proven>>
ProveEnds ==
  /\ proving # Unproven /\ proving' = Unproven
  /\ \/ marker' = proving /\ proven' = proven \cup {proving.config}
     \/ UNCHANGED <<marker, proven>>
  /\ UNCHANGED <<config, activation>>

\* Mutant of Authorizes: a fresh marker is signed for what is configured now.
AuthorizesNow ==
  /\ marker.fresh /\ activation' = [release |-> release, config |-> config, fresh |-> TRUE]
  /\ UNCHANGED <<config, proving, marker, proven>>

(* --authorize-activation takes the fingerprints from the marker.            *)
Authorizes ==
  /\ Verified /\ activation' = marker
  /\ UNCHANGED <<config, proving, marker, proven>>

Reconfigures ==
  /\ config' \in 1..Configs /\ config' # config
  /\ UNCHANGED <<proving, marker, activation, proven>>

(* SUBSCRIPTION_SMOKE_MAX_AGE_SECONDS: a day.                                *)
MarkerAges ==
  /\ marker.fresh /\ marker' = [marker EXCEPT !.fresh = FALSE]
  /\ UNCHANGED <<config, proving, activation, proven>>

LaunchInit ==
  /\ EngineInit /\ config = 1 /\ proving = Unproven /\ marker = Unproven
  /\ activation = Unproven /\ proven = {}
Launches == ProveBegins \/ ProveEnds \/ Authorizes \/ Reconfigures \/ MarkerAges
LaunchNext ==
  \/ EngineNext /\ UNCHANGED launchVars
  \/ Launches /\ UNCHANGED engineVars
LaunchSpec ==
  /\ LaunchInit /\ [][LaunchNext]_<<engineVars, launchVars>>
  /\ WF_engineVars(Rollout) /\ WF_engineVars(Watch)

----------------------------------------------------------------------------
LaunchTypeOK ==
  LET proof == [release : 0..Releases, config : 0..Configs, fresh : BOOLEAN]
  IN config \in 1..Configs /\ {proving, marker, activation} \subseteq proof /\ proven \subseteq 1..Configs

(* Nobody can pay with stores, keys and secrets that no full smoke went      *)
(* through with, in whatever order the owner proves, signs, changes the      *)
(* environment and turns the switches.                                       *)
OpenIsProven == Open => config \in proven

(* subscription_activation_status: neither time nor a new release closes the *)
(* checkout of payments that are on; it is open again and again while the    *)
(* offers are good and the activation is that of the environment.            *)
OnAndWell == BothOn /\ activation.config = config /\ Plannable(offers) /\ offers \notin Poor
StaysOpen == <>[]OnAndWell => []<>Open
=============================================================================
