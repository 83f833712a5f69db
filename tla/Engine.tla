------------------------------- MODULE Engine -------------------------------
(* The rollout of the recipe engine: the weekly matrix that measures it on   *)
(* the offers (predpocet.py), the health the server reports (server.py), the *)
(* script that switches it on behind its gates (recipe-engine-rollout.sh),   *)
(* the synthetic smoke, and the watchdog (dozorca.sh) that starts both. The  *)
(* collector, the owner and a deployment change the ground under them.       *)
EXTENDS Integers

CONSTANTS
  MaxOffers,    \* bound: sets of offers one after another, 1..n
  Thin,         \* of these, too few to plan from
  Poor,         \* of these, below the floors the matrix is held to
  Weeks, Releases,   \* bounds
  WarmShadow,   \* predpocet.env has the hourly precompute measure as well
  MaxWarm,      \* bound: its runs
  MaxSlips      \* bound: killed rollouts, failed steps, failed smokes

Switches == {"PLATBY_ZAPNUTE", "UVARSI_PAYMENTS_ENABLED"}
Modes    == {"off", "shadow", "on"}
Runners  == {"rollout", "warm"}

ASSUME EngineAssumption ==
  /\ {MaxOffers, MaxWarm, MaxSlips} \subseteq Nat /\ {Weeks, Releases} \subseteq Nat \ {0}
  /\ Thin \subseteq 1..MaxOffers /\ Poor \subseteq 1..MaxOffers /\ WarmShadow \in BOOLEAN

VARIABLES
  offers,       \* the offers of this week, 0 before any are collected
  made,         \* the sets of offers there have been
  week, release,
  library,      \* version of the planner and of its recipes
  flag,         \* the mode in uvarsi-recipe-engine.env
  mode,         \* the mode the running server was started with
  row,          \* table recipe_engine_shadow, its newest row
  matrix,       \* what a process is measuring
  smoke,        \* the state file of the smoke
  switched,     \* the payment switches that are on
  rollout,      \* where the rollout is
  warmed, slips

ground     == <<offers, made, week>>
code       == <<release, library>>
engine     == <<flag, mode>>
evidence   == <<row, matrix>>
engineVars == <<ground, code, engine, evidence, smoke, switched, rollout, warmed, slips>>

NoMatrix == [of |-> 0, library |-> 0, week |-> 0]
NoRow    == [by |-> "nobody", of |-> 0, library |-> 0, week |-> 0, complete |-> FALSE, measured |-> 0]
NoSmoke  == [ok |-> FALSE, release |-> 0, week |-> 0, fresh |-> FALSE]
Rolls(step) == rollout = step
Plannable(o) == o # 0 /\ o \notin Thin

----------------------------------------------------------------------------
(* Health                                                                    *)

(* shadow_activation_status: the newest row must be of these offers, this    *)
(* week and this library, and hold the floors.                               *)
Eligible ==
  /\ row.complete /\ row.week = week /\ row.of = offers /\ row.library = library
  /\ Plannable(offers) /\ row.measured \notin Poor

SmokePasses == smoke.ok /\ smoke.fresh /\ smoke.release = release /\ smoke.week = week

(* recipe_engine_health: what keeps it from being ready.                     *)
Blockers ==
  {b \in {"incomplete_offers", "shadow_not_ready", "payments_enabled", "smoke"} :
     \/ b = "incomplete_offers" /\ ~Plannable(offers)
     \/ b = "shadow_not_ready"  /\ mode # "off" /\ ~Eligible
     \/ b = "payments_enabled"  /\ switched # {}
     \/ b = "smoke"             /\ mode = "on" /\ ~SmokePasses}
EngineReady == Blockers = {}

----------------------------------------------------------------------------
(* The matrix                                                                *)

(* run_recipe_engine_shadow: the row is reset before anything is measured;   *)
(* offers that cannot be planned from end the run there.                     *)
Starts(r) ==
  /\ row' = [by |-> r, of |-> offers, library |-> 0, week |-> week, complete |-> FALSE, measured |-> 0]
  /\ matrix' = [matrix EXCEPT ![r] = IF Plannable(offers)
                                     THEN [of |-> offers, library |-> library, week |-> week] ELSE NoMatrix]

\* Mutant of Mine: the row of the week is completed, whoever reset it.
MineByWeek(r) == row.week = matrix[r].week

(* The row is completed only if it still is the one this run has reset.      *)
Mine(r) == row.by = r /\ row.week = matrix[r].week /\ row.of = matrix[r].of /\ ~row.complete
Finishes(r) ==
  /\ matrix' = [matrix EXCEPT ![r] = NoMatrix]
  /\ row' = IF Mine(r) THEN [row EXCEPT !.complete = TRUE, !.library = matrix[r].library, !.measured = matrix[r].of]
            ELSE row

(* zahrej: the precompute measures beside the rollout, without its lock.     *)
WarmStarts ==
  /\ WarmShadow /\ warmed < MaxWarm /\ matrix["warm"] = NoMatrix
  /\ Starts("warm") /\ warmed' = warmed + 1
  /\ UNCHANGED <<ground, code, engine, smoke, switched, rollout, slips>>
WarmFinishes ==
  /\ matrix["warm"] # NoMatrix /\ Finishes("warm")
  /\ UNCHANGED <<ground, code, engine, smoke, switched, rollout, warmed, slips>>

----------------------------------------------------------------------------
(* The rollout                                                               *)

Goes(step) == rollout' = step
Gated(passes, step) == Goes(IF passes THEN step ELSE "undo")

(* payments_off of the script asks for both switches or for the second one,  *)
(* which is the second one: the first alone stops the health gate and the    *)
(* smoke.                                                                    *)
PaymentsOff == "UVARSI_PAYMENTS_ENABLED" \notin switched

(* health_gate: the live process is in this mode and has nothing against it. *)
Live(m) == mode = m /\ EngineReady

(* An engine that is on and well is left as it is.                           *)
Begins ==
  /\ Rolls("begin")
  /\ Gated(PaymentsOff, IF flag = "on" /\ Live("on") THEN "none" ELSE "to_shadow")
  /\ UNCHANGED <<ground, code, engine, evidence, smoke, switched, warmed, slips>>

SetMode(from, m, next) ==
  /\ Rolls(from) /\ Gated(PaymentsOff, next)
  /\ flag' = IF PaymentsOff THEN m ELSE flag
  /\ UNCHANGED <<ground, code, mode, evidence, smoke, switched, warmed, slips>>
ToShadow == SetMode("to_shadow", "shadow", "shadow_up")
ToOn     == SetMode("to_on", "on", "on_up")

Restarts(from, next) ==
  /\ Rolls(from) /\ mode' = flag /\ Gated(PaymentsOff, next)
  /\ UNCHANGED <<ground, code, flag, evidence, smoke, switched, warmed, slips>>
ShadowUp == Restarts("shadow_up", "matrix")
OnUp     == Restarts("on_up", "smoke")

Measures ==
  /\ Rolls("matrix") /\ Starts("rollout") /\ Gated(Plannable(offers), "measuring")
  /\ UNCHANGED <<ground, code, engine, smoke, switched, warmed, slips>>
Measured ==
  /\ Rolls("measuring") /\ Finishes("rollout") /\ Gated(Mine("rollout"), "shadow_check")
  /\ UNCHANGED <<ground, code, engine, smoke, switched, warmed, slips>>
ShadowCheck ==
  /\ Rolls("shadow_check") /\ Gated(Live("shadow"), "to_on")
  /\ UNCHANGED <<ground, code, engine, evidence, smoke, switched, warmed, slips>>

(* run_recipe_engine_synthetic_smoke writes what it saw, a failure as well;  *)
(* either switch fails it.                                                   *)
Slip == slips < MaxSlips /\ slips' = slips + 1
Smokes(well) ==
  smoke' = [ok |-> well /\ switched = {} /\ Plannable(offers), release |-> release, week |-> week, fresh |-> TRUE]
Smoke ==
  /\ Rolls("smoke")
  /\ \/ Smokes(TRUE) /\ UNCHANGED slips
     \/ Smokes(FALSE) /\ Slip
  /\ Gated(smoke'.ok, "on_check")
  /\ UNCHANGED <<ground, code, engine, evidence, switched, warmed>>
OnCheck ==
  /\ Rolls("on_check") /\ Gated(Live("on"), "none")
  /\ UNCHANGED <<ground, code, engine, evidence, smoke, switched, warmed, slips>>

(* rollback_off: the flag first, then the server.                            *)
RollsBack ==
  /\ Rolls("undo") /\ flag' = "off" /\ Goes("off_up")
  /\ UNCHANGED <<ground, code, mode, evidence, smoke, switched, warmed, slips>>
OffUp ==
  /\ Rolls("off_up") /\ mode' = flag /\ Goes("none")
  /\ UNCHANGED <<ground, code, flag, evidence, smoke, switched, warmed, slips>>

(* A step fails, or the script is killed where it stands.                    *)
Fails ==
  /\ rollout \notin {"none", "undo", "off_up"} /\ Slip /\ Goes("undo")
  /\ matrix' = [matrix EXCEPT !["rollout"] = NoMatrix]
  /\ UNCHANGED <<ground, code, engine, row, smoke, switched, warmed>>
RolloutDies ==
  /\ ~Rolls("none") /\ Slip /\ Goes("none")
  /\ matrix' = [matrix EXCEPT !["rollout"] = NoMatrix]
  /\ smoke' = IF Rolls("smoke") THEN NoSmoke ELSE smoke
  /\ UNCHANGED <<ground, code, engine, row, switched, warmed>>

----------------------------------------------------------------------------
(* The watchdog                                                              *)

\* Mutant of Revalidates: a failed smoke alone is looked after.
RevalidatesNever == mode # "on"

(* skontroluj_recipe_engine starts the rollout if the engine is not on, or   *)
(* if new offers made its evidence stale.                                    *)
Revalidates ==
  mode # "on" \/ ("incomplete_offers" \notin Blockers /\ "shadow_not_ready" \in Blockers)

(* A rollout that runs has the lock; the smoke is run again only if nothing  *)
(* else is in the way, and whatever remains is for the owner.                *)
Watch ==
  /\ Rolls("none")
  /\ \/ Revalidates /\ Goes("begin") /\ UNCHANGED <<smoke, slips>>
     \/ /\ ~Revalidates /\ Blockers = {"smoke"} /\ UNCHANGED rollout
        /\ \/ Smokes(TRUE) /\ UNCHANGED slips
           \/ Smokes(FALSE) /\ Slip
  /\ UNCHANGED <<ground, code, engine, evidence, switched, warmed>>

----------------------------------------------------------------------------
(* Around them                                                               *)

Collects ==
  /\ made < MaxOffers /\ made' = made + 1 /\ offers' = made'
  /\ UNCHANGED <<week, code, engine, evidence, smoke, switched, rollout, warmed, slips>>
NewWeek ==
  /\ week < Weeks /\ week' = week + 1 /\ offers' = 0
  /\ UNCHANGED <<made, code, engine, evidence, smoke, switched, rollout, warmed, slips>>

(* samopull.sh: both switches agree; the services are restarted, and the     *)
(* rollout is started if the data is ready and the lock is free.             *)
NewRelease ==
  /\ release < Releases /\ switched \in {{}, Switches}
  /\ release' = release + 1 /\ library' \in {library, library + 1} /\ mode' = flag
  /\ rollout' \in {rollout, IF Rolls("none") THEN "begin" ELSE rollout}
  /\ UNCHANGED <<ground, flag, evidence, smoke, switched, warmed, slips>>

(* RECIPE_SMOKE_MAX_AGE_SECONDS are over: two hours, never between a smoke   *)
(* and the health gate right behind it.                                      *)
SmokeAges ==
  /\ smoke.fresh /\ ~Rolls("on_check") /\ smoke' = [smoke EXCEPT !.fresh = FALSE]
  /\ UNCHANGED <<ground, code, engine, evidence, switched, rollout, warmed, slips>>

(* The owner, or systemd, restarts the server.                               *)
ServerRestarts ==
  /\ mode # flag /\ mode' = flag
  /\ UNCHANGED <<ground, code, flag, evidence, smoke, switched, rollout, warmed, slips>>

Flips(s) ==
  /\ switched' = IF s \in switched THEN switched \ {s} ELSE switched \cup {s}
  /\ UNCHANGED <<ground, code, engine, evidence, smoke, rollout, warmed, slips>>

EngineInit ==
  /\ offers = 0 /\ made = 0 /\ week = 1 /\ release = 1 /\ library = 1
  /\ flag = "off" /\ mode = "off" /\ row = NoRow /\ matrix = [r \in Runners |-> NoMatrix]
  /\ smoke = NoSmoke /\ switched = {} /\ rollout = "none" /\ warmed = 0 /\ slips = 0

Rollout ==
  \/ Begins \/ ToShadow \/ ShadowUp \/ Measures \/ Measured \/ ShadowCheck
  \/ ToOn \/ OnUp \/ Smoke \/ OnCheck \/ RollsBack \/ OffUp
EngineRuns == Rollout \/ Fails \/ RolloutDies \/ WarmStarts \/ WarmFinishes \/ Watch
           \/ Collects \/ NewWeek \/ NewRelease \/ SmokeAges \/ ServerRestarts
EngineNext == EngineRuns \/ \E s \in Switches : Flips(s)

(* cron starts the watchdog every hour, a rollout that runs goes on.         *)
EngineSpec == EngineInit /\ [][EngineNext]_engineVars /\ WF_engineVars(Rollout) /\ WF_engineVars(Watch)

----------------------------------------------------------------------------
EngineTypeOK ==
  /\ offers \in 0..MaxOffers /\ made \in 0..MaxOffers /\ week \in 1..Weeks
  /\ release \in 1..Releases /\ library \in 1..Releases
  /\ flag \in Modes /\ mode \in Modes /\ switched \subseteq Switches
  /\ row \in [by : Runners \cup {"nobody"}, of : 0..MaxOffers, library : 0..Releases, week : 0..Weeks,
              complete : BOOLEAN, measured : 0..MaxOffers]
  /\ matrix \in [Runners -> [of : 0..MaxOffers, library : 0..Releases, week : 0..Weeks]]
  /\ smoke \in [ok : BOOLEAN, release : 0..Releases, week : 0..Weeks, fresh : BOOLEAN]
  /\ rollout \in {"none", "begin", "to_shadow", "shadow_up", "matrix", "measuring", "shadow_check",
                  "to_on", "on_up", "smoke", "on_check", "undo", "off_up"}
  /\ warmed \in 0..MaxWarm /\ slips \in 0..MaxSlips

(* An engine that is called ready was measured on the very offers and with   *)
(* the library people plan from, whichever processes measured meanwhile.     *)
EvidenceMatches ==
  Eligible => row.measured = offers /\ offers \notin Poor

(* With payments off and offers that are good enough, the engine is on and   *)
(* ready again and again, whatever was killed, deployed or collected before. *)
Good == switched = {} /\ Plannable(offers) /\ offers \notin Poor
EngineRecovers == <>[]Good => []<>(mode = "on" /\ EngineReady)
=============================================================================
