---------------------------- MODULE PlanServing ----------------------------
(* Meal plans: who may have a new one, who builds it, and where it is kept.  *)
(* Requests run in threads; a request reads the customer's inputs, waits for *)
(* a seat, reads the date, takes one of the day's plans, builds and stores.  *)
EXTENDS Integers, FiniteSets

CONSTANTS
  Eaters,       \* accounts
  Inputs,       \* what a plan is made from: profile, stores, offers of a week
  Recent,       \* accounts with a plan in one of the two weeks before
  LimitFree,    \* LIMIT_PREPOCTOV_ZDARMA
  LimitPremium, \* LIMIT_PREPOCTOV_PREMIUM
  Seats,        \* PLAN_SUBEZNE_MAX
  LastDay,      \* bound: days
  MaxPlans,     \* bound: operations begun
  NoPlan

ASSUME PlanAssumption ==
  /\ LimitFree \in Nat /\ LimitPremium \in Nat /\ LimitFree <= LimitPremium
  /\ Seats \in Nat /\ LastDay \in Nat /\ MaxPlans \in Nat
  /\ Recent \subseteq Eaters /\ NoPlan \notin Inputs \cup Int

VARIABLES
  day,        \* today in Bratislava
  used,       \* table prepocty
  repaired,   \* table profilove_opravy
  premium,    \* accounts with Premium
  inputs,     \* what the account's plan would be made from now
  plan,       \* table plany, this week's row
  shared,     \* table plany_zdielane: inputs somebody has a plan for
  seats,      \* PLAN_MIESTA
  work,       \* _PLAN_FLIGHTS: one operation for an account and a kind
  begun,      \* operations begun
  made,       \* plans a day was charged for, by the day they were charged to
  swept,      \* days whose rows were deleted by a request of another day
  gone        \* erased accounts

planVars == <<day, used, repaired, premium, inputs, plan, shared, seats, work, begun, made, swept, gone>>

Days  == 0..LastDay
Kinds == {"regular", "force", "pantry"}
Plan  == [of : Inputs, pantry : BOOLEAN, old : BOOLEAN]
Work  == [at : {"seat", "day", "reserve", "build"}, of : Inputs, limit : Nat, upgrade : BOOLEAN,
          day : Days \cup {NoPlan}]

ASSUME NoPlanAssumption == NoPlan \notin Plan \cup Work

Limit(u) == IF u \in premium THEN LimitPremium ELSE LimitFree

(* osobna_cache_plati: made by this release, from these inputs.              *)
Valid(u, pantry) ==
  plan[u] # NoPlan /\ plan[u].of = inputs[u] /\ plan[u].pantry = pantry /\ ~plan[u].old
Stale(u) == plan[u] # NoPlan /\ ~Valid(u, FALSE) /\ ~Valid(u, TRUE) /\ ~plan[u].old

(* prevezmi_zdielany_plan: the row of the account becomes the shared plan.   *)
Adoptable(u) == inputs[u] \in shared /\ u \notin Recent
Fresh(of, pantry) == [of |-> of, pantry |-> pantry, old |-> FALSE]

Begins(u, k, upgrade) ==
  /\ begun < MaxPlans /\ begun' = begun + 1
  /\ work' = [work EXCEPT ![u][k] = [at |-> "seat", of |-> inputs[u], limit |-> Limit(u),
                                     upgrade |-> upgrade, day |-> NoPlan]]

----------------------------------------------------------------------------
(* Requests                                                                  *)

(* generuj_plan. A plan of an older release is kept until it is replaced.    *)
Generate(u) ==
  /\ u \notin gone /\ work[u]["regular"] = NoPlan /\ ~Valid(u, FALSE)
  /\ LET old == plan[u] # NoPlan /\ plan[u].old IN
     \/ /\ Adoptable(u)
        /\ plan' = [plan EXCEPT ![u] = Fresh(inputs[u], FALSE)]
        /\ UNCHANGED <<work, begun>>
     \/ /\ ~Adoptable(u)
        /\ plan' = IF old THEN plan ELSE [plan EXCEPT ![u] = NoPlan]
        /\ Begins(u, "regular", old)
  /\ UNCHANGED <<day, used, repaired, premium, inputs, shared, seats, made, swept, gone>>

(* "Another plan", and a plan from what is at home.                          *)
Another(u) ==
  /\ u \notin gone /\ work[u]["force"] = NoPlan
  /\ Begins(u, "force", FALSE)
  /\ UNCHANGED <<day, used, repaired, premium, inputs, plan, shared, seats, made, swept, gone>>
FromPantry(u) ==
  /\ u \notin gone /\ work[u]["pantry"] = NoPlan
  /\ u \in premium /\ ~Valid(u, TRUE)
  /\ Begins(u, "pantry", FALSE)
  /\ UNCHANGED <<day, used, repaired, premium, inputs, plan, shared, seats, made, swept, gone>>

(* daj_plan drops a row that is no longer true, and adopts a shared one.     *)
Look(u) ==
  /\ u \notin gone /\ ~Valid(u, FALSE) /\ ~Valid(u, TRUE)
  /\ plan' = [plan EXCEPT ![u] = IF Adoptable(u) THEN Fresh(inputs[u], FALSE)
                                 ELSE IF Stale(u) THEN NoPlan ELSE @]
  /\ UNCHANGED <<day, used, repaired, premium, inputs, shared, seats, work, begun, made, swept, gone>>

----------------------------------------------------------------------------
(* The operation                                                             *)

(* Without a free seat the request is refused, before it costs anything.     *)
Seat(u, k) ==
  /\ work[u][k] # NoPlan /\ work[u][k].at = "seat"
  /\ IF seats > 0
     THEN seats' = seats - 1 /\ work' = [work EXCEPT ![u][k].at = "day"]
     ELSE UNCHANGED seats /\ work' = [work EXCEPT ![u][k] = NoPlan]
  /\ UNCHANGED <<day, used, repaired, premium, inputs, plan, shared, begun, made, swept, gone>>

ReadDay(u, k) ==
  /\ work[u][k] # NoPlan /\ work[u][k].at = "day"
  /\ work' = [work EXCEPT ![u][k].at = "reserve", ![u][k].day = day]
  /\ UNCHANGED <<day, used, repaired, premium, inputs, plan, shared, seats, begun, made, swept, gone>>

Leaves(u, k) == seats' = seats + 1 /\ work' = [work EXCEPT ![u][k] = NoPlan]

(* rezervuj_prepocet: BEGIN IMMEDIATE, and the rows of every other day go.   *)
Sweep(w, d) == [v \in Eaters |-> [e \in Days |-> IF e = d THEN w[v][e] ELSE 0]]
TakePlan(u, k) ==
  LET o == work[u][k] IN
  /\ o # NoPlan /\ o.at = "reserve"
  /\ IF o.upgrade
     THEN work' = [work EXCEPT ![u][k].at = "build"] /\ UNCHANGED <<used, seats, swept>>
     ELSE IF used[u][o.day] < o.limit
     THEN /\ used' = Sweep([used EXCEPT ![u][o.day] = @ + 1], o.day)
          /\ swept' = swept \cup {d \in Days : d # o.day /\ \E v \in Eaters : used[v][d] > 0}
          /\ work' = [work EXCEPT ![u][k].at = "build"]
          /\ UNCHANGED seats
     ELSE Leaves(u, k) /\ UNCHANGED <<used, swept>>
  /\ UNCHANGED <<day, repaired, premium, inputs, plan, shared, begun, made, gone>>

(* One transaction writes the account's row and, for a plan that is nobody's *)
(* own, the shared one.                                                      *)
Store(u, k) ==
  LET o == work[u][k] IN
  /\ o # NoPlan /\ o.at = "build"
  /\ plan' = [plan EXCEPT ![u] = Fresh(o.of, k = "pantry")]
  /\ shared' = IF k = "pantry" \/ u \in Recent THEN shared ELSE shared \cup {o.of}
  /\ made' = IF o.upgrade THEN made ELSE [made EXCEPT ![u][o.day] = @ + 1]
  /\ Leaves(u, k)
  /\ UNCHANGED <<day, used, repaired, premium, inputs, begun, swept, gone>>

(* vrat_prepocet: a plan that was not built is not charged.                  *)
GiveBack(w, u, d) == IF w[u][d] > 0 THEN [w EXCEPT ![u][d] = @ - 1] ELSE w
Fail(u, k) ==
  LET o == work[u][k] IN
  /\ o # NoPlan /\ o.at = "build"
  /\ used' = IF o.upgrade THEN used ELSE GiveBack(used, u, o.day)
  /\ Leaves(u, k)
  /\ UNCHANGED <<day, repaired, premium, inputs, plan, shared, begun, made, swept, gone>>

----------------------------------------------------------------------------
(* Around it                                                                 *)

\* Mutant of Repairs: every correction of the profile gives a plan back.
RepairsAlways(u) == used[u][day] > 0

(* uvolni_jednu_opravu_profilu: one plan a day, if one was used.             *)
Repairs(u) == <<u, day>> \notin repaired /\ used[u][day] > 0

(* uloz_profil: one transaction; the row of this week is deleted. Then the   *)
(* plan for the new profile is adopted, if there is one.                     *)
SaveProfile(u, i) ==
  /\ u \notin gone /\ i # inputs[u]
  /\ inputs' = [inputs EXCEPT ![u] = i]
  /\ plan' = [plan EXCEPT ![u] = IF i \in shared /\ u \notin Recent THEN Fresh(i, FALSE) ELSE NoPlan]
  /\ IF plan[u] # NoPlan /\ Repairs(u)
     THEN /\ used' = GiveBack(used, u, day)
          /\ repaired' = {r \in repaired : r[2] = day} \cup {<<u, day>>}
     ELSE UNCHANGED <<used, repaired>>
  /\ UNCHANGED <<day, premium, shared, seats, work, begun, made, swept, gone>>

PremiumTurns(u) ==
  /\ premium' = IF u \in premium THEN premium \ {u} ELSE premium \cup {u}
  /\ UNCHANGED <<day, used, repaired, inputs, plan, shared, seats, work, begun, made, swept, gone>>

Midnight ==
  /\ day < LastDay /\ day' = day + 1
  /\ UNCHANGED <<used, repaired, premium, inputs, plan, shared, seats, work, begun, made, swept, gone>>

(* A restart loses the operations with their seats and charges. A release    *)
(* with another algorithm makes every stored plan old.                       *)
Restart ==
  /\ \E u \in Eaters, k \in Kinds : work[u][k] # NoPlan
  /\ work' = [u \in Eaters |-> [k \in Kinds |-> NoPlan]]
  /\ seats' = Seats
  /\ \/ UNCHANGED <<plan, shared>>
     \/ /\ plan' = [u \in Eaters |-> IF plan[u] = NoPlan THEN NoPlan ELSE [plan[u] EXCEPT !.old = TRUE]]
        /\ shared' = {}
  /\ UNCHANGED <<day, used, repaired, premium, inputs, begun, made, swept, gone>>

(* delete_user_account deletes the rows of the account in every table here.  *)
EraseEater(u) ==
  /\ u \notin gone
  /\ gone' = gone \cup {u}
  /\ plan' = [plan EXCEPT ![u] = NoPlan]
  /\ used' = [used EXCEPT ![u] = [d \in Days |-> 0]]
  /\ repaired' = {r \in repaired : r[1] # u}
  /\ UNCHANGED <<day, premium, inputs, shared, seats, work, begun, made, swept>>

----------------------------------------------------------------------------
PlanInit ==
  /\ day = 0 /\ used = [u \in Eaters |-> [d \in Days |-> 0]] /\ repaired = {}
  /\ premium \in SUBSET Eaters /\ inputs \in [Eaters -> Inputs]
  /\ plan = [u \in Eaters |-> NoPlan] /\ shared = {}
  /\ seats = Seats /\ work = [u \in Eaters |-> [k \in Kinds |-> NoPlan]]
  /\ begun = 0 /\ made = [u \in Eaters |-> [d \in Days |-> 0]] /\ swept = {} /\ gone = {}

PlanNext ==
  \/ \E u \in Eaters : Generate(u) \/ Another(u) \/ FromPantry(u) \/ Look(u)
                         \/ PremiumTurns(u) \/ EraseEater(u)
  \/ \E u \in Eaters, k \in Kinds : Seat(u, k) \/ ReadDay(u, k) \/ TakePlan(u, k)
                                      \/ Store(u, k) \/ Fail(u, k)
  \/ \E u \in Eaters, i \in Inputs : SaveProfile(u, i)
  \/ Midnight \/ Restart

PlanSpec == PlanInit /\ [][PlanNext]_planVars

----------------------------------------------------------------------------
(* Type invariant.                                                           *)
PlanTypeOK ==
  /\ day \in Days /\ used \in [Eaters -> [Days -> Nat]] /\ repaired \subseteq Eaters \X Days
  /\ premium \subseteq Eaters /\ inputs \in [Eaters -> Inputs]
  /\ plan \in [Eaters -> Plan \cup {NoPlan}] /\ shared \subseteq Inputs
  /\ seats \in Int /\ work \in [Eaters -> [Kinds -> Work \cup {NoPlan}]]
  /\ begun \in 0..MaxPlans /\ made \in [Eaters -> [Days -> Nat]]
  /\ swept \subseteq Days /\ gone \subseteq Eaters

(* No account is given more plans on a day than Premium has, and one more    *)
(* for a corrected profile, whatever is in flight, fails or is corrected     *)
(* meanwhile; but for a day whose counters a request from before midnight    *)
(* deleted.                                                                  *)
Charged(u, d) ==
  {k \in Kinds : /\ work[u][k] # NoPlan /\ work[u][k].at = "build"
                 /\ ~work[u][k].upgrade /\ work[u][k].day = d}
QuotaHeld ==
  \A u \in Eaters \ gone, d \in Days \ swept :
    made[u][d] + Cardinality(Charged(u, d)) <= LimitPremium + 1

=============================================================================
