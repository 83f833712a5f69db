---------------------------- MODULE Collection ----------------------------
(* One week of leaflets: the collector (zbierac_akcii.py) reads each shop's  *)
(* leaflet into an inactive stage, a publisher (refresh_blocek.py) makes the *)
(* stage the active offers and writes the receipt, and the watchdog          *)
(* (dozorca.sh) runs both every hour. A deployment, or the owner by hand,    *)
(* runs the same programs beside it. They share one SQLite file, and a paid  *)
(* read is claimed by a lease.                                               *)
EXTENDS Integers, FiniteSets

CONSTANTS
  Shops,        \* Kaufland, Tesco, Lidl
  Free,         \* of these, read from the official list without payment
  Watchdog, Deploy,  \* the processes; a lock lets only one watchdog run
  Versions,     \* bound: leaflets of a shop one after another, 1..n
  Unreadable,   \* versions the model fails to read for a reason of their own
  Malformed,    \* versions whose manifest is refused before anything is paid
  MaxTries,     \* MAX_TRIES of the watchdog in a day
  MaxAhead,     \* PREDCITANIE_MAX_POKUSOV
  MaxRuns,      \* bound: runs beside the watchdog's
  MaxTroubles,  \* bound: outages, refusals, kills and leases run out
  Nobody

Processes == {Watchdog, Deploy}
Read == 1..Versions

ASSUME CollectionAssumption ==
  /\ Free \subseteq Shops /\ IsFiniteSet(Shops) /\ Watchdog # Deploy
  /\ {MaxTries, MaxAhead, MaxRuns, MaxTroubles} \subseteq Nat /\ Versions \in Nat \ {0}
  /\ Unreadable \subseteq Read /\ Malformed \subseteq Read
  /\ Nobody \notin Processes \cup Shops \cup Int
  /\ Nobody \notin [owner : Processes, of : Read, live : BOOLEAN]

VARIABLES
  source,       \* the leaflet a shop shows now
  former,       \* the version published last week, 0 if its days are over
  staged,       \* tables zber_staging_stav and akcie_staging
  active,       \* tables zber_stav and akcie: the version, or 0
  claim,        \* table zber_claim
  ahead,        \* table letaky_kalendar: leaflets read before their day
  tries,        \* its column pokusy
  receipt,      \* the versions the landing page was built from, or Nobody
  proc,         \* what the processes are doing
  fails,        \* the watchdog's failures of the day
  keyed,        \* COLLECTION_FAILURE_STATE names the present stage
  stopped,      \* the state file names the present stage as unfit for a receipt
  checked,      \* the daily check was made
  runs, troubles,
  wasted,       \* wasted[s][v]: paid reads that failed for a reason of their own
  forgot        \* forgot[s][v]: times the memory of such a failure was lost

memory   == <<staged, keyed, stopped>>
supply   == <<source, former, ahead, tries>>
offered  == <<active, receipt>>
ghosts   == <<wasted, forgot>>
days     == <<fails, checked>>
limits   == <<runs, troubles>>
collectionVars == <<memory, supply, offered, claim, proc, days, limits, ghosts>>

----------------------------------------------------------------------------
(* Rows                                                                      *)

Stage  == [of : 0..Versions, ok : BOOLEAN, failed : {"no", "structural", "transient"}, tried : 0..Versions]
Claim  == [owner : Processes \cup {Nobody}, of : Read, live : BOOLEAN]
(* got[s] is the version prepared for a paid read; bad, the kinds of failure *)
(* of the run; plan, what the process does after the collector.              *)
Proc   == [at : {"idle", "look", "gate", "visit", "free", "prepare", "decide", "collect", "read", "release",
                 "ended", "check", "view", "promote", "write", "daily", "ahead"},
           shop : Shops \cup {Nobody}, todo : SUBSET Shops, got : [Shops -> 0..Versions],
           bad : SUBSET {"structural", "transient"}, lapsed : BOOLEAN,
           shows : [Shops -> 0..Versions], plan : {"none", "check", "staged", "daily", "active"}]
None  == [s \in Shops |-> 0]
Idling == [at |-> "idle", shop |-> Nobody, todo |-> {}, got |-> None, bad |-> {},
           lapsed |-> FALSE, shows |-> None, plan |-> "none"]
Unstaged == [of |-> 0, ok |-> FALSE, failed |-> "no", tried |-> 0]

(* staged_store_problem asks nothing of the failure flag, the watchdog does. *)
Holds(s, v) == staged[s].ok /\ staged[s].of = v
Ready    == \A s \in Shops : staged[s].ok
Missing  == {s \in Shops : ~staged[s].ok \/ staged[s].failed # "no"}
Complete == \A s \in Shops : active[s] # 0
(* overeny_odtlacok: every shop has a version to name, read or refused.      *)
Named    == \A s \in Shops : staged[s].ok \/ staged[s].failed = "structural"

At(p, where) == proc[p].at = where
Moves(p, where) == proc' = [proc EXCEPT ![p].at = where]
Trouble == troubles < MaxTroubles /\ troubles' = troubles + 1 /\ UNCHANGED runs

(* Every write of a row renews its time, and with it the watchdog's keys.    *)
Writes(s, row) == staged' = [staged EXCEPT ![s] = row] /\ keyed' = FALSE /\ stopped' = FALSE
Fresh(v) == [of |-> v, ok |-> TRUE, failed |-> "no", tried |-> 0]
Failed(s, kind, v) == [staged[s] EXCEPT !.failed = kind, !.tried = v]
Clears(s) == IF staged[s].failed = "no" THEN UNCHANGED memory
             ELSE Writes(s, [staged[s] EXCEPT !.failed = "no", !.tried = 0])
Forgets(s, v) == forgot' = IF staged[s].failed = "structural" /\ staged[s].tried # v
                           THEN [forgot EXCEPT ![s][staged[s].tried] = @ + 1] ELSE forgot

\* Mutant of Remembered: every run may try again.
RememberedNever(s, v) == FALSE

(* unchanged_structural_failure                                              *)
Remembered(s, v) == staged[s].failed = "structural" /\ staged[s].tried = v

----------------------------------------------------------------------------
(* The collector: what it has to read                                        *)

Done(p)   == [proc[p] EXCEPT !.at = "visit", !.shop = Nobody, !.todo = @ \ {proc[p].shop}]
Nothing(p) == [Done(p) EXCEPT !.got[proc[p].shop] = 0]
Blamed(p, kind) == [Nothing(p) EXCEPT !.bad = @ \cup {kind}]
Sets(p, row) == proc' = [proc EXCEPT ![p] = row]

Visit(p, s) ==
  /\ At(p, "visit") /\ s \in proc[p].todo
  /\ Sets(p, [proc[p] EXCEPT !.at = IF s \in Free THEN "free" ELSE "prepare", !.shop = s])
  /\ UNCHANGED <<memory, supply, offered, claim, days, limits, ghosts>>

(* The free shop is taken from its stage, else from its active offers, else  *)
(* from its official list; only then from the paid path.                     *)
VisitFree(p) ==
  LET s == proc[p].shop IN
  /\ At(p, "free")
  /\ \/ staged[s].ok /\ Clears(s) /\ Sets(p, Done(p)) /\ UNCHANGED limits
     \/ /\ ~staged[s].ok /\ active[s] # 0
        /\ Writes(s, [staged[s] EXCEPT !.of = active[s], !.ok = TRUE])
        /\ Sets(p, Done(p)) /\ UNCHANGED limits
     \/ /\ ~staged[s].ok /\ active[s] = 0
        /\ Writes(s, Fresh(source[s])) /\ Sets(p, Done(p)) /\ UNCHANGED limits
     \/ /\ ~staged[s].ok /\ active[s] = 0 /\ Trouble
        /\ Moves(p, "prepare") /\ UNCHANGED memory
  /\ UNCHANGED <<supply, offered, claim, days, ghosts>>

(* prepare_store_collection: the manifest costs nothing.                     *)
Prepared(p) ==
  LET s == proc[p].shop IN
  /\ At(p, "prepare") /\ s \notin Free /\ source[s] \notin Malformed
  /\ Sets(p, [proc[p] EXCEPT !.at = "decide", !.got[s] = source[s]])
  /\ UNCHANGED <<memory, supply, offered, claim, days, limits, ghosts>>

(* An outage is a transient failure, recorded over whatever was remembered;  *)
(* last week's leaflet stays if the shop still announces it.                 *)
Unavailable(p) ==
  LET s == proc[p].shop IN
  /\ At(p, "prepare") /\ Trouble
  /\ IF former[s] # 0 /\ former[s] = source[s]
     THEN /\ Writes(s, [staged[s] EXCEPT !.of = former[s], !.ok = TRUE])
          /\ Sets(p, Done(p)) /\ UNCHANGED forgot
     ELSE /\ Writes(s, Failed(s, "transient", 0))
          /\ Forgets(s, 0) /\ Sets(p, Blamed(p, "transient"))
  /\ UNCHANGED <<supply, offered, claim, days, wasted>>

(* A manifest that is wrong, or not from the shop itself.                    *)
Refused(p) ==
  LET s == proc[p].shop
      v == source[s]
  IN /\ At(p, "prepare") /\ (s \in Free \/ v \in Malformed)
     /\ IF Remembered(s, v) THEN UNCHANGED <<memory, forgot>>
        ELSE Writes(s, Failed(s, "structural", v)) /\ Forgets(s, v)
     /\ Sets(p, Blamed(p, "structural"))
     /\ UNCHANGED <<supply, offered, claim, days, limits, wasted>>

(* What is staged, active or read ahead is not paid for again, nor is what   *)
(* failed for a reason of its own; another leaflet makes that be forgotten.  *)
Decide(p) ==
  LET s == proc[p].shop
      v == proc[p].got[s]
      known == Holds(s, v) \/ active[s] = v
  IN /\ At(p, "decide")
     /\ \/ /\ known /\ Sets(p, Nothing(p)) /\ Forgets(s, v)
           /\ IF Holds(s, v) THEN Clears(s) ELSE Writes(s, Fresh(v))
        \/ /\ ~known /\ <<s, v>> \in ahead
           /\ Writes(s, Fresh(v)) /\ Forgets(s, v) /\ Sets(p, Nothing(p))
        \/ /\ ~known /\ <<s, v>> \notin ahead /\ Remembered(s, v)
           /\ Sets(p, Blamed(p, "structural")) /\ UNCHANGED <<memory, forgot>>
        \/ /\ ~known /\ <<s, v>> \notin ahead /\ ~Remembered(s, v)
           /\ Sets(p, Done(p)) /\ Forgets(s, v)
           /\ IF staged[s].failed = "structural" THEN Clears(s) ELSE UNCHANGED memory
     /\ UNCHANGED <<supply, offered, claim, days, limits, wasted>>

Visited(p) ==
  /\ At(p, "visit") /\ proc[p].todo = {}
  /\ Moves(p, IF proc[p].got = None THEN "ended" ELSE "collect")
  /\ UNCHANGED <<memory, supply, offered, claim, days, limits, ghosts>>

----------------------------------------------------------------------------
(* The collector: paid reads                                                 *)

\* Mutant of Claimable: a lease that runs is taken over.
ClaimableAlways(p, s) == TRUE

(* claim_store_collection: nobody else's lease runs.                         *)
Claimable(p, s) == IF claim[s] = Nobody THEN TRUE ELSE claim[s].owner = p \/ ~claim[s].live

(* The stage is looked at again under the claim, the memory of failures not. *)
ClaimShop(p, s) ==
  LET v == proc[p].got[s] IN
  /\ At(p, "collect") /\ v # 0
  /\ IF ~Claimable(p, s)
     THEN Sets(p, [proc[p] EXCEPT !.got[s] = 0]) /\ UNCHANGED <<memory, claim, forgot>>
     ELSE /\ claim' = [claim EXCEPT ![s] = [owner |-> p, of |-> v, live |-> TRUE]]
          /\ IF Holds(s, v)
             THEN Clears(s) /\ Forgets(s, v) /\ Sets(p, [proc[p] EXCEPT !.at = "release", !.shop = s])
             ELSE /\ Sets(p, [proc[p] EXCEPT !.at = "read", !.shop = s, !.lapsed = FALSE])
                  /\ UNCHANGED <<memory, forgot>>
  /\ UNCHANGED <<supply, offered, days, limits, wasted>>

(* renew_store_claim and _require_claim_owner: the row still names the run.  *)
Owns(p) ==
  LET c == claim[proc[p].shop]
  IN IF c = Nobody THEN FALSE ELSE c.owner = p /\ c.of = proc[p].got[proc[p].shop]

(* A leaflet takes many requests; the lease is renewed around each.          *)
Renew(p) ==
  /\ At(p, "read") /\ Owns(p) /\ ~claim[proc[p].shop].live
  /\ claim' = [claim EXCEPT ![proc[p].shop].live = TRUE]
  /\ Sets(p, [proc[p] EXCEPT !.lapsed = FALSE])
  /\ UNCHANGED <<memory, supply, offered, days, limits, ghosts>>

(* The last answer, and what is kept of it.                                  *)
ReadShop(p) ==
  LET s == proc[p].shop
      v == proc[p].got[s]
      over(kind) == Sets(p, [proc[p] EXCEPT !.at = "release", !.bad = @ \cup kind])
  IN /\ At(p, "read")
     /\ \/ ~Owns(p) /\ over({"transient"}) /\ UNCHANGED <<memory, limits, ghosts>>
        \/ /\ Owns(p) /\ v \notin Unreadable
           /\ Writes(s, Fresh(v)) /\ Forgets(s, 0) /\ over({}) /\ UNCHANGED <<limits, wasted>>
        \/ /\ Owns(p) /\ v \in Unreadable
           /\ Writes(s, Failed(s, "structural", v)) /\ over({"structural"})
           /\ wasted' = [wasted EXCEPT ![s][v] = @ + 1] /\ Forgets(s, v) /\ UNCHANGED limits
        \/ /\ Owns(p) /\ Trouble
           /\ Writes(s, Failed(s, "transient", v)) /\ Forgets(s, 0) /\ over({"transient"}) /\ UNCHANGED wasted
     /\ UNCHANGED <<supply, offered, claim, days>>

\* Mutant of Released: whoever holds the claim loses it.
ReleasedAny(p, s) == [claim EXCEPT ![s] = Nobody]

(* release_store_claim deletes the run's own row.                            *)
Released(p, s) ==
  IF claim[s] # Nobody /\ claim[s].owner = p THEN [claim EXCEPT ![s] = Nobody] ELSE claim
Release(p) ==
  /\ At(p, "release")
  /\ claim' = Released(p, proc[p].shop)
  /\ Sets(p, [proc[p] EXCEPT !.at = "collect", !.got[proc[p].shop] = 0, !.shop = Nobody, !.lapsed = FALSE])
  /\ UNCHANGED <<memory, supply, offered, days, limits, ghosts>>

(* _exit_on_incomplete_collection, and what its caller makes of it.          *)
Ended(p) ==
  LET refusedAll == proc[p].bad = {"structural"}
      rest == [proc[p] EXCEPT !.bad = {}, !.todo = {}, !.got = None, !.shop = Nobody]
  IN /\ At(p, "ended") \/ (At(p, "collect") /\ proc[p].got = None)
     /\ \/ /\ proc[p].plan = "check" /\ refusedAll
           /\ keyed' = Named /\ Sets(p, Idling)
           /\ fails' = IF Named THEN fails ELSE fails + 1
        \/ /\ proc[p].plan = "check" /\ ~refusedAll
           /\ keyed' = IF proc[p].bad = {} THEN FALSE ELSE keyed
           /\ Sets(p, [rest EXCEPT !.at = "check"]) /\ UNCHANGED fails
        \/ /\ proc[p].plan = "staged" /\ UNCHANGED <<keyed, fails>>
           /\ Sets(p, IF proc[p].bad = {} THEN [rest EXCEPT !.at = "view"] ELSE Idling)
        \/ /\ proc[p].plan = "daily" /\ UNCHANGED <<keyed, fails>>
           /\ Sets(p, [rest EXCEPT !.at = IF proc[p].bad = {} THEN "view" ELSE "ahead"])
     /\ UNCHANGED <<staged, stopped, supply, offered, claim, checked, limits, ghosts>>

(* The budget or the credit refuses the run: the watchdog goes on without    *)
(* new leaflets, or leaves it to the next hour.                              *)
GivesUp(p) ==
  /\ proc[p].at \in {"prepare", "collect", "read"} /\ Trouble
  /\ claim' = IF At(p, "read") THEN Released(p, proc[p].shop) ELSE claim
  /\ \/ Sets(p, IF proc[p].plan = "daily" THEN [Idling EXCEPT !.at = "ahead"] ELSE Idling)
     \/ proc[p].plan = "check" /\ Sets(p, [Idling EXCEPT !.at = "check"])
  /\ UNCHANGED <<memory, supply, offered, days, ghosts>>

----------------------------------------------------------------------------
(* The publisher                                                             *)

(* It ends well, or unfit for the data it saw, or in passing trouble; the    *)
(* watchdog alone keeps count.                                               *)
After(p) == IF proc[p].plan = "daily" THEN [Idling EXCEPT !.at = "ahead"] ELSE Idling
Unfit(p) ==
  /\ Sets(p, After(p))
  /\ IF proc[p].plan # "check" THEN UNCHANGED <<stopped, fails>>
     ELSE stopped' = Named /\ fails' = IF Named THEN fails ELSE fails + 1

(* _staged_offer_view and _active_offer_view: a snapshot of all shops, from  *)
(* which the receipt is composed.                                            *)
View(p) ==
  /\ At(p, "view")
  /\ IF proc[p].plan = "active"
     THEN /\ UNCHANGED <<stopped, fails>>
          /\ Sets(p, IF Complete THEN [proc[p] EXCEPT !.at = "write", !.shows = active]
                     ELSE After(p))
     ELSE IF Ready
     THEN /\ UNCHANGED <<stopped, fails>>
          /\ Sets(p, [proc[p] EXCEPT !.at = "promote", !.shows = [s \in Shops |-> staged[s].of]])
     ELSE Unfit(p)
  /\ UNCHANGED <<staged, keyed, supply, offered, claim, checked, limits, ghosts>>

(* promote_staged_week: what is staged now becomes active, all shops at once. *)
Promote(p) ==
  /\ At(p, "promote")
  /\ IF Ready
     THEN /\ active' = [s \in Shops |-> staged[s].of]
          /\ Moves(p, "write") /\ UNCHANGED <<stopped, fails>>
     ELSE Unfit(p) /\ UNCHANGED active
  /\ UNCHANGED <<staged, keyed, supply, receipt, claim, checked, limits, ghosts>>

(* The receipt of the snapshot; landing_data_is_verified_current compares it *)
(* with the active offers.                                                   *)
Write(p) ==
  /\ At(p, "write")
  /\ receipt' = proc[p].shows
  /\ Sets(p, After(p))
  /\ fails' = IF p # Watchdog \/ proc[p].plan = "daily" THEN fails
              ELSE IF receipt' = active THEN 0 ELSE fails + 1
  /\ UNCHANGED <<memory, supply, active, claim, checked, limits, ghosts>>

(* A locked database, a full disk.                                           *)
WriteFails(p) ==
  /\ proc[p].at \in {"view", "promote", "write"} /\ Trouble
  /\ Sets(p, After(p))
  /\ fails' = IF p # Watchdog \/ proc[p].plan = "daily" THEN fails ELSE fails + 1
  /\ UNCHANGED <<memory, supply, offered, claim, checked, ghosts>>

----------------------------------------------------------------------------
(* The watchdog                                                              *)

Wakes == At(Watchdog, "idle") /\ Moves(Watchdog, "look")
         /\ UNCHANGED <<memory, supply, offered, claim, days, limits, ghosts>>

(* A shop is collected only if neither the active offers nor the stage have  *)
(* all shops; the free shop first, by the official list alone.               *)
Look ==
  /\ At(Watchdog, "look")
  /\ \/ /\ Complete \/ Missing = {}
        /\ Sets(Watchdog, [Idling EXCEPT !.at = "check", !.plan = "check"])
        /\ UNCHANGED <<memory, limits>>
     \/ /\ ~Complete /\ Missing # {} /\ Missing \cap Free = {}
        /\ Moves(Watchdog, "gate") /\ UNCHANGED <<memory, limits>>
     \/ \E s \in Missing \cap Free :
        /\ ~Complete /\ Moves(Watchdog, "gate")
        /\ \/ Writes(s, Fresh(source[s])) /\ UNCHANGED limits
           \/ Trouble /\ UNCHANGED memory
  /\ UNCHANGED <<supply, offered, claim, days, ghosts>>

(* The day's limit and the failure of the same stage are looked up before    *)
(* the collector is started for the shops that are missing.                  *)
Gate ==
  /\ At(Watchdog, "gate")
  /\ \/ Missing = {} /\ Sets(Watchdog, [Idling EXCEPT !.at = "check", !.plan = "check"])
     \/ Missing # {} /\ (fails >= MaxTries \/ (keyed /\ Named)) /\ Sets(Watchdog, Idling)
     \/ Missing # {} /\ fails < MaxTries /\ ~(keyed /\ Named)
        /\ Sets(Watchdog, [Idling EXCEPT !.at = "visit", !.todo = Missing, !.plan = "check"])
  /\ UNCHANGED <<memory, supply, offered, claim, days, limits, ghosts>>

\* Mutant of Settled: a receipt of this week is good enough.
SettledByDate == Complete /\ receipt # Nobody

(* landing_data_is_current, with every shop in the active offers.            *)
Settled == Complete /\ receipt = active
Check ==
  /\ At(Watchdog, "check")
  /\ \/ /\ Settled /\ fails' = 0 /\ stopped' = FALSE
        /\ Sets(Watchdog, [Idling EXCEPT !.at = IF checked THEN "ahead" ELSE "daily"])
     \/ /\ ~Settled /\ ((stopped /\ Named) \/ fails >= MaxTries)
        /\ Sets(Watchdog, Idling) /\ UNCHANGED <<stopped, fails>>
     \/ /\ ~Settled /\ ~(stopped /\ Named) /\ fails < MaxTries
        /\ Sets(Watchdog, [Idling EXCEPT !.at = "view", !.plan = IF Complete THEN "active" ELSE "check"])
        /\ UNCHANGED <<stopped, fails>>
  /\ UNCHANGED <<staged, keyed, supply, offered, claim, checked, limits, ghosts>>

(* check_source_changes: the free shop is staged anew, a paid one collected  *)
(* anew, and the stage published if that went well.                          *)
Daily ==
  LET new(s) == source[s] # active[s] IN
  /\ At(Watchdog, "daily") /\ checked' = TRUE
  /\ staged' = [s \in Shops |-> IF s \in Free /\ new(s) THEN Fresh(source[s]) ELSE staged[s]]
  /\ IF staged' = staged THEN UNCHANGED <<keyed, stopped>> ELSE keyed' = FALSE /\ stopped' = FALSE
  /\ Sets(Watchdog,
       IF \E s \in Shops \ Free : new(s)
       THEN [Idling EXCEPT !.at = "visit", !.todo = {s \in Shops \ Free : new(s)}, !.plan = "daily"]
       ELSE [Idling EXCEPT !.at = IF \E s \in Free : new(s) THEN "view" ELSE "ahead", !.plan = "daily"])
  /\ UNCHANGED <<supply, offered, claim, fails, limits, ghosts>>

(* prefetch_upcoming_leaflets: at most so many paid reads of one leaflet.    *)
Prefetch ==
  /\ At(Watchdog, "ahead") /\ Sets(Watchdog, Idling)
  /\ \/ UNCHANGED <<ahead, tries>>
     \/ \E s \in Shops \ Free : LET v == source[s] + 1 IN
          /\ v <= Versions /\ <<s, v>> \notin ahead /\ tries[s][v] < MaxAhead
          /\ tries' = [tries EXCEPT ![s][v] = @ + 1]
          /\ ahead' \in {ahead, IF v \in Unreadable \cup Malformed THEN ahead ELSE ahead \cup {<<s, v>>}}
  /\ UNCHANGED <<memory, source, former, offered, claim, days, limits, ghosts>>

----------------------------------------------------------------------------
(* Beside the watchdog                                                       *)

(* A deployment rebuilds the receipt, or collects all shops and publishes.   *)
Deploys ==
  /\ At(Deploy, "idle") /\ runs < MaxRuns /\ runs' = runs + 1 /\ UNCHANGED troubles
  /\ \/ Sets(Deploy, [Idling EXCEPT !.at = "view", !.plan = "active"])
     \/ Sets(Deploy, [Idling EXCEPT !.at = "visit", !.todo = Shops, !.plan = "staged"])
  /\ keyed' = FALSE /\ stopped' = FALSE   \* the keys name the release
  /\ UNCHANGED <<staged, supply, offered, claim, days, ghosts>>

(* Killed where it stands: a claim stays until its lease is over.            *)
Killed(p) ==
  /\ ~At(p, "idle") /\ Trouble /\ Sets(p, Idling)
  /\ claim' = [s \in Shops |-> IF claim[s] # Nobody /\ claim[s].owner = p
                               THEN [claim[s] EXCEPT !.owner = Nobody] ELSE claim[s]]
  /\ UNCHANGED <<memory, supply, offered, days, ghosts>>

(* The lease is over: of a dead run, or of one that answers too slowly.      *)
LeaseEnds(s) ==
  /\ claim[s] # Nobody /\ claim[s].live
  /\ claim' = [claim EXCEPT ![s].live = FALSE]
  /\ IF claim[s].owner = Nobody THEN UNCHANGED <<proc, limits>>
     ELSE Trouble /\ proc' = [proc EXCEPT ![claim[s].owner].lapsed = TRUE]
  /\ UNCHANGED <<memory, supply, offered, days, ghosts>>

NewLeaflet(s) ==
  /\ source[s] < Versions /\ source' = [source EXCEPT ![s] = @ + 1]
  /\ UNCHANGED <<memory, former, offered, claim, ahead, tries, proc, days, limits, ghosts>>

(* The keys name the day, the count of failures and the check are of the day. *)
NewDay ==
  /\ keyed' = FALSE /\ stopped' = FALSE /\ fails' = 0 /\ checked' = FALSE
  /\ UNCHANGED <<staged, supply, offered, claim, proc, limits, ghosts>>

CollectionInit ==
  /\ source = [s \in Shops |-> 1] /\ staged = [s \in Shops |-> Unstaged]
  /\ former \in [Shops -> 0..1] /\ active = former /\ claim = [s \in Shops |-> Nobody]
  /\ ahead = {} /\ tries = [s \in Shops |-> [v \in Read |-> 0]]
  /\ receipt = Nobody /\ proc = [p \in Processes |-> Idling]
  /\ fails = 0 /\ keyed = FALSE /\ stopped = FALSE /\ checked = FALSE
  /\ runs = 0 /\ troubles = 0
  /\ wasted = [s \in Shops |-> [v \in Read |-> 0]] /\ forgot = wasted

Works(p) ==
  \/ \E s \in Shops : Visit(p, s) \/ ClaimShop(p, s)
  \/ VisitFree(p) \/ Prepared(p) \/ Unavailable(p) \/ Refused(p) \/ Decide(p) \/ Visited(p)
  \/ Renew(p) \/ ReadShop(p) \/ Release(p) \/ Ended(p) \/ GivesUp(p)
  \/ View(p) \/ Promote(p) \/ Write(p) \/ WriteFails(p)
Watches == Look \/ Gate \/ Check \/ Daily \/ Prefetch
Outside ==
  \/ Deploys \/ NewDay
  \/ \E p \in Processes : Killed(p)
  \/ \E s \in Shops : LeaseEnds(s) \/ NewLeaflet(s)

CollectionNext == (\E p \in Processes : Works(p)) \/ Wakes \/ Watches \/ Outside

(* cron starts the watchdog every hour; a process that runs goes on; a dead  *)
(* lease ends, and so does the day.                                          *)
Hourly ==
  /\ WF_collectionVars(Works(Watchdog) \/ Watches) /\ WF_collectionVars(Wakes)
  /\ WF_collectionVars(NewDay)
CollectionSpec == CollectionInit /\ [][CollectionNext]_collectionVars /\ Hourly

----------------------------------------------------------------------------
CollectionTypeOK ==
  /\ source \in [Shops -> Read] /\ former \in [Shops -> 0..1] /\ staged \in [Shops -> Stage] /\ active \in [Shops -> 0..Versions]
  /\ claim \in [Shops -> Claim \cup {Nobody}] /\ ahead \subseteq Shops \X Read
  /\ tries \in [Shops -> [Read -> 0..MaxAhead]] /\ (receipt = Nobody \/ receipt \in [Shops -> 0..Versions])
  /\ proc \in [Processes -> Proc] /\ fails \in 0..MaxTries
  /\ keyed \in BOOLEAN /\ stopped \in BOOLEAN /\ checked \in BOOLEAN
  /\ runs \in 0..MaxRuns /\ troubles \in 0..MaxTroubles
  /\ wasted \in [Shops -> [Read -> Nat]] /\ forgot \in [Shops -> [Read -> Nat]]

(* Two runs pay for one shop at a time only if the lease of one ran out, and *)
(* that one no longer counts: whoever reads on holds the claim.              *)
PaidAlone ==
  \A p \in Processes : At(p, "read") => Owns(p) \/ proc[p].lapsed

(* A leaflet that cannot be read is paid for once by each process, and once  *)
(* more by each whenever an outage or another leaflet made it be forgotten.  *)
FailedOnce ==
  \A s \in Shops, v \in Read : wasted[s][v] <= Cardinality(Processes) * (1 + forgot[s][v])

(* A week whose shops are all staged is published, with a receipt that shows *)
(* what is offered, unless a shop meanwhile shows a leaflet nobody can read. *)
Illegible == \E s \in Shops \ Free : source[s] \in Unreadable \cup Malformed
StagedIsPublished == Ready ~> ((Complete /\ receipt = active) \/ Illegible)
=============================================================================
