------------------------------- MODULE Costs -------------------------------
(* The AI cost ledger (naklady.py): what a collector may spend. Every paid   *)
(* call is checked before it is made and charged after it answered; collectors*)
(* are separate processes on one SQLite file and may be killed at any step.  *)
EXTENDS Integers, FiniteSets

CONSTANTS
  Collectors,   \* processes that read leaflets: the watchdog's, a deployment's
  CapDay,       \* the cap of the period
  CapLast,      \* the cap of the last run the week allows (migration)
  Estimate,     \* ODHAD_EUR: what a call is expected to cost
  Price,        \* bound: what one request of a call really costs at most
  Retries,      \* max_retries: requests of a call after the first
  StartReserve, \* MIN_START_BUDGET_PER_STORE_EUR
  RunLimit,     \* limit_behov: runs in a week
  Backlog,      \* euros reserved by plan jobs an older release left queued
  LastWeek,     \* bound: weeks
  LastHour,     \* bound: cooldowns of CREDIT_RETRY_SECONDS
  MaxKills,     \* bound: processes killed
  MaxPaid,      \* bound: answered calls of one run
  MaxStamps,    \* bound: stamps of the credit row
  NoRow

ASSUME CostsAssumption ==
  /\ IsFiniteSet(Collectors)
  /\ {CapDay, CapLast, Price, Retries, StartReserve, Backlog, LastWeek, LastHour, MaxKills, MaxPaid, MaxStamps} \subseteq Nat
  /\ CapDay <= CapLast /\ RunLimit \in Nat \ {0} /\ NoRow \notin Int
  /\ Estimate \in Nat \ {0} /\ Estimate <= Price /\ Estimate <= CapDay

VARIABLES
  week,       \* this week (the ledger's day and month behave alike)
  hour,       \* time in cooldowns
  booked,     \* table naklady: the sum of this week
  refusedRows,\* rows of this week charged for a request the provider refused
  billed,     \* what the provider billed this week
  silent,     \* history: requests of this week that brought no answer
  creditRow,  \* naklady_kredit: the stamp of the newest row and its hour
  stamps,     \* stamps written: no two are alike
  runCount,   \* naklady_behy
  collector,  \* the processes
  backlog,   \* active_reservations_eur
  kills

costsVars == <<week, hour, booked, refusedRows, billed, silent, creditRow, stamps, runCount, collector, backlog, kills>>

Weeks == 0..LastWeek
Hours == 0..LastHour
Run   == [at : {"count", "reserve", "check", "probe", "sent"}, week : Weeks, spent : BOOLEAN,
          stamp : 0..MaxStamps, probes : BOOLEAN, paid : 0..MaxPaid]

(* je_posledny_migracny_dobeh: the last run of the week may go above the     *)
(* usual cap.                                                                *)
DayCap == IF RunLimit >= 3 /\ runCount[week] >= RunLimit - 1 THEN CapLast ELSE CapDay

\* Mutant of Affordable: what the call itself will cost is not counted in.
AffordableBefore(sum) == booked + backlog <= DayCap

(* skontroluj: what is booked, reserved and about to be spent fits the cap.  *)
Affordable(sum) == booked + backlog + sum <= DayCap

(* A release just deployed may probe at once (UVARSI_DEPLOY_CREDIT_PROBE).   *)
Cooled(deployed) == IF creditRow = NoRow THEN TRUE ELSE deployed \/ hour > creditRow.hour

\* Mutant of GivenBack: a place goes back whatever the counter says.
GivenBackBelow(p) == [runCount EXCEPT ![week] = @ - 1]

(* uvolni_beh: the place goes back to the counter of the current week, if    *)
(* the ledger has no row of the purpose since the run began.                 *)
GivenBack(p) ==
  IF collector[p].spent THEN runCount
  ELSE [runCount EXCEPT ![week] = IF @ > 0 THEN @ - 1 ELSE 0]

Ends(p)     == collector' = [collector EXCEPT ![p] = NoRow]
MovesTo(p, to) == collector' = [collector EXCEPT ![p].at = to]

(* The provider bills an answer, and what it likes, up to a price, for each  *)
(* request that brought none: it timed out, failed, or its process died.     *)
Bills(cost, unanswered) ==
  /\ silent' = silent + unanswered
  /\ \E unheard \in 0..(unanswered * Price) : billed' = billed + cost + unheard

(* zapis: a row of the ledger; every run in progress sees it.                *)
Charges(p, sum, to) ==
  /\ booked' = booked + sum
  /\ collector' = [q \in Collectors |->
       IF collector[q] = NoRow THEN NoRow
       ELSE [collector[q] EXCEPT !.spent = TRUE,
                                 !.at = IF q = p THEN to ELSE @,
                                 !.paid = IF q = p THEN @ + 1 ELSE @]]

----------------------------------------------------------------------------
(* A run                                                                     *)

(* main: no download in a known cooldown, then a starting reserve.           *)
BeginRun(p) ==
  /\ collector[p] = NoRow /\ Cooled(FALSE) /\ Affordable(StartReserve)
  /\ collector' = [collector EXCEPT ![p] = [at |-> "count", week |-> week, spent |-> FALSE,
                                            stamp |-> 0, probes |-> FALSE, paid |-> 0]]
  /\ UNCHANGED <<week, hour, booked, refusedRows, billed, silent, creditRow, stamps, runCount, backlog, kills>>

(* rezervuj_beh reads the counter outside the transaction of the insert.     *)
SeeCount(p) ==
  /\ collector[p] # NoRow /\ collector[p].at = "count"
  /\ IF runCount[week] >= RunLimit
     THEN Ends(p)
     ELSE collector' = [collector EXCEPT ![p].at = "reserve", ![p].week = week]
  /\ UNCHANGED <<week, hour, booked, refusedRows, billed, silent, creditRow, stamps, runCount, backlog, kills>>
ReserveRun(p) ==
  /\ collector[p] # NoRow /\ collector[p].at = "reserve"
  /\ runCount' = [w \in Weeks |-> IF w < collector[p].week THEN 0
                                  ELSE IF w = collector[p].week THEN runCount[w] + 1 ELSE runCount[w]]
  /\ MovesTo(p, "check")
  /\ UNCHANGED <<week, hour, booked, refusedRows, billed, silent, creditRow, stamps, backlog, kills>>

(* s_rozpoctom, before the call.                                             *)
CheckBudget(p) ==
  /\ collector[p] # NoRow /\ collector[p].at = "check" /\ collector[p].paid < MaxPaid
  /\ \E deployed \in BOOLEAN :
       IF Affordable(Estimate) /\ Cooled(deployed)
       THEN /\ collector' = [collector EXCEPT ![p].at = IF creditRow = NoRow THEN "sent" ELSE "probe",
                                              ![p].stamp = IF creditRow = NoRow THEN 0 ELSE creditRow.stamp,
                                              ![p].probes = FALSE]
            /\ UNCHANGED runCount
       ELSE Ends(p) /\ runCount' = GivenBack(p)
  /\ UNCHANGED <<week, hour, booked, refusedRows, billed, silent, creditRow, stamps, backlog, kills>>

Stamps == /\ stamps < MaxStamps /\ stamps' = stamps + 1
          /\ creditRow' = [hour |-> hour, stamp |-> stamps + 1]

(* _over_kreditovy_cooldown: the row is exchanged only if it is still the    *)
(* one that was read.                                                        *)
Exchanged(p) == creditRow # NoRow /\ creditRow.stamp = collector[p].stamp
Probe(p) ==
  /\ collector[p] # NoRow /\ collector[p].at = "probe"
  /\ IF Exchanged(p)
     THEN /\ Stamps
          /\ collector' = [collector EXCEPT ![p].at = "sent", ![p].probes = TRUE]
          /\ UNCHANGED runCount
     ELSE /\ Ends(p) /\ runCount' = GivenBack(p)
          /\ UNCHANGED <<creditRow, stamps>>
  /\ UNCHANGED <<week, hour, booked, refusedRows, billed, silent, backlog, kills>>

Sent(p) == collector[p] # NoRow /\ collector[p].at = "sent"

(* The answer names what it used, not what the requests before it did; the   *)
(* credit row is deleted.                                                    *)
Answered(p) ==
  /\ Sent(p)
  /\ \E cost \in 1..Price, earlier \in 0..Retries : Charges(p, cost, "check") /\ Bills(cost, earlier)
  /\ creditRow' = NoRow
  /\ UNCHANGED <<week, hour, refusedRows, stamps, runCount, backlog, kills>>

(* A failed call is charged its estimate, whatever its requests cost.        *)
CallFailed(p) ==
  /\ Sent(p)
  /\ Charges(p, Estimate, "check")
  /\ \E dispatched \in 1..(Retries + 1) : Bills(0, dispatched)
  /\ UNCHANGED <<week, hour, refusedRows, creditRow, stamps, runCount, backlog, kills>>
CallRefused(p) ==
  /\ Sent(p)
  /\ Charges(p, Estimate, "check")
  /\ \E earlier \in 0..Retries : Bills(0, earlier)
  /\ refusedRows' = refusedRows + 1
  /\ UNCHANGED <<week, hour, creditRow, stamps, runCount, backlog, kills>>

(* No credit: nothing is charged, the row is stamped, the place goes back.   *)
CreditGone(p) ==
  /\ Sent(p)
  /\ Stamps
  /\ \E earlier \in 0..Retries : Bills(0, earlier)
  /\ Ends(p) /\ runCount' = GivenBack(p)
  /\ UNCHANGED <<week, hour, booked, refusedRows, backlog, kills>>

RunDone(p) ==
  /\ collector[p] # NoRow /\ collector[p].at = "check" /\ Ends(p)
  /\ UNCHANGED <<week, hour, booked, refusedRows, billed, silent, creditRow, stamps, runCount, backlog, kills>>

(* The bounded wrapper kills a collector: a call in flight may be billed and *)
(* is never charged, a place of the week stays taken.                        *)
Killed(p) ==
  /\ collector[p] # NoRow /\ kills < MaxKills
  /\ kills' = kills + 1 /\ Ends(p)
  /\ \E dispatched \in IF Sent(p) THEN 0..(Retries + 1) ELSE {0} : Bills(0, dispatched)
  /\ UNCHANGED <<week, hour, booked, refusedRows, creditRow, stamps, runCount, backlog>>

----------------------------------------------------------------------------
(* Around the runs                                                           *)

(* oprav_kredit: the owner reverses what was charged for refused requests;   *)
(* the counter starts again if nothing of the week is left.                  *)
RepairLedger ==
  /\ refusedRows > 0
  /\ booked' = booked - refusedRows * Estimate
  /\ refusedRows' = 0
  /\ runCount' = IF booked' <= 0 THEN [runCount EXCEPT ![week] = 0] ELSE runCount
  /\ collector' = [q \in Collectors |-> IF collector[q] = NoRow THEN NoRow ELSE [collector[q] EXCEPT !.spent = TRUE]]
  /\ UNCHANGED <<week, hour, billed, silent, creditRow, stamps, backlog, kills>>

(* The plan worker finishes a job of the retired engine.                     *)
JobFinished ==
  /\ backlog > 0 /\ backlog' = backlog - 1
  /\ UNCHANGED <<week, hour, booked, refusedRows, billed, silent, creditRow, stamps, runCount, collector, kills>>

HourPasses ==
  /\ hour < LastHour /\ hour' = hour + 1
  /\ UNCHANGED <<week, booked, refusedRows, billed, silent, creditRow, stamps, runCount, collector, backlog, kills>>
NextWeek ==
  /\ week < LastWeek /\ week' = week + 1
  /\ booked' = 0 /\ refusedRows' = 0 /\ billed' = 0 /\ silent' = 0
  /\ UNCHANGED <<hour, creditRow, stamps, runCount, collector, backlog, kills>>

CostsInit ==
  /\ week = 0 /\ hour = 0 /\ booked = 0 /\ refusedRows = 0 /\ billed = 0 /\ silent = 0
  /\ creditRow = NoRow /\ stamps = 0 /\ runCount = [w \in Weeks |-> 0]
  /\ collector = [p \in Collectors |-> NoRow] /\ backlog = Backlog /\ kills = 0

CostsNext ==
  \/ \E p \in Collectors :
       \/ BeginRun(p) \/ SeeCount(p) \/ ReserveRun(p) \/ CheckBudget(p) \/ Probe(p)
       \/ Answered(p) \/ CallFailed(p) \/ CallRefused(p) \/ CreditGone(p) \/ RunDone(p) \/ Killed(p)
  \/ RepairLedger \/ JobFinished \/ HourPasses \/ NextWeek

CostsSpec == CostsInit /\ [][CostsNext]_costsVars

----------------------------------------------------------------------------
(* Types; a repair takes back no more than was charged.                      *)
CostsTypeOK ==
  /\ week \in Weeks /\ hour \in Hours /\ booked \in Nat /\ refusedRows \in Nat
  /\ billed \in Nat /\ silent \in Nat /\ kills \in 0..MaxKills
  /\ creditRow \in [hour : Hours, stamp : 1..MaxStamps] \cup {NoRow} /\ stamps \in 0..MaxStamps
  /\ runCount \in [Weeks -> Nat]
  /\ collector \in [Collectors -> Run \cup {NoRow}] /\ backlog \in 0..Backlog

(* Whatever the collectors do at the same time, and whenever they are        *)
(* killed, what the provider bills in a period stays under the cap but for   *)
(* one call of each process, and one price for each request that never       *)
(* brought an answer: of those the ledger has an estimate at most.           *)
BudgetHeld == billed <= CapLast - Estimate + (Cardinality(Collectors) + silent) * Price

=============================================================================
