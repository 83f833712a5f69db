--------------------------- MODULE LifecycleProbe ---------------------------
(* The lifecycle probe: before payments are launched a daily subscription is *)
(* taken through its whole life at the provider in test mode, and its signed *)
(* webhooks are collected into a run (subscription_lifecycle_probe.py) by a  *)
(* command the owner repeats (payment-lifecycle-probe.py). Webhooks come in  *)
(* any order and more than once, and some facts are accepted only after      *)
(* others: what comes too early has to wait in the queue.                    *)
EXTENDS Integers, Sequences, FiniteSets

CONSTANTS
  Histories,    \* the lives a subscription may have at the provider
  MaxWaiting,   \* bound: webhooks under way and in the queue at once
  MaxTwice,     \* bound: webhooks sent again
  MaxStops      \* bound: runs of the command that are killed or refused by the API

VARIABLES
  history, happened,   \* the life, and how much of it has happened
  sent,                \* webhooks under way, by their place in the life
  queue,               \* rows of platobne_odlozene not yet processed, the oldest first
  run,                 \* row of subscription_lifecycle_probe_runs
  recorded,            \* rows of subscription_lifecycle_probe_events
  command, seen,       \* the command: where it is, and how many rows it has passed
  twice, stops

provider  == <<history, happened, sent, twice>>
store     == <<queue, run, recorded>>
probeVars == <<provider, store, command, seen, stops>>

Future == {"failed", "recovered", "cancelled", "resumed", "expired", "refunded"}
Kinds  == Future \cup {"created", "initial", "renewal"}
Places == 1..Len(history)
Of(kind) == {n \in recorded : history[n] = kind}

ASSUME LifecycleProbeAssumption ==
  Histories \subseteq Seq(Kinds) /\ {MaxWaiting, MaxTwice, MaxStops} \subseteq Nat

Latest(kind) == CHOOSE n \in Of(kind) : \A m \in Of(kind) : m <= n
First(kind)  == CHOOSE n \in Of(kind) : \A m \in Of(kind) : n <= m

----------------------------------------------------------------------------
\* Mutant of Deferred: later facts wait for a run that is ready.
DeferredUntilReady(n) ==
  LET kind == history[n] IN
  \/ kind = "initial" /\ Of("created") = {}
  \/ kind = "renewal" /\ Of("initial") = {}
  \/ kind \in Future  /\ run.state # "ready"

(* What comes too early is deferred: ProbeEventDeferred.                     *)
Deferred(n) ==
  LET kind == history[n] IN
  \/ kind = "initial"   /\ Of("created") = {}
  \/ kind = "renewal"   /\ Of("initial") = {}
  \/ kind \in Future    /\ ~run.verified
  \/ kind = "recovered" /\ Of("failed") = {}
  \/ kind \in {"resumed", "expired"} /\ Of("cancelled") = {}
  \/ /\ kind = "expired" /\ Of("resumed") # {}
     /\ Latest("cancelled") <= Latest("resumed")

(* _safe_status: everything is there, in the order of the provider's times.  *)
AllProven ==
  /\ run.verified /\ \A kind \in Kinds : Of(kind) # {}
  /\ First("created") < First("initial") /\ First("initial") < First("renewal")
  /\ First("failed") < First("recovered") /\ First("initial") < First("refunded")
  /\ \E n \in Of("cancelled") : n < First("resumed")
  /\ \E n \in Of("cancelled") : First("resumed") < n /\ n < First("expired")

Without(q, k) == SubSeq(q, 1, k - 1) \o SubSeq(q, k + 1, Len(q))

(* ingest_signed_probe_event and what becomes of the queued body: a fact and *)
(* its repetition are taken, a fact of no run is refused, both are erased.   *)
Handles ==
  LET n == queue[seen + 1] IN
  IF run.state # "none" /\ Deferred(n) THEN seen' = seen + 1 /\ UNCHANGED <<queue, recorded>>
  ELSE /\ queue' = Without(queue, seen + 1) /\ UNCHANGED seen
       /\ recorded' = IF run.state = "none" THEN recorded ELSE recorded \cup {n}

(* process_queued_probe_events: row by row, and a complete run is promoted   *)
(* at the end.                                                               *)
Pass(next) ==
  IF seen < Len(queue) THEN Handles /\ UNCHANGED <<run, command>>
  ELSE /\ command' = next /\ seen' = 0 /\ UNCHANGED <<queue, recorded>>
       /\ run' = IF run.state = "collecting" /\ AllProven THEN [run EXCEPT !.state = "ready"] ELSE run

(* prepare_probe: one run of a configuration, its daily price looked up.     *)
Prepares ==
  /\ run.state = "none" /\ happened = 0
  /\ run' = [state |-> "collecting", verified |-> FALSE]
  /\ UNCHANGED <<provider, queue, recorded, command, seen, stops>>

(* process_probe: the queue, the renewal at the provider, the queue again.   *)
Stop == stops < MaxStops /\ stops' = stops + 1
CommandStarts ==
  /\ command = "idle" /\ run.state \in {"collecting", "ready"} /\ command' = "first" /\ seen' = 0
  /\ UNCHANGED <<provider, store, stops>>
FirstPass  == command = "first"  /\ Pass("ask")  /\ UNCHANGED <<provider, stops>>
SecondPass == command = "second" /\ Pass("idle") /\ UNCHANGED <<provider, stops>>

(* record_genuine_daily_renewal_by_digest: while the subscription is alive.  *)
Asks ==
  LET alive == \A n \in 1..happened : history[n] # "expired" IN
  /\ command = "ask" /\ command' = "second"
  /\ run' = IF Of("renewal") # {} /\ alive THEN [run EXCEPT !.verified = TRUE] ELSE run
  /\ UNCHANGED <<provider, queue, recorded, seen, stops>>
CommandStops ==
  /\ command # "idle" /\ Stop /\ command' = "idle" /\ seen' = 0
  /\ UNCHANGED <<provider, store>>

(* cleanup_probe: a run whose proof is signed is deleted with its facts.     *)
Cleans ==
  /\ command = "idle" /\ run.state # "none" /\ AllProven
  /\ run' = [state |-> "none", verified |-> TRUE] /\ recorded' = {}
  /\ UNCHANGED <<provider, queue, command, seen, stops>>

----------------------------------------------------------------------------
Happens ==
  /\ run.state # "none" /\ happened < Len(history)
  /\ Cardinality(sent) + Len(queue) < MaxWaiting
  /\ happened' = happened + 1 /\ sent' = sent \cup {happened'}
  /\ UNCHANGED <<history, twice, store, command, seen, stops>>
Arrives(n) ==
  /\ n \in sent /\ queue' = Append(queue, n)
  /\ \/ sent' = sent \ {n} /\ UNCHANGED twice
     \/ twice < MaxTwice /\ twice' = twice + 1 /\ UNCHANGED sent
  /\ UNCHANGED <<history, happened, run, recorded, command, seen, stops>>

ProbeInit ==
  /\ history \in Histories /\ happened = 0 /\ sent = {} /\ queue = <<>>
  /\ run = [state |-> "none", verified |-> FALSE] /\ recorded = {}
  /\ command = "idle" /\ seen = 0 /\ twice = 0 /\ stops = 0
Commands == CommandStarts \/ FirstPass \/ Asks \/ SecondPass
Provides == Happens \/ \E n \in sent : Arrives(n)
ProbeNext == Prepares \/ Commands \/ CommandStops \/ Cleans \/ Provides

(* The owner repeats the command, the provider lives on and sends.           *)
ProbeSpec ==
  ProbeInit /\ [][ProbeNext]_probeVars /\ WF_probeVars(Commands) /\ WF_probeVars(Provides)

----------------------------------------------------------------------------
ProbeTypeOK ==
  /\ history \in Histories /\ happened \in 0..Len(history) /\ sent \subseteq Places
  /\ queue \in Seq(Places) /\ seen \in 0..Len(queue) /\ recorded \subseteq Places
  /\ run \in [state : {"none", "collecting", "ready"}, verified : BOOLEAN]
  /\ command \in {"idle", "first", "ask", "second"} /\ twice \in 0..MaxTwice /\ stops \in 0..MaxStops

(* Whatever the order of its webhooks, and however often one is sent again   *)
(* or the command is stopped, a whole life whose renewal was seen while the  *)
(* subscription was alive makes the run ready.                               *)
WholeLife == /\ \A kind \in Kinds : \E n \in Places : history[n] = kind
             /\ Cardinality({n \in Places : history[n] = "cancelled"}) = 2
ProvenInTheEnd == (run.verified /\ WholeLife) ~> (run.state \in {"ready", "none"})
=============================================================================
