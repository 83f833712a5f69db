------------------------- MODULE EntitlementsProofs -------------------------
(* Theorems about Entitlements, for every set of orders, users and deals,    *)
(* every capacity and every bound.                                           *)
EXTENDS Entitlements, FiniteSetTheorems, TLAPS

(* An entitlement ends: its row and its holder's flag change.                *)
Ends(e, state) ==
  /\ e \in Active
  /\ state \in {"vrateny", "zruseny"}
  /\ rows' = [rows EXCEPT ![e] = state]
  /\ paying' = Leaves(e)
  /\ pending' = pending

(* What a step may do to the tables.                                         *)
Still == UNCHANGED <<rows, paying, pending>>
Grants == \E b \in Bodies :
            b.kind = "created" /\ Grant(b, Outcome(b))
Refunds == \E e \in PaidPlaces : Ends(e, "vrateny")
Tests == \E u \in Users : GrantManually(u)
Withdraws == \E u \in Users : rows[u] = "aktivny" /\ Ends(u, "zruseny")
Expires == rows' = rows /\ paying' = paying /\ pending' \subseteq pending

(* An attempt that bought a row is used up.                                  *)
UsedUp == deal.audited => \A o \in Orders : Held(o) => deal.attempt[o] \notin pending

(* No more threads put a body aside than there are.                          *)
ThreadsHeld == IsFiniteSet(storing) /\ Cardinality(storing) <= MaxThreads

IInv ==
  /\ TypeOK /\ ThreadsHeld /\ QueueHeld
  /\ CapacityHeld /\ OneEntitlement /\ FlagMatches /\ AttemptBuysOnce /\ UsedUp

-----------------------------------------------------------------------------
(* Types                                                                     *)

(* Deals have the types their fields say.                                    *)
LEMMA DealType == ASSUME TypeOK PROVE deal \in Deal
  BY EntitlementsAssumption DEF TypeOK

(* An entry has a holder who is a user.                                      *)
LEMMA HolderType == ASSUME TypeOK, NEW e \in Entries PROVE Holder(e) \in Users
  BY DealType DEF Holder, Deal, Entries

(* Keys and hashes of bodies are marks.                                      *)
LEMMA MarkType == ASSUME NEW b \in Bodies PROVE Key(b) \in Marks /\ Hash(b) \in Marks
  BY DEF Bodies, Key, Hash, Marks, EventTypes

(* The cases an event asks for are cases.                                    *)
LEMMA CasesType ==
  ASSUME NEW o \in Orders
  PROVE  /\ \A x : CasesOf(x, o) \subseteq Cases
         /\ Unusable(o) \subseteq Cases /\ Unknown(o) \subseteq Cases
  BY DEF CasesOf, Unusable, Unknown, Cases, CaseKinds

(* A body of an order is a body.                                             *)
LEMMA BodyType == ASSUME NEW o \in Orders, NEW k \in {"created", "partial", "full"}
                  PROVE Body(k, o) \in Bodies /\ Body(k, o).order = o /\ Body(k, o).kind = k
  BY DEF Body, Bodies

(* Only the creation of an order grants, only its full refund returns.       *)
LEMMA OutcomeKinds ==
  ASSUME NEW b \in Bodies
  PROVE  /\ Outcome(b) \in DOMAIN NewState => b.kind = "created"
         /\ Outcome(b) = "returned" => b.kind = "full" /\ Takeable(b.order) # {}
         /\ Outcome(b) \in {"already", "held", "unusable", "duplicate", "over", "granted",
                            "ignored", "returned"}
  BY DEF Outcome, NewState, Bodies

(* A refund takes what is paid for and running.                              *)
LEMMA TakeableType == ASSUME NEW o \in Orders PROVE Takeable(o) \subseteq PaidPlaces
  BY DEF Takeable, PaidPlaces, Active, Entries

(* One event grants, ends a paid entitlement or changes nothing.             *)
LEMMA ProcessKinds ==
  ASSUME NEW b \in Bodies, NEW marks, Process(b, marks)
  PROVE  Still \/ Grants \/ Refunds
  <1> DEFINE x == Outcome(b)
  <1>1. CASE Grant(b, x)
    BY <1>1, OutcomeKinds DEF Grant, Grants
  <1>2. CASE Return(b, x)
    <2>1. PICK e \in Takeable(b.order) :
             rows' = [rows EXCEPT ![e] = "vrateny"] /\ paying' = Leaves(e)
      BY <1>2 DEF Return
    <2>2. e \in PaidPlaces /\ e \in Active
      BY <2>1, TakeableType DEF Bodies, PaidPlaces
    <2>3. pending' = pending
      BY <1>2 DEF Return
    <2> QED BY <2>1, <2>2, <2>3 DEF Refunds, Ends
  <1>3. CASE Nothing(x)
    BY <1>3 DEF Nothing, Still
  <1> QED BY <1>1, <1>2, <1>3 DEF Process

(* Every step is one of these.                                               *)
LEMMA StepKinds ==
  ASSUME TypeOK, [Next]_vars
  PROVE  /\ deal' = deal
         /\ Still \/ Grants \/ Refunds \/ Tests \/ Withdraws \/ Expires
  <1>1. ASSUME NEW o \in Orders, Pay(o) \/ RefundPart(o) \/ Refund(o)
        PROVE deal' = deal /\ Still
    BY <1>1 DEF Pay, RefundPart, Refund, ProviderOnly, domain, Still
  <1>2. ASSUME NEW o \in Orders, Expire(o) PROVE deal' = deal /\ Expires
    BY <1>2 DEF Expire, Expires
  <1>3. ASSUME NEW b \in Bodies, Receive(b)
        PROVE deal' = deal /\ (Still \/ Grants \/ Refunds)
    BY <1>3, ProcessKinds DEF Receive
  <1>4. ASSUME NEW b \in Bodies, Defer(b) PROVE deal' = deal /\ Still
    BY <1>4 DEF Defer, domain, Still
  <1>5. ASSUME NEW c, FollowUp(c) \/ Report(c) PROVE deal' = deal /\ Still
    BY <1>5 DEF FollowUp, Report, domain, Still
  <1>13. ASSUME NEW t \in storing, Count(t) \/ Insert(t) PROVE deal' = deal /\ Still
    BY <1>13 DEF Count, Insert, domain, Still
  <1>14. Left \subseteq Orders
    BY DEF Left
  <1>6. CASE Start \/ Fetch \/ Finish
    BY <1>6 DEF Start, Fetch, Finish, domain, Still
  <1>7. CASE Replay
    <2>1. Head(job.bodies) \in Bodies
      <3>1. job.bodies \in Seq(Bodies) /\ job.bodies # <<>>
        BY <1>7 DEF TypeOK, Job, Replay
      <3> QED BY <3>1
    <2>2. deal' = deal
      BY <1>7 DEF Replay
    <2>3. \E marks : Process(Head(job.bodies), marks)
      BY <1>7 DEF Replay
    <2> QED BY <2>1, <2>2, <2>3, ProcessKinds
  <1>8. ASSUME NEW o \in Orders, Apply(o)
        PROVE deal' = deal /\ (Still \/ Grants \/ Refunds)
    <2>1. deal' = deal
      BY <1>8 DEF Apply
    <2>2. CASE ApplyPaid(o)
      BY <2>1, <2>2, BodyType, ProcessKinds DEF ApplyPaid
    <2>3. CASE ApplyUnusable(o) \/ ApplyUnknown(o)
      BY <2>1, <2>3 DEF ApplyUnusable, ApplyUnknown, domain, Still
    <2>4. CASE ApplyRefund(o)
      <3>1. CASE rows[o] = "aktivny" /\ ~OnRecord(Key(Body("full", o)))
        <4>1. o \in PaidPlaces /\ o \in Active
          BY <3>1 DEF PaidPlaces, Active, Entries
        <4> QED BY <2>1, <2>4, <3>1, <4>1 DEF ApplyRefund, Refunds, Ends
      <3>2. CASE ~(rows[o] = "aktivny" /\ ~OnRecord(Key(Body("full", o))))
        BY <2>1, <2>4, <3>2 DEF ApplyRefund, domain, Still
      <3> QED BY <3>1, <3>2
    <2> QED BY <1>8, <2>2, <2>3, <2>4 DEF Apply
  <1>9. ASSUME NEW u \in Users, GrantManually(u) PROVE deal' = deal /\ Tests
    BY <1>9 DEF GrantManually, Tests
  <1>10. ASSUME NEW u \in Users, WithdrawManually(u) PROVE deal' = deal /\ Withdraws
    <2>1. rows[u] = "aktivny" /\ u \in Active
      BY <1>10 DEF WithdrawManually, Active, Entries
    <2> QED BY <1>10, <2>1 DEF WithdrawManually, Withdraws, Ends
  <1>11. CASE Age \/ Crash \/ Abandon \/ Switch
    BY <1>11 DEF Age, Crash, Abandon, Switch, domain, Still
  <1>12. CASE UNCHANGED vars
    BY <1>12 DEF vars, domain, Still
  <1> QED
    BY <1>1, <1>2, <1>3, <1>4, <1>5, <1>6, <1>7, <1>8, <1>9, <1>10, <1>11, <1>12, <1>13, <1>14
    DEF Next, JobStep, RouteStep

-----------------------------------------------------------------------------
(* Rows                                                                      *)

(* What an order has to satisfy before it gets a row.                        *)
LEMMA GrantNeeds ==
  ASSUME NEW b \in Bodies, Grant(b, Outcome(b))
  PROVE  /\ b.order \in Orders /\ ~Held(b.order) /\ Attested(b.order)
         /\ Outcome(b) = "granted" => ~HasEntitlement(Holder(b.order)) /\ ~SoldOut
         /\ rows' = [rows EXCEPT ![b.order] =
                       IF Outcome(b) = "granted" THEN "aktivny"
                       ELSE IF Outcome(b) = "over" THEN "nad_kapacitu" ELSE "duplicitny"]
         /\ paying' = IF Outcome(b) = "granted" THEN paying \cup {Holder(b.order)} ELSE paying
  <1>1. b.order \in Orders
    BY DEF Bodies
  <1>2. Outcome(b) \in {"granted", "over", "duplicate"}
    BY DEF Grant, NewState
  <1>3. /\ ~Held(b.order) /\ Attested(b.order)
        /\ Outcome(b) = "granted" => ~HasEntitlement(Holder(b.order)) /\ ~SoldOut
    BY <1>2 DEF Outcome, Bodies
  <1>4. rows' = [rows EXCEPT ![b.order] = NewState[Outcome(b)]]
    BY DEF Grant
  <1>5. NewState[Outcome(b)] = IF Outcome(b) = "granted" THEN "aktivny"
                               ELSE IF Outcome(b) = "over" THEN "nad_kapacitu" ELSE "duplicitny"
    BY <1>2 DEF NewState
  <1> QED BY <1>1, <1>3, <1>4, <1>5 DEF Grant

(* Holders do not change.                                                    *)
LEMMA HolderRigid == ASSUME deal' = deal, NEW e PROVE Holder(e)' = Holder(e)
  BY DEF Holder

(* The entries that run after a grant, an end, and a manual grant.           *)
LEMMA ActiveAfter ==
  ASSUME TypeOK
  PROVE  /\ \A e, state : Ends(e, state) => Active' = Active \ {e}
         /\ \A u \in Users : GrantManually(u) => Active' = Active \cup {u} /\ u \notin Active
         /\ \A b \in Bodies : Grant(b, Outcome(b)) =>
              /\ b.order \notin Active
              /\ Active' = IF Outcome(b) = "granted" THEN Active \cup {b.order} ELSE Active
  <1> USE DEF TypeOK
  <1>1. ASSUME NEW e, NEW state, Ends(e, state) PROVE Active' = Active \ {e}
    BY <1>1 DEF Ends, Active
  <1>2. ASSUME NEW u \in Users, GrantManually(u)
        PROVE  Active' = Active \cup {u} /\ u \notin Active
    <2>1. u \in Entries /\ Holder(u) = u
      BY DEF Entries, Holder
    <2>2. u \notin Active
      BY <1>2, <2>1 DEF GrantManually, HasEntitlement
    <2>3. rows' = [rows EXCEPT ![u] = "aktivny"]
      BY <1>2 DEF GrantManually
    <2> QED BY <2>1, <2>2, <2>3 DEF Active
  <1>3. ASSUME NEW b \in Bodies, Grant(b, Outcome(b))
        PROVE  /\ b.order \notin Active
               /\ Active' = IF Outcome(b) = "granted" THEN Active \cup {b.order} ELSE Active
    <2>1. b.order \in Entries
      BY <1>3, GrantNeeds DEF Entries
    <2>2. rows[b.order] = "none"
      BY <1>3, GrantNeeds DEF Held
    <2>3. CASE Outcome(b) = "granted"
      BY <1>3, <2>1, <2>2, <2>3, GrantNeeds DEF Active
    <2>4. CASE Outcome(b) # "granted"
      BY <1>3, <2>1, <2>2, <2>4, GrantNeeds DEF Active
    <2> QED BY <2>3, <2>4, <2>2 DEF Active
  <1> QED BY <1>1, <1>2, <1>3

(* One running entitlement per user is kept.                                 *)
LEMMA OneStep ==
  ASSUME TypeOK, OneEntitlement, [Next]_vars
  PROVE  OneEntitlement'
  <1>1. deal' = deal /\ (Still \/ Grants \/ Refunds \/ Tests \/ Withdraws \/ Expires)
    BY StepKinds
  <1>2. \A e : Holder(e)' = Holder(e)
    BY <1>1, HolderRigid
  <1>3. CASE Active' \subseteq Active
    BY <1>2, <1>3 DEF OneEntitlement
  <1>4. CASE Still \/ Expires
    BY <1>3, <1>4 DEF Still, Expires, Active
  <1>5. CASE Refunds \/ Withdraws
    BY <1>3, <1>5, ActiveAfter DEF Refunds, Withdraws
  <1>6. CASE Grants
    <2>1. PICK b \in Bodies : Grant(b, Outcome(b))
      BY <1>6 DEF Grants
    <2>2. CASE Outcome(b) = "granted"
      <3>1. Active' = Active \cup {b.order} /\ ~HasEntitlement(Holder(b.order))
        BY <2>1, <2>2, ActiveAfter, GrantNeeds
      <3> QED BY <1>2, <3>1 DEF OneEntitlement, HasEntitlement
    <2>3. CASE Outcome(b) # "granted"
      BY <1>3, <2>1, <2>3, ActiveAfter
    <2> QED BY <2>2, <2>3
  <1>7. CASE Tests
    <2>1. PICK u \in Users : GrantManually(u)
      BY <1>7 DEF Tests
    <2>2. Active' = Active \cup {u} /\ ~HasEntitlement(u) /\ Holder(u) = u
      BY <2>1, ActiveAfter DEF GrantManually, Holder
    <2> QED BY <1>2, <2>2 DEF OneEntitlement, HasEntitlement
  <1> QED BY <1>1, <1>4, <1>5, <1>6, <1>7

(* The flag follows the entitlements.                                        *)
LEMMA FlagStep ==
  ASSUME TypeOK, OneEntitlement, FlagMatches, [Next]_vars
  PROVE  FlagMatches'
  <1>1. deal' = deal /\ (Still \/ Grants \/ Refunds \/ Tests \/ Withdraws \/ Expires)
    BY StepKinds
  <1>2. \A e : Holder(e)' = Holder(e)
    BY <1>1, HolderRigid
  <1>3. CASE Still \/ Expires
    BY <1>2, <1>3 DEF Still, Expires, Active, FlagMatches
  <1>4. ASSUME NEW e, NEW state, Ends(e, state) PROVE FlagMatches'
    <2>1. Active' = Active \ {e} /\ e \in Active
      BY <1>4, ActiveAfter DEF Ends
    <2>2. paying' = paying \ {Holder(e)}
      BY <1>4, <2>1 DEF Ends, Leaves, OneEntitlement
    <2>3. paying' = {Holder(d) : d \in Active \ {e}}
      BY <2>1, <2>2 DEF FlagMatches, OneEntitlement
    <2> QED BY <1>2, <2>1, <2>3 DEF FlagMatches
  <1>5. CASE Refunds \/ Withdraws
    BY <1>4, <1>5 DEF Refunds, Withdraws
  <1>6. CASE Grants
    <2>1. PICK b \in Bodies : Grant(b, Outcome(b))
      BY <1>6 DEF Grants
    <2>2. CASE Outcome(b) = "granted"
      <3>1. Active' = Active \cup {b.order} /\ paying' = paying \cup {Holder(b.order)}
        BY <2>1, <2>2, ActiveAfter, GrantNeeds
      <3> QED BY <1>2, <3>1 DEF FlagMatches
    <2>3. CASE Outcome(b) # "granted"
      <3>1. Active' = Active /\ paying' = paying
        BY <2>1, <2>3, ActiveAfter, GrantNeeds
      <3> QED BY <1>2, <3>1 DEF FlagMatches
    <2> QED BY <2>2, <2>3
  <1>7. CASE Tests
    <2>1. PICK u \in Users : GrantManually(u)
      BY <1>7 DEF Tests
    <2>2. Active' = Active \cup {u} /\ paying' = paying \cup {u} /\ Holder(u) = u
      BY <2>1, ActiveAfter DEF GrantManually, Holder
    <2> QED BY <1>2, <2>2 DEF FlagMatches
  <1> QED BY <1>1, <1>3, <1>5, <1>6, <1>7

(* No place too many is sold.                                                *)
LEMMA CapacityStep ==
  ASSUME TypeOK, CapacityHeld, [Next]_vars
  PROVE  CapacityHeld'
  <1>1. Still \/ Grants \/ Refunds \/ Tests \/ Withdraws \/ Expires
    BY StepKinds
  <1>2. IsFiniteSet(PaidPlaces) /\ Cardinality(PaidPlaces) \in Nat
    BY EntitlementsAssumption, FS_Subset, FS_CardinalityType DEF PaidPlaces
  <1>3. CASE PaidPlaces' \subseteq PaidPlaces
    <2>1. IsFiniteSet(PaidPlaces') /\ Cardinality(PaidPlaces') <= Cardinality(PaidPlaces)
      BY <1>2, <1>3, FS_Subset
    <2>2. Cardinality(PaidPlaces') \in Nat
      BY <2>1, FS_CardinalityType
    <2> QED BY <1>2, <2>1, <2>2, EntitlementsAssumption DEF CapacityHeld
  <1>4. CASE Still \/ Expires
    BY <1>3, <1>4 DEF Still, Expires, Active, PaidPlaces
  <1>5. CASE Refunds \/ Withdraws
    BY <1>3, <1>5, ActiveAfter DEF Refunds, Withdraws, PaidPlaces
  <1>6. CASE Grants
    <2>1. PICK b \in Bodies : Grant(b, Outcome(b))
      BY <1>6 DEF Grants
    <2>2. CASE Outcome(b) = "granted"
      <3>1. PaidPlaces' = PaidPlaces \cup {b.order} /\ b.order \notin PaidPlaces /\ ~SoldOut
        BY <2>1, <2>2, ActiveAfter, GrantNeeds DEF PaidPlaces
      <3>2. Cardinality(PaidPlaces') = Cardinality(PaidPlaces) + 1
        BY <1>2, <3>1, FS_AddElement
      <3> QED BY <1>2, <3>1, <3>2, EntitlementsAssumption DEF CapacityHeld, SoldOut
    <2>3. CASE Outcome(b) # "granted"
      BY <1>3, <2>1, <2>3, ActiveAfter DEF PaidPlaces
    <2> QED BY <2>2, <2>3
  <1>7. CASE Tests
    <2>1. PaidPlaces' = PaidPlaces
      BY <1>7, ActiveAfter, EntitlementsAssumption DEF Tests, PaidPlaces
    <2> QED BY <1>3, <2>1
  <1> QED BY <1>1, <1>4, <1>5, <1>6, <1>7

(* An attempt is used up by the row it buys.                                 *)
LEMMA AttemptStep ==
  ASSUME TypeOK, AttemptBuysOnce, UsedUp, [Next]_vars
  PROVE  AttemptBuysOnce' /\ UsedUp'
  <1>1. deal' = deal /\ (Still \/ Grants \/ Refunds \/ Tests \/ Withdraws \/ Expires)
    BY StepKinds
  <1>2. CASE pending' \subseteq pending /\ \A o \in Orders : Held(o)' = Held(o)
    BY <1>1, <1>2 DEF AttemptBuysOnce, UsedUp
  <1>3. CASE Still \/ Expires
    BY <1>2, <1>3 DEF Still, Expires, Held
  <1>4. ASSUME NEW e, NEW state, Ends(e, state) PROVE AttemptBuysOnce' /\ UsedUp'
    BY <1>2, <1>4 DEF Ends, Held, Active, Entries, TypeOK
  <1>5. CASE Refunds \/ Withdraws
    BY <1>4, <1>5 DEF Refunds, Withdraws
  <1>6. CASE Tests
    BY <1>2, <1>6, EntitlementsAssumption DEF Tests, GrantManually, Held, Entries, TypeOK
  <1>7. CASE Grants
    <2>1. PICK b \in Bodies : Grant(b, Outcome(b))
      BY <1>7 DEF Grants
    <2>2. /\ b.order \in Orders /\ ~Held(b.order)
          /\ \A o \in Orders : Held(o)' => Held(o) \/ o = b.order
      BY <2>1, GrantNeeds DEF Held, Entries, TypeOK
    <2>3. CASE deal.audited
      <3>1. deal.attempt[b.order] \in pending
        BY <2>1, <2>3, GrantNeeds DEF Attested
      <3>2. pending' = pending \ {deal.attempt[b.order]}
        BY <2>1, <2>3 DEF Grant
      <3>3. \A o \in Orders : Held(o) => deal.attempt[o] # deal.attempt[b.order]
        BY <2>3, <3>1 DEF UsedUp
      <3> QED BY <1>1, <2>2, <2>3, <3>1, <3>2, <3>3 DEF AttemptBuysOnce, UsedUp
    <2>4. CASE ~deal.audited
      BY <1>1, <2>4 DEF AttemptBuysOnce, UsedUp
    <2> QED BY <2>3, <2>4
  <1> QED BY <1>1, <1>3, <1>5, <1>6, <1>7

-----------------------------------------------------------------------------
(* Types of a step                                                           *)

(* The tables an event writes keep their types.                              *)
LEMMA TableTypes ==
  ASSUME TypeOK, [Next]_vars
  PROVE  rows' \in [Entries -> RowStates] /\ paying' \subseteq Users /\ pending' \subseteq Orders
  <1>1. Still \/ Grants \/ Refunds \/ Tests \/ Withdraws \/ Expires
    BY StepKinds
  <1>2. ASSUME NEW e, NEW state, Ends(e, state)
        PROVE  rows' \in [Entries -> RowStates] /\ paying' \subseteq Users /\ pending' \subseteq Orders
    BY <1>2 DEF TypeOK, Ends, Leaves, Active, RowStates
  <1>3. CASE Grants
    <2>1. PICK b \in Bodies : Grant(b, Outcome(b))
      BY <1>3 DEF Grants
    <2>2. b.order \in Entries /\ Holder(b.order) \in Users
      BY <2>1, GrantNeeds, HolderType DEF Entries
    <2>3. pending' \subseteq Orders
      BY <2>1 DEF Grant, TypeOK
    <2> QED BY <2>1, <2>2, <2>3, GrantNeeds DEF TypeOK, RowStates
  <1>4. CASE Still \/ Expires
    BY <1>4 DEF Still, Expires, TypeOK
  <1>5. CASE Refunds \/ Withdraws
    BY <1>2, <1>5 DEF Refunds, Withdraws
  <1>6. CASE Tests
    BY <1>6 DEF Tests, GrantManually, TypeOK, RowStates, Entries
  <1> QED BY <1>1, <1>3, <1>4, <1>5, <1>6

(* Opening or closing a case leaves a status of a case.                      *)
LEMMA CaseTypes ==
  ASSUME TypeOK
  PROVE  /\ \A o \in Orders : Closed(o) \in [Cases -> {"none", "open", "resolved"}]
         /\ \A c \in Cases : Opened(c) \in [Cases -> {"none", "open", "resolved"}]
  BY DEF TypeOK, Closed, Opened

(* An event leaves marks and cases of their types.                           *)
LEMMA ProcessTypes ==
  ASSUME TypeOK, NEW b \in Bodies, NEW marks, marks \subseteq Marks, Process(b, marks)
  PROVE  recent' \subseteq Marks /\ cases' \in [Cases -> {"none", "open", "resolved"}]
  <1>1. recent' \subseteq Marks
    BY MarkType DEF Process, Record, TypeOK
  <1>2. b.order \in Orders
    BY DEF Bodies
  <1>3. cases' = cases \/ cases' = Closed(b.order)
    BY DEF Process, Grant, Return, Nothing
  <1> QED BY <1>1, <1>2, <1>3, CaseTypes DEF TypeOK

(* Putting a body aside.                                                     *)
LEMMA StoreTypes ==
  ASSUME TypeOK, NEW t \in storing, Count(t) \/ Insert(t)
  PROVE  queue' \in Seq(Bodies) /\ storing' \subseteq Storing /\ after' \subseteq Cases
  <1>1. t \in Storing /\ t.body \in Bodies /\ t.body.order \in Orders
    BY DEF TypeOK, Storing, Bodies
  <1>2. Complaint(t) \subseteq Cases
    BY <1>1, CasesType DEF Complaint
  <1>3. [t EXCEPT !.at = "insert"] \in Storing
    BY <1>1 DEF Storing
  <1>4. Append(queue, t.body) \in Seq(Bodies)
    BY <1>1 DEF TypeOK
  <1> QED BY <1>2, <1>3, <1>4 DEF TypeOK, Count, Insert

(* A body less.                                                              *)
LEMMA WithoutTypes ==
  ASSUME TypeOK, NEW i \in 1..Len(queue)
  PROVE  Without(i) \in Seq(Bodies) /\ Len(Without(i)) < Len(queue)
  <1> DEFINE n == Len(queue) - 1
  <1>1. queue \in Seq(Bodies) /\ Len(queue) \in Nat
    BY DEF TypeOK
  <1>2. n \in Nat /\ n < Len(queue)
    BY <1>1
  <1>3. \A j \in 1..n : (IF j < i THEN queue[j] ELSE queue[j + 1]) \in Bodies
    <2> TAKE j \in 1..n
    <2>1. j \in 1..Len(queue) /\ j + 1 \in 1..Len(queue)
      BY <1>1
    <2> QED BY <1>1, <2>1
  <1>4. Without(i) = [j \in 1..n |-> IF j < i THEN queue[j] ELSE queue[j + 1]]
    BY DEF Without
  <1> HIDE DEF n
  <1>5. Without(i) \in [1..n -> Bodies]
    BY <1>3, <1>4
  <1> QED BY <1>2, <1>5

(* A step of the list: what is taken off, what is left.                      *)
LEMMA JobTypes ==
  ASSUME TypeOK
  PROVE  /\ IdleJob \in Job
         /\ [IdleJob EXCEPT !.at = "replay", !.bodies = queue] \in Job
         /\ [job EXCEPT !.at = "orders", !.list = status] \in Job
         /\ job.bodies # <<>> => Head(job.bodies) \in Bodies /\ [job EXCEPT !.bodies = Tail(@)] \in Job
         /\ \A o \in Orders : [job EXCEPT !.list[o] = "none"] \in Job
         /\ \A o \in Orders, c \in SUBSET Cases :
              /\ [job EXCEPT !.list[o] = "none", !.unserved = @ \cup c] \in Job
              /\ [job EXCEPT !.list[o] = "none", !.opens = c] \in Job
         /\ \A c : /\ [job EXCEPT !.unserved = @ \ {c}] \in Job
                   /\ [job EXCEPT !.opens = @ \ {c}] \in Job
         /\ job.opens \cup job.unserved \subseteq Cases
  <1>1. job \in Job /\ status \in [Orders -> Statuses] /\ queue \in Seq(Bodies)
    BY DEF TypeOK
  <1>2. IdleJob \in Job
    BY DEF IdleJob, Job, Statuses
  <1>3. [IdleJob EXCEPT !.at = "replay", !.bodies = queue] \in Job
    BY <1>1, <1>2 DEF Job
  <1>4. [job EXCEPT !.at = "orders", !.list = status] \in Job
    BY <1>1 DEF Job
  <1>5. ASSUME job.bodies # <<>>
        PROVE  Head(job.bodies) \in Bodies /\ [job EXCEPT !.bodies = Tail(@)] \in Job
    <2>1. job.bodies \in Seq(Bodies)
      BY <1>1 DEF Job
    <2>2. Head(job.bodies) \in Bodies /\ Tail(job.bodies) \in Seq(Bodies)
      BY <1>5, <2>1
    <2> QED BY <1>1, <2>2 DEF Job
  <1>6. ASSUME NEW o \in Orders PROVE [job.list EXCEPT ![o] = "none"] \in [Orders -> Statuses]
    BY <1>1 DEF Job, Statuses
  <1>7. ASSUME NEW o \in Orders PROVE [job EXCEPT !.list[o] = "none"] \in Job
    BY <1>1, <1>6 DEF Job
  <1>8. ASSUME NEW o \in Orders, NEW c \in SUBSET Cases
        PROVE  /\ [job EXCEPT !.list[o] = "none", !.unserved = @ \cup c] \in Job
               /\ [job EXCEPT !.list[o] = "none", !.opens = c] \in Job
    BY <1>1, <1>6 DEF Job
  <1>9. ASSUME NEW c PROVE /\ [job EXCEPT !.unserved = @ \ {c}] \in Job
                           /\ [job EXCEPT !.opens = @ \ {c}] \in Job
    BY <1>1 DEF Job
  <1>10. job.opens \cup job.unserved \subseteq Cases
    BY <1>1 DEF Job
  <1> QED BY <1>2, <1>3, <1>4, <1>5, <1>7, <1>8, <1>9, <1>10

(* What is left to show of a step's types: all but the tables of TableTypes. *)
Rest ==
  /\ deal \in Deals
  /\ status \in [Orders -> Statuses]
  /\ sent \subseteq Bodies
  /\ recent \subseteq Marks /\ old \subseteq Marks
  /\ queue \in Seq(Bodies)
  /\ cases \in [Cases -> {"none", "open", "resolved"}]
  /\ storing \subseteq Storing /\ after \subseteq Cases
  /\ job \in Job
  /\ on \in BOOLEAN /\ events \in 0..MaxEvents

(* The count of events stays below its bound.                                *)
LEMMA EventsType == ASSUME TypeOK, Happens PROVE events' \in 0..MaxEvents
  BY EntitlementsAssumption DEF TypeOK, Happens

(* Every step keeps the types.                                               *)
LEMMA TypeStep == ASSUME TypeOK, [Next]_vars PROVE TypeOK'
  <1>1. Rest
    BY DEF TypeOK, Rest
  <1>2. ASSUME NEW o \in Orders, Pay(o) \/ RefundPart(o) \/ Refund(o) PROVE Rest'
    BY <1>1, <1>2, BodyType, EventsType
    DEF Rest, Pay, RefundPart, Refund, ProviderOnly, domain, threads, Statuses
  <1>3. ASSUME NEW b \in Bodies, Receive(b) PROVE Rest'
    <2>1. recent' \subseteq Marks /\ cases' \in [Cases -> {"none", "open", "resolved"}]
      BY <1>3, ProcessTypes DEF Receive
    <2>2. b.order \in Orders /\ Thread("nepouzitelna", b) \in Storing
      BY DEF Bodies, Thread, Storing
    <2>3. storing' \subseteq Storing /\ after' \subseteq Cases
      BY <1>1, <1>3, <2>2, CasesType DEF Receive, Rest
    <2>4. events' \in 0..MaxEvents
      BY <1>3, EventsType DEF Receive
    <2> QED BY <1>1, <1>3, <2>1, <2>3, <2>4 DEF Receive, Rest, provider
  <1>4. ASSUME NEW b \in Bodies, Defer(b) PROVE Rest'
    <2>1. Thread("platby_vypnute", b) \in Storing
      BY DEF Thread, Storing
    <2>2. events' \in 0..MaxEvents
      BY <1>4, EventsType DEF Defer
    <2> QED BY <1>1, <1>4, <2>1, <2>2 DEF Defer, Rest, provider, domain
  <1>5. ASSUME NEW c \in after, FollowUp(c) PROVE Rest'
    <2>1. c \in Cases
      BY DEF TypeOK
    <2> QED BY <1>1, <1>5, <2>1, CaseTypes DEF FollowUp, Rest, provider, domain
  <1>16. ASSUME NEW t \in storing, Count(t) \/ Insert(t) PROVE Rest'
    BY <1>1, <1>16, StoreTypes DEF Count, Insert, Rest, provider, domain
  <1>6. ASSUME NEW c \in job.opens \cup job.unserved, Report(c) PROVE Rest'
    <2>1. job' \in Job
      BY <1>6, JobTypes DEF Report
    <2>2. c \in Cases
      BY JobTypes
    <2> QED BY <1>1, <1>6, <2>1, <2>2, CaseTypes DEF Report, Rest, provider, domain, threads
  <1>7. ASSUME Start \/ Fetch \/ Finish PROVE Rest'
    <2>1. job' \in Job
      BY <1>7, JobTypes DEF Start, Fetch, Finish
    <2> QED BY <1>1, <1>7, <2>1 DEF Start, Fetch, Finish, Rest, provider, domain, threads
  <1>8. ASSUME Replay PROVE Rest'
    <2> DEFINE b == Head(job.bodies)
               marks == IF Outcome(b) # "unusable" THEN {Hash(b)} ELSE {}
    <2>1. b \in Bodies /\ job' \in Job
      BY <1>8, JobTypes DEF Replay
    <2>2. marks \subseteq Marks /\ Process(b, marks)
      BY <1>8, <2>1, MarkType DEF Replay
    <2>3. recent' \subseteq Marks /\ cases' \in [Cases -> {"none", "open", "resolved"}]
      BY <2>1, <2>2, ProcessTypes
    <2>4. queue' \in Seq(Bodies)
      BY <1>1, <1>8, WithoutTypes DEF Replay, Rest
    <2> QED BY <1>1, <1>8, <2>1, <2>3, <2>4 DEF Replay, Rest, provider, threads
  <1>9. ASSUME NEW o \in Orders, Apply(o) PROVE Rest'
    <2>1. UNCHANGED <<deal, provider, old, queue, threads, on, events>>
      BY <1>9 DEF Apply
    <2>2. SUFFICES /\ recent' \subseteq Marks
                   /\ cases' \in [Cases -> {"none", "open", "resolved"}]
                   /\ job' \in Job
      BY <1>1, <2>1 DEF Rest, provider, threads
    <2>3. CASE ApplyPaid(o)
      <3>1. Body("created", o) \in Bodies /\ Process(Body("created", o), {})
        BY <2>3, BodyType DEF ApplyPaid
      <3>2. job' \in Job
        BY <2>3, JobTypes, CasesType DEF ApplyPaid
      <3> QED BY <3>1, <3>2, ProcessTypes
    <2>4. CASE ApplyUnusable(o) \/ ApplyUnknown(o)
      <3>1. Unusable(o) \in SUBSET Cases /\ Unknown(o) \in SUBSET Cases
        BY CasesType
      <3>2. [job EXCEPT !.list[o] = "none", !.opens = Unusable(o)] \in Job
        BY <3>1, JobTypes
      <3>3. [job EXCEPT !.list[o] = "none", !.opens = Unknown(o)] \in Job
        BY <3>1, JobTypes
      <3>4. job' \in Job
        BY <2>4, <3>2, <3>3 DEF ApplyUnusable, ApplyUnknown
      <3> QED BY <1>1, <2>4, <3>4 DEF ApplyUnusable, ApplyUnknown, Rest, domain
    <2>6. CASE ApplyRefund(o)
      <3>1. job' \in Job
        BY <2>6, JobTypes DEF ApplyRefund
      <3>2. cases' \in [Cases -> {"none", "open", "resolved"}]
        BY <1>1, <2>6, CaseTypes DEF ApplyRefund, Rest
      <3>3. recent' \subseteq Marks
        BY <1>1, <2>6, BodyType, MarkType DEF ApplyRefund, Record, Rest, domain
      <3> QED BY <3>1, <3>2, <3>3
    <2> QED BY <1>9, <2>3, <2>4, <2>6 DEF Apply
  <1>10. ASSUME NEW u \in Users, GrantManually(u) \/ WithdrawManually(u) PROVE Rest'
    BY <1>1, <1>10, EventsType DEF GrantManually, WithdrawManually, Rest, provider, threads
  <1>11. ASSUME NEW o \in Orders, Expire(o) PROVE Rest'
    BY <1>1, <1>11, EventsType DEF Expire, Rest, provider, threads
  <1>12. ASSUME Age PROVE Rest'
    BY <1>1, <1>12 DEF Age, Rest, provider, threads
  <1>13. ASSUME Crash \/ Abandon \/ Switch PROVE Rest'
    <2>1. events' \in 0..MaxEvents
      BY <1>13, EventsType DEF Crash, Abandon, Switch
    <2> QED BY <1>1, <1>13, <2>1, JobTypes DEF Crash, Abandon, Switch, Rest, provider, domain, threads
  <1>14. ASSUME UNCHANGED vars PROVE Rest'
    BY <1>1, <1>14 DEF vars, Rest, provider, domain, threads
  <1>15. Rest'
    <2>1. Left \subseteq Orders
      BY DEF Left
    <2> QED
      BY <2>1, <1>2, <1>3, <1>4, <1>5, <1>6, <1>7, <1>8, <1>9, <1>10, <1>11, <1>12, <1>13, <1>14,
         <1>16
      DEF Next, JobStep, RouteStep
  <1> QED BY <1>15, TableTypes DEF Rest, TypeOK

-----------------------------------------------------------------------------
(* The queue                                                                 *)

(* Threads that insert are among the threads, a finite number.               *)
LEMMA InsertingFinite ==
  ASSUME ThreadsHeld
  PROVE  /\ Cardinality(storing) \in Nat
         /\ IsFiniteSet(Inserting) /\ Cardinality(Inserting) \in Nat
         /\ Cardinality(Inserting) <= MaxThreads
  <1>1. Inserting \subseteq storing
    BY DEF Inserting
  <1>2. IsFiniteSet(Inserting) /\ Cardinality(Inserting) <= Cardinality(storing)
    BY <1>1, FS_Subset DEF ThreadsHeld
  <1>3. Cardinality(storing) \in Nat /\ Cardinality(Inserting) \in Nat
    BY <1>2, FS_CardinalityType DEF ThreadsHeld
  <1> QED BY <1>2, <1>3, EntitlementsAssumption DEF ThreadsHeld

(* A thread more, one that has yet to look for room.                         *)
LEMMA ThreadMore ==
  ASSUME TypeOK, ThreadsHeld, QueueHeld, FreeThread, NEW why, NEW b,
         storing' = storing \cup {Thread(why, b)}, queue' = queue
  PROVE  ThreadsHeld' /\ QueueHeld'
  <1>1. Inserting' = Inserting
    BY DEF Inserting, Thread
  <1>2. IsFiniteSet(storing') /\ Cardinality(storing') <= Cardinality(storing) + 1
    <2>1. CASE Thread(why, b) \in storing
      <3>1. storing' = storing
        BY <2>1
      <3> QED BY <3>1, InsertingFinite DEF ThreadsHeld
    <2>2. CASE Thread(why, b) \notin storing
      <3> DEFINE t == Thread(why, b)
      <3>1. t \notin storing /\ storing' = storing \cup {t}
        BY <2>2
      <3> HIDE DEF t
      <3>2. IsFiniteSet(storing \cup {t}) /\ Cardinality(storing \cup {t}) = Cardinality(storing) + 1
        BY <3>1, FS_AddElement DEF ThreadsHeld
      <3> QED BY <3>1, <3>2, InsertingFinite
    <2> QED BY <2>1, <2>2
  <1>3. Cardinality(storing') <= MaxThreads
    <2>1. Cardinality(storing') \in Nat
      BY <1>2, FS_CardinalityType
    <2> QED BY <1>2, <2>1, InsertingFinite, EntitlementsAssumption DEF FreeThread
  <1> QED BY <1>1, <1>2, <1>3 DEF ThreadsHeld, QueueHeld

(* A thread less, and no longer queue: the bounds hold.                      *)
LEMMA NoMore ==
  ASSUME TypeOK, ThreadsHeld, QueueHeld, storing' \subseteq storing,
         Len(queue') \in Nat, Len(queue') <= Len(queue)
  PROVE  ThreadsHeld' /\ QueueHeld'
  <1>1. IsFiniteSet(storing') /\ Cardinality(storing') <= Cardinality(storing)
    BY FS_Subset DEF ThreadsHeld
  <1>2. Cardinality(storing') \in Nat
    BY <1>1, FS_CardinalityType
  <1>3. ThreadsHeld'
    BY <1>1, <1>2, InsertingFinite, EntitlementsAssumption DEF ThreadsHeld
  <1>4. Inserting' \subseteq Inserting
    BY DEF Inserting
  <1>5. IsFiniteSet(Inserting') /\ Cardinality(Inserting') <= Cardinality(Inserting)
    BY <1>4, InsertingFinite, FS_Subset
  <1>6. Cardinality(Inserting') \in Nat /\ Len(queue) \in Nat
    BY <1>5, FS_CardinalityType DEF TypeOK
  <1>7. QueueHeld'
    BY <1>5, <1>6, InsertingFinite, EntitlementsAssumption DEF QueueHeld
  <1> QED BY <1>3, <1>7

(* The queue passes its limit by at most one body per thread.                *)
LEMMA QueueStep ==
  ASSUME TypeOK, ThreadsHeld, QueueHeld, [Next]_vars
  PROVE  ThreadsHeld' /\ QueueHeld'
  <1>1. queue \in Seq(Bodies) /\ Len(queue) \in Nat
    BY DEF TypeOK
  <1>2. ASSUME storing' = storing, queue' = queue PROVE ThreadsHeld' /\ QueueHeld'
    BY <1>1, <1>2, NoMore
  <1>3. ASSUME NEW b \in Bodies, Receive(b) \/ Defer(b) PROVE ThreadsHeld' /\ QueueHeld'
    BY <1>2, <1>3, ThreadMore DEF Receive, Defer
  <1>4. ASSUME NEW t \in storing, Count(t) PROVE ThreadsHeld' /\ QueueHeld'
    <2>1. CASE ~Room
      BY <1>1, <1>4, <2>1, NoMore DEF Count
    <2>2. CASE Room
      <3> DEFINE rest == storing \ {t}
                 next == [t EXCEPT !.at = "insert"]
      <3>1. storing' = rest \cup {next} /\ queue' = queue
        BY <1>4, <2>2 DEF Count
      <3>2. IsFiniteSet(rest) /\ Cardinality(rest) = Cardinality(storing) - 1
        BY FS_RemoveElement DEF ThreadsHeld
      <3>3. Cardinality(rest) \in Nat
        BY <3>2, FS_CardinalityType
      <3>4. IsFiniteSet(rest \cup {next}) /\ Cardinality(rest \cup {next}) <= Cardinality(rest) + 1
        <4>1. CASE next \in rest
          <5>1. rest \cup {next} = rest
            BY <4>1
          <5> QED BY <3>2, <3>3, <5>1
        <4>2. CASE next \notin rest
          <5> HIDE DEF rest, next
          <5> QED BY <3>2, <3>3, <4>2, FS_AddElement
        <4> QED BY <4>1, <4>2
      <3>5. ThreadsHeld'
        <4>1. Cardinality(storing') \in Nat /\ Cardinality(storing') <= Cardinality(storing)
          BY <3>1, <3>2, <3>3, <3>4, FS_CardinalityType, InsertingFinite
        <4> QED BY <3>1, <3>4, <4>1, InsertingFinite, EntitlementsAssumption DEF ThreadsHeld
      <3>6. Cardinality(Inserting') \in Nat /\ Cardinality(Inserting') <= MaxThreads
        <4>1. Inserting' \subseteq storing'
          BY DEF Inserting
        <4>2. IsFiniteSet(storing') /\ Cardinality(storing') \in Nat
          BY <3>5, FS_CardinalityType DEF ThreadsHeld
        <4>3. IsFiniteSet(Inserting') /\ Cardinality(Inserting') <= Cardinality(storing')
          BY <4>1, <4>2, FS_Subset
        <4>4. Cardinality(Inserting') \in Nat
          BY <4>3, FS_CardinalityType
        <4> QED BY <3>5, <4>2, <4>3, <4>4, EntitlementsAssumption DEF ThreadsHeld
      <3> QED BY <1>1, <2>2, <3>1, <3>5, <3>6, EntitlementsAssumption DEF QueueHeld, Room
    <2> QED BY <2>1, <2>2
  <1>5. ASSUME NEW t \in storing, Insert(t) PROVE ThreadsHeld' /\ QueueHeld'
    <2>1. t.body \in Bodies
      BY DEF TypeOK, Storing
    <2>2. Len(queue') \in Nat /\ Len(queue') <= Len(queue) + 1
      <3>1. Len(Append(queue, t.body)) = Len(queue) + 1
        BY <1>1, <2>1
      <3> QED BY <1>1, <1>5, <3>1 DEF Insert
    <2>3. storing' = storing \ {t} /\ t \in Inserting
      BY <1>5 DEF Insert, Inserting
    <2>4. IsFiniteSet(storing') /\ Cardinality(storing') = Cardinality(storing) - 1
      BY <2>3, FS_RemoveElement DEF ThreadsHeld
    <2>5. ThreadsHeld'
      BY <2>4, InsertingFinite, EntitlementsAssumption DEF ThreadsHeld
    <2>6. Inserting' = Inserting \ {t}
      BY <2>3 DEF Inserting
    <2>7. Cardinality(Inserting') = Cardinality(Inserting) - 1
      BY <2>3, <2>6, InsertingFinite, FS_RemoveElement
    <2> QED BY <1>1, <2>2, <2>5, <2>7, InsertingFinite, EntitlementsAssumption DEF QueueHeld
  <1>6. ASSUME Replay PROVE ThreadsHeld' /\ QueueHeld'
    <2>1. storing' = storing
      BY <1>6 DEF Replay, threads
    <2>2. CASE queue' = queue
      BY <1>2, <2>1, <2>2
    <2>3. ASSUME NEW i \in 1..Len(queue), queue' = Without(i) PROVE ThreadsHeld' /\ QueueHeld'
      <3>1. Len(queue') \in Nat /\ Len(queue') <= Len(queue)
        BY <1>1, <2>3, WithoutTypes
      <3> QED BY <2>1, <3>1, NoMore
    <2> QED BY <1>6, <2>2, <2>3 DEF Replay
  <1>7. ASSUME Crash PROVE ThreadsHeld' /\ QueueHeld'
    BY <1>1, <1>7, NoMore DEF Crash
  <1>8. ASSUME \/ \E o \in Orders : Pay(o) \/ RefundPart(o) \/ Refund(o) \/ Expire(o)
               \/ \E c \in after : FollowUp(c)
               \/ Start \/ Fetch \/ Finish
               \/ \E o \in Left : Apply(o)
               \/ \E c \in job.opens \cup job.unserved : Report(c)
               \/ \E u \in Users : GrantManually(u) \/ WithdrawManually(u)
               \/ Age \/ Abandon \/ Switch \/ UNCHANGED vars
        PROVE  storing' = storing /\ queue' = queue
    BY <1>8 DEF Pay, RefundPart, Refund, ProviderOnly, Expire, FollowUp, Start, Fetch, Finish, Apply,
                Report, GrantManually, WithdrawManually, Age, Abandon, Switch, threads, vars
  <1> QED BY <1>2, <1>3, <1>4, <1>5, <1>6, <1>7, <1>8 DEF Next, JobStep, RouteStep

-----------------------------------------------------------------------------
(* Theorems                                                                  *)

(* Every state the specification starts in satisfies the invariant.          *)
LEMMA InitIInv == ASSUME Init PROVE IInv
  <1>1. deal \in Deal
    BY EntitlementsAssumption DEF Init
  <1>2. TypeOK
    <2>1. pending \subseteq Orders
      BY <1>1 DEF Init, Deal
    <2>2. job \in Job
      BY DEF Init, IdleJob, Job, Statuses
    <2>3. on \in BOOLEAN
      BY <1>1 DEF Init, Deal
    <2> QED BY <2>1, <2>2, <2>3, EntitlementsAssumption DEF Init, TypeOK, RowStates, Statuses
  <1>3. Active = {} /\ PaidPlaces = {} /\ \A o \in Orders : ~Held(o)
    BY DEF Init, Active, PaidPlaces, Held, Entries
  <1>6. ThreadsHeld /\ QueueHeld
    <2>1. storing = {} /\ Inserting = {} /\ Len(queue) = 0
      BY DEF Init, Inserting
    <2> QED BY <2>1, FS_EmptySet, EntitlementsAssumption DEF ThreadsHeld, QueueHeld
  <1>4. CapacityHeld
    BY <1>3, FS_EmptySet, EntitlementsAssumption DEF CapacityHeld
  <1>5. OneEntitlement /\ FlagMatches /\ AttemptBuysOnce /\ UsedUp
    BY <1>3 DEF Init, OneEntitlement, FlagMatches, AttemptBuysOnce, UsedUp
  <1> QED BY <1>2, <1>4, <1>5, <1>6 DEF IInv

(* The invariant holds in every reachable state.                             *)
THEOREM Invariant == Spec => []IInv
  <1>1. Init => IInv
    BY InitIInv
  <1>2. IInv /\ [Next]_vars => IInv'
    BY TypeStep, QueueStep, CapacityStep, OneStep, FlagStep, AttemptStep DEF IInv
  <1> QED BY <1>1, <1>2, PTL DEF Spec

(* Every variable keeps its type.                                            *)
THEOREM TypeCorrect == Spec => []TypeOK
  BY Invariant, PTL DEF IInv

(* Threads that read the count together pass the limit of the queue by at    *)
(* most one body each.                                                       *)
THEOREM QueueIsHeld == Spec => []QueueHeld
  BY Invariant, PTL DEF IInv

(* However webhooks, replays, reconciliation and manual grants interleave,   *)
(* there are never more paid entitlements than places.                       *)
THEOREM CapacityIsHeld == Spec => []CapacityHeld
  BY Invariant, PTL DEF IInv

(* No user has two running entitlements: the unique index never refuses.     *)
THEOREM OneEntitlementEach == Spec => []OneEntitlement
  BY Invariant, PTL DEF IInv

(* platiaci agrees with the table of entitlements.                           *)
THEOREM FlagIsRight == Spec => []FlagMatches
  BY Invariant, PTL DEF IInv

(* A checkout attempt with its consent pays for one order.                   *)
THEOREM AttemptsBuyOnce == Spec => []AttemptBuysOnce
  BY Invariant, PTL DEF IInv

(* An order is granted once, also after its key was forgotten.               *)
THEOREM OrdersGrantOnce == Spec => GrantedOnce
  <1> DEFINE Final == \A o \in Orders : rows[o] \notin {"none", "aktivny"} => rows'[o] = rows[o]
  <1>1. ASSUME TypeOK, [Next]_vars PROVE Final
    <2>1. Still \/ Grants \/ Refunds \/ Tests \/ Withdraws \/ Expires
      BY <1>1, StepKinds
    <2>2. ASSUME NEW e, NEW state, Ends(e, state) PROVE Final
      BY <1>1, <2>2 DEF Ends, Active, TypeOK, Entries
    <2>3. CASE Grants
      BY <1>1, <2>3, GrantNeeds DEF Grants, Held, TypeOK, Entries
    <2>4. CASE Tests
      BY <1>1, <2>4, EntitlementsAssumption DEF Tests, GrantManually, TypeOK, Entries
    <2>5. CASE Still \/ Expires
      BY <2>5 DEF Still, Expires
    <2>6. CASE Refunds \/ Withdraws
      BY <2>2, <2>6 DEF Refunds, Withdraws
    <2> QED BY <2>1, <2>3, <2>4, <2>5, <2>6
  <1>2. TypeOK /\ [Next]_vars => [Final]_vars
    BY <1>1
  <1> QED BY <1>2, TypeCorrect, PTL DEF Spec, GrantedOnce
=============================================================================
