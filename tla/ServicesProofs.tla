---------------------------- MODULE ServicesProofs ----------------------------
(* Theorems about the components beside the payments. Checkout: for every    *)
(* set of customers, every number of founder places and of checkouts. Costs: *)
(* for every number of collectors, every cap, estimate and price. Plans: for *)
(* every number of accounts, days and limits. And of all of them together    *)
(* with the accounts: their types.                                           *)
EXTENDS MCServices, AccountsProofs, FiniteSetTheorems, TLAPS


-----------------------------------------------------------------------------
(* Checkout                                                                  *)

(* A founder's open checkout is a reservation: the sweep takes the place of  *)
(* none that still runs.                                                     *)
OpenReserved ==
  \A a \in Rows : Founder(a) /\ Status(a, "pending") /\ clock[a] = "open" => attempt[a].reserved

(* Only checkouts that ran out are swept.                                    *)
SweptRanOut == \A a \in Rows : Status(a, "expired") => clock[a] # "open"

(* An order that was paired late stays paid.                                 *)
LatePaid == \A a \in late : Status(a, "paid")

PlacesInv == CheckoutTypeOK /\ OpenReserved /\ SweptRanOut /\ LatePaid /\ PlacesHeld

-----------------------------------------------------------------------------
(* Places                                                                    *)

(* Every set that is counted is one of checkouts.                            *)
LEMMA Finite ==
  /\ \A S \in SUBSET Checkouts : IsFiniteSet(S) /\ Cardinality(S) \in Nat
  /\ Sold \subseteq Checkouts /\ Sold' \subseteq Checkouts
  /\ PlacesUsed \subseteq Checkouts /\ PlacesPending \subseteq Checkouts
<1>1. IsFiniteSet(Checkouts)
  BY FS_Interval, CheckoutAssumption DEF Checkouts
<1>2. QED
  BY <1>1, FS_Subset, FS_CardinalityType DEF Sold, PlacesUsed, PlacesPending, Rows

(* What was sold or promised at the founder price is counted by the offer.   *)
LEMMA OfferCounts == ASSUME PlacesInv PROVE Sold \subseteq PlacesUsed \cup PlacesPending
  BY DEF PlacesInv, OpenReserved, Sold, PlacesUsed, PlacesPending, Status

(* While the founder price is offered, a place is left.                      *)
LEMMA OfferLeavesOne == ASSUME PlacesInv, FounderOffer PROVE Cardinality(Sold) + 1 <= Capacity
<1>1. Cardinality(Sold) <= Cardinality(PlacesUsed \cup PlacesPending)
  BY Finite, OfferCounts, FS_Subset
<1>2. Cardinality(PlacesUsed \cup PlacesPending)
        = Cardinality(PlacesUsed) + Cardinality(PlacesPending)
            - Cardinality(PlacesUsed \cap PlacesPending)
  BY Finite, FS_Union
<1>3. /\ Cardinality(PlacesUsed) \in Nat /\ Cardinality(PlacesPending) \in Nat
      /\ Cardinality(PlacesUsed \cap PlacesPending) \in Nat /\ Cardinality(Sold) \in Nat
      /\ Cardinality(PlacesUsed \cup PlacesPending) \in Nat
  BY Finite
<1>4. QED
  BY <1>1, <1>2, <1>3, CheckoutAssumption DEF FounderOffer

(* A step that sells nothing more.                                           *)
LEMMA NoMore ==
  ASSUME PlacesHeld, CheckoutTypeOK, Sold' \subseteq Sold, late \subseteq late', late' \subseteq Checkouts
  PROVE  PlacesHeld'
<1>1. Cardinality(Sold') <= Cardinality(Sold) /\ Cardinality(late) <= Cardinality(late')
  BY Finite, FS_Subset
<1>2. /\ Cardinality(Sold') \in Nat /\ Cardinality(Sold) \in Nat
      /\ Cardinality(late) \in Nat /\ Cardinality(late') \in Nat
  BY Finite DEF CheckoutTypeOK
<1>3. QED
  BY <1>1, <1>2, CheckoutAssumption DEF PlacesHeld

(* A place that is sold again after it was given up is one of the late ones. *)
LEMMA OneLater ==
  ASSUME PlacesHeld, CheckoutTypeOK, NEW a \in Checkouts, a \notin late, late' = late \cup {a},
         Sold' \subseteq Sold \cup {a}
  PROVE  PlacesHeld'
<1>1. Cardinality(Sold') <= Cardinality(Sold \cup {a})
  BY Finite, FS_Subset
<1>2. Cardinality(Sold \cup {a}) <= Cardinality(Sold) + 1
  BY Finite, FS_AddElement
<1>3. Cardinality(late') = Cardinality(late) + 1
  BY Finite, FS_AddElement DEF CheckoutTypeOK
<1>4. /\ Cardinality(Sold') \in Nat /\ Cardinality(Sold) \in Nat /\ Cardinality(late) \in Nat
      /\ Cardinality(Sold \cup {a}) \in Nat
  BY Finite DEF CheckoutTypeOK
<1>5. QED
  BY <1>1, <1>2, <1>3, <1>4, CheckoutAssumption DEF PlacesHeld

-----------------------------------------------------------------------------
(* The steps                                                                 *)

(* The row of a new checkout; the others stay, or are swept.                 *)
LEMMA CheckoutStarted ==
  ASSUME PlacesInv, NEW u \in Customers, NEW agreed \in BOOLEAN, Start(u, agreed)
  PROVE  PlacesInv'
<1>1. PICK a \in Checkouts :
        /\ Rows = 1..(a - 1) /\ agreed = FounderOffer
        /\ attempt' = [Swept EXCEPT ![a] =
             [user |-> u, founder |-> agreed, status |-> "pending", reserved |-> agreed,
              url |-> FALSE]]
        /\ asked' = [asked EXCEPT ![a] = "provider"]
        /\ UNCHANGED <<clock, order, annual, late>>
  BY DEF Start
<1> DEFINE new == [user |-> u, founder |-> agreed, status |-> "pending", reserved |-> agreed,
                   url |-> FALSE]
           out(b) == [attempt[b] EXCEPT !.status = "expired", !.reserved = FALSE]
<1>2. new \in Attempt /\ new.founder = agreed /\ new.status = "pending" /\ new.reserved = agreed
  BY DEF Attempt
<1> HIDE DEF new
<1>3. attempt' = [Swept EXCEPT ![a] = new] /\ a \notin Rows
  BY <1>1 DEF new, Checkouts, Rows
<1>4. ASSUME NEW b \in Checkouts
      PROVE  /\ b = a => attempt'[b] = new
             /\ b # a => \/ attempt'[b] = attempt[b]
                         \/ /\ b \in Rows /\ Status(b, "pending") /\ clock[b] # "open"
                            /\ attempt'[b] = out(b)
  BY <1>3 DEF Swept, Status, Rows
<1>5. ASSUME NEW b \in Rows
      PROVE  out(b) \in Attempt /\ out(b).status = "expired" /\ out(b).founder = attempt[b].founder
  BY DEF Rows, PlacesInv, CheckoutTypeOK, Attempt
<1> HIDE DEF out
<1>6. CheckoutTypeOK'
  <2>1. \A b \in Checkouts : attempt'[b] \in Attempt \cup {Nothing}
    BY <1>2, <1>4, <1>5 DEF PlacesInv, CheckoutTypeOK
  <2>2. attempt' = [b \in Checkouts |-> attempt'[b]]
    BY <1>3 DEF Swept
  <2>3. attempt' \in [Checkouts -> Attempt \cup {Nothing}]
    BY <2>1, <2>2
  <2>4. QED
    BY <1>1, <2>3 DEF PlacesInv, CheckoutTypeOK
<1>7. OpenReserved' /\ SweptRanOut'
  <2>1. ASSUME NEW b \in Rows'
        PROVE  /\ Founder(b)' /\ Status(b, "pending")' /\ clock'[b] = "open" => attempt'[b].reserved
               /\ Status(b, "expired")' => clock'[b] # "open"
    <3>1. CASE b = a
      BY <1>2, <1>4, <2>1, <3>1 DEF Founder, Status, Rows
    <3>2. CASE b # a /\ attempt'[b] = attempt[b]
      BY <1>1, <2>1, <3>2 DEF PlacesInv, OpenReserved, SweptRanOut, Founder, Status, Rows
    <3>3. CASE b \in Rows /\ clock[b] # "open" /\ attempt'[b] = out(b)
      BY <1>1, <1>5, <3>3 DEF Founder, Status, Rows
    <3>4. QED
      BY <1>4, <2>1, <3>1, <3>2, <3>3 DEF Rows
  <2>2. QED
    BY <2>1 DEF OpenReserved, SweptRanOut
<1>8. LatePaid'
  BY <1>1, <1>3, <1>4 DEF PlacesInv, LatePaid, Status, Rows, CheckoutTypeOK
<1>9. Sold' \subseteq Sold \cup (IF agreed THEN {a} ELSE {})
  BY <1>1, <1>2, <1>4, <1>5 DEF Sold, Founder, Status, Rows
<1>10. PlacesHeld'
  <2>1. CASE ~agreed
    BY <1>1, <1>9, <2>1, NoMore DEF PlacesInv, CheckoutTypeOK
  <2>2. CASE agreed
    <3>1. Cardinality(Sold) + 1 <= Capacity
      BY <1>1, <2>2, OfferLeavesOne
    <3>2. Cardinality(Sold') <= Cardinality(Sold \cup {a})
      BY <1>9, <2>2, Finite, FS_Subset
    <3>3. Cardinality(Sold \cup {a}) <= Cardinality(Sold) + 1
      BY Finite, FS_AddElement
    <3>4. /\ Cardinality(Sold') \in Nat /\ Cardinality(Sold) \in Nat /\ Cardinality(late') \in Nat
          /\ Cardinality(Sold \cup {a}) \in Nat
      BY <1>1, Finite DEF PlacesInv, CheckoutTypeOK
    <3>5. QED
      BY <3>1, <3>2, <3>3, <3>4, CheckoutAssumption DEF PlacesHeld
  <2>3. QED
    BY <2>1, <2>2
<1>11. QED
  BY <1>6, <1>7, <1>8, <1>10 DEF PlacesInv

(* What the provider, the clock and the end of a subscription do to it.      *)
LEMMA Around ==
  ASSUME PlacesInv, NEW a \in Checkouts,
         AskProvider(a) \/ Record(a) \/ Passes(a) \/ Buy(a) \/ SubscriptionEnds(a)
  PROVE  PlacesInv'
<1> DEFINE r == [attempt[a] EXCEPT !.url = TRUE]
<1>1. /\ late' = late
      /\ \/ attempt' = attempt
         \/ /\ a \in Rows /\ Status(a, "pending")
            /\ attempt' = [attempt EXCEPT ![a] = r]
  BY DEF AskProvider, Record, Passes, Buy, SubscriptionEnds, Status, Rows
<1>2. ASSUME NEW b \in Checkouts
      PROVE  /\ attempt'[b] \in Attempt \cup {Nothing}
             /\ b \in Rows => /\ attempt'[b].founder = attempt[b].founder
                              /\ attempt'[b].status = attempt[b].status
                              /\ attempt'[b].reserved = attempt[b].reserved
             /\ b \notin Rows => attempt'[b] = Nothing
  <2>1. CASE attempt' = attempt
    BY <2>1 DEF PlacesInv, CheckoutTypeOK, Rows
  <2>2. CASE a \in Rows /\ attempt' = [attempt EXCEPT ![a] = r]
    <3>1. /\ r \in Attempt /\ r.founder = attempt[a].founder
          /\ r.status = attempt[a].status /\ r.reserved = attempt[a].reserved
      BY <2>2 DEF Rows, PlacesInv, CheckoutTypeOK, Attempt
    <3> HIDE DEF r
    <3>2. QED
      BY <2>2, <3>1 DEF PlacesInv, CheckoutTypeOK, Rows
  <2>3. QED
    BY <1>1, <2>1, <2>2
<1> HIDE DEF r
<1>3. \A b \in Checkouts : clock'[b] # clock[b] => clock'[b] # "open"
  BY DEF AskProvider, Record, Passes, Buy, SubscriptionEnds, PlacesInv, CheckoutTypeOK
<1>4. CheckoutTypeOK'
  <2>1. attempt' \in [Checkouts -> Attempt \cup {Nothing}]
    BY <1>1, <1>2 DEF PlacesInv, CheckoutTypeOK
  <2>2. /\ clock' \in [Checkouts -> Clock]
        /\ asked' \in [Checkouts -> {"provider", "record", "done"}]
        /\ order' \in [Checkouts -> Clock \cup {Nothing}]
        /\ annual' \in [Checkouts -> {"live", "ended", Nothing}]
    BY DEF AskProvider, Record, Passes, Buy, SubscriptionEnds, PlacesInv, CheckoutTypeOK, Clock
  <2>3. QED
    BY <1>1, <2>1, <2>2 DEF PlacesInv, CheckoutTypeOK
<1>5. OpenReserved' /\ SweptRanOut' /\ LatePaid'
  BY <1>1, <1>2, <1>3, <1>4
     DEF PlacesInv, OpenReserved, SweptRanOut, LatePaid, Founder, Status, Rows, CheckoutTypeOK
<1>6. Sold' \subseteq Sold
  BY <1>2, <1>3 DEF Sold, Founder, Status, Rows
<1>7. PlacesHeld'
  BY <1>1, <1>6, NoMore DEF PlacesInv, CheckoutTypeOK
<1>8. QED
  BY <1>4, <1>5, <1>7 DEF PlacesInv

(* An order is paired with its checkout, by the one webhook or the other.    *)
LEMMA Paired ==
  ASSUME PlacesInv, NEW a \in Checkouts, OrderCreated(a) \/ SubscriptionCreated(a)
  PROVE  PlacesInv'
<1>1. Pairs(a) /\ a \in Rows /\ UNCHANGED <<clock, asked, order>>
  BY DEF OrderCreated, SubscriptionCreated, Pairable
<1> DEFINE r == [attempt[a] EXCEPT !.status = "paid"]
<1>2. r \in Attempt /\ r.founder = attempt[a].founder /\ r.status = "paid"
  BY <1>1 DEF Rows, PlacesInv, CheckoutTypeOK, Attempt
<1>3. attempt' = [attempt EXCEPT ![a] = r]
  BY <1>1 DEF Pairs
<1> HIDE DEF r
<1>4. CheckoutTypeOK'
  <2>1. annual' \in [Checkouts -> {"live", "ended", Nothing}]
    BY DEF OrderCreated, SubscriptionCreated, PlacesInv, CheckoutTypeOK
  <2>2. late' \subseteq Checkouts
    BY <1>1 DEF Pairs, PlacesInv, CheckoutTypeOK
  <2>3. attempt' \in [Checkouts -> Attempt \cup {Nothing}]
    BY <1>2, <1>3 DEF PlacesInv, CheckoutTypeOK
  <2>4. QED
    BY <1>1, <2>1, <2>2, <2>3 DEF PlacesInv, CheckoutTypeOK
<1>5. \A b \in Checkouts : /\ b # a => attempt'[b] = attempt[b]
                           /\ b = a => attempt'[b] = r
  BY <1>3 DEF PlacesInv, CheckoutTypeOK
<1>6. OpenReserved' /\ SweptRanOut'
  BY <1>1, <1>2, <1>5 DEF PlacesInv, OpenReserved, SweptRanOut, Founder, Status, Rows
<1>7. LatePaid'
  BY <1>1, <1>2, <1>5, NothingAssumption DEF PlacesInv, LatePaid, Pairs, Status, Rows, CheckoutTypeOK
<1>8. Sold' \subseteq Sold \cup {a} /\ (a \in Sold' => Founder(a))
  BY <1>1, <1>2, <1>5 DEF Sold, Founder, Status, Rows
<1>9. PlacesHeld'
  <2>1. CASE a \in Sold \/ ~Founder(a)
    <3>1. Sold' \subseteq Sold /\ late \subseteq late'
      BY <1>1, <1>8, <2>1 DEF Pairs
    <3>2. QED
      BY <1>4, <3>1, NoMore DEF PlacesInv, CheckoutTypeOK
  <2>2. CASE a \notin Sold /\ Founder(a)
    <3>1. ~Status(a, "paid") /\ clock[a] # "open"
      BY <1>1, <2>2 DEF Sold, Status, Rows, PlacesInv, SweptRanOut, CheckoutTypeOK, Attempt
    <3>2. late' = late \cup {a} /\ a \notin late
      BY <1>1, <2>2, <3>1 DEF Pairs, PlacesInv, LatePaid
    <3>3. QED
      BY <1>8, <3>2, OneLater DEF PlacesInv
  <2>3. QED
    BY <2>1, <2>2
<1>10. QED
  BY <1>4, <1>6, <1>7, <1>9 DEF PlacesInv

-----------------------------------------------------------------------------
(* The theorems                                                              *)

LEMMA CheckoutStarts == CheckoutInit => PlacesInv
<1> SUFFICES ASSUME CheckoutInit PROVE PlacesInv
  OBVIOUS
<1>1. Rows = {} /\ Sold = {} /\ late = {}
  BY DEF CheckoutInit, Rows, Sold
<1>2. CheckoutTypeOK
  BY DEF CheckoutInit, CheckoutTypeOK, Clock
<1>3. PlacesHeld
  BY <1>1, FS_EmptySet, CheckoutAssumption DEF PlacesHeld
<1>4. QED
  BY <1>1, <1>2, <1>3 DEF PlacesInv, OpenReserved, SweptRanOut, LatePaid

LEMMA CheckoutKeeps == PlacesInv /\ [CheckoutNext]_checkoutVars => PlacesInv'
<1> SUFFICES ASSUME PlacesInv, [CheckoutNext]_checkoutVars PROVE PlacesInv'
  OBVIOUS
<1>1. ASSUME NEW u \in Customers, NEW agreed \in BOOLEAN, Start(u, agreed) PROVE PlacesInv'
  BY <1>1, CheckoutStarted
<1>2. ASSUME NEW a \in Checkouts,
             AskProvider(a) \/ Record(a) \/ Passes(a) \/ Buy(a) \/ SubscriptionEnds(a)
      PROVE  PlacesInv'
  BY <1>2, Around
<1>3. ASSUME NEW a \in Checkouts, OrderCreated(a) \/ SubscriptionCreated(a) PROVE PlacesInv'
  BY <1>3, Paired
<1>4. CASE UNCHANGED checkoutVars
  BY <1>4 DEF checkoutVars, PlacesInv, CheckoutTypeOK, OpenReserved, SweptRanOut, LatePaid, PlacesHeld,
              Sold, Rows, Founder, Status
<1>5. QED
  BY <1>1, <1>2, <1>3, <1>4 DEF CheckoutNext

(* The tables of the checkout keep their types.                              *)
THEOREM CheckoutTypes == CheckoutSpec => []CheckoutTypeOK
<1>1. PlacesInv => CheckoutTypeOK
  BY DEF PlacesInv
<1>2. QED
  BY <1>1, CheckoutStarts, CheckoutKeeps, PTL DEF CheckoutSpec

(* A founder place is counted without a gap from its reservation to the end  *)
(* of its subscription: no more are sold than there are, but for orders that *)
(* were paired after their place was given up.                               *)
THEOREM PlacesAreHeld == CheckoutSpec => []PlacesHeld
<1>1. PlacesInv => PlacesHeld
  BY DEF PlacesInv
<1>2. QED
  BY <1>1, CheckoutStarts, CheckoutKeeps, PTL DEF CheckoutSpec

-----------------------------------------------------------------------------
(* Costs                                                                     *)

(* Calls that were checked and have not been charged.                        *)
Sending == {p \in Collectors : collector[p] # NoRow /\ collector[p].at \in {"probe", "sent"}}

(* What is charged covers what is billed for answers, and what a repair would*)
(* take back; a request that brought no answer cost a price at most.         *)
Covers ==
  /\ billed + refusedRows * Estimate <= booked + silent * Price
  /\ refusedRows * Estimate <= booked

(* What is charged leaves room for the calls in flight.                      *)
LeavesRoom ==
  booked + Cardinality(Sending) * Price <= CapLast - Estimate + Cardinality(Collectors) * Price

(* A call in flight is one more than were answered.                          *)
PaidRoom == \A p \in Sending : collector[p].paid < MaxPaid

BudgetInv == CostsTypeOK /\ PaidRoom /\ Covers /\ LeavesRoom

-----------------------------------------------------------------------------
(* Products of natural numbers                                               *)

LEMMA ProductType == \A n, k \in Nat : n * k \in Nat
  OBVIOUS

LEMMA ProductGrows == ASSUME NEW m \in Nat, NEW n \in Nat, NEW k \in Nat, m <= n
                      PROVE m * k <= n * k
  OBVIOUS

LEMMA ProductSum == ASSUME NEW m \in Nat, NEW n \in Nat, NEW k \in Nat
                    PROVE (m + n) * k = m * k + n * k
  OBVIOUS

LEMMA OneMore == ASSUME NEW n \in Nat, NEW k \in Nat
                 PROVE (n + 1) * k = n * k + k
  OBVIOUS

(* Two sums, of a bill and of a ledger that covers it.                       *)
LEMMA SumBilled ==
  ASSUME NEW bill \in Nat, NEW old \in Nat, NEW cost \in Nat, NEW before \in Nat, NEW more \in Nat,
         bill <= old + cost + more
  PROVE  bill + before <= old + cost + (before + more)
  OBVIOUS

LEMMA SumCovered ==
  ASSUME NEW bill \in Nat, NEW old \in Nat, NEW cost \in Nat, NEW sum \in Nat, NEW ledger \in Nat,
         NEW back \in Nat, NEW before \in Nat, NEW after \in Nat,
         old + back <= ledger + before, bill + before <= old + cost + after
  PROVE  /\ cost <= sum => bill + back <= (ledger + sum) + after
         /\ cost = 0 => bill + (back + sum) <= (ledger + sum) + after
  OBVIOUS

LEMMA SumUnpaid ==
  ASSUME NEW bill \in Nat, NEW old \in Nat, NEW ledger \in Nat, NEW back \in Nat,
         NEW before \in Nat, NEW after \in Nat,
         old + back <= ledger + before, bill + before <= old + 0 + after
  PROVE  bill + back <= ledger + after
  OBVIOUS

-----------------------------------------------------------------------------
(* The calls in flight are counted.                                          *)
LEMMA FlightCount ==
  /\ IsFiniteSet(Sending) /\ IsFiniteSet(Sending')
  /\ Cardinality(Collectors) \in Nat
  /\ Cardinality(Sending) \in Nat /\ Cardinality(Sending) <= Cardinality(Collectors)
  /\ Cardinality(Sending') \in Nat /\ Cardinality(Sending') <= Cardinality(Collectors)
  BY FS_CardinalityType, FS_Subset, CostsAssumption DEF Sending

(* The constants are numbers.                                                *)
LEMMA Numbers ==
  /\ CapDay \in Nat /\ CapLast \in Nat /\ Price \in Nat /\ Estimate \in Nat
  /\ MaxPaid \in Nat /\ MaxStamps \in Nat /\ LastWeek \in Nat /\ LastHour \in Nat
  /\ MaxKills \in Nat /\ Backlog \in Nat /\ Retries \in Nat
  BY CostsAssumption

(* A bill is covered by what the answer cost and the requests before it.     *)
LEMMA Billed ==
  ASSUME CostsTypeOK, NEW cost \in Nat, NEW n \in Nat, Bills(cost, n)
  PROVE  /\ billed' \in Nat /\ silent' \in Nat
         /\ silent * Price \in Nat /\ silent' * Price \in Nat
         /\ billed' + silent * Price <= billed + cost + silent' * Price
<1>1. silent \in Nat /\ billed \in Nat /\ silent' = silent + n
  BY DEF Bills, CostsTypeOK
<1> DEFINE before == silent * Price
           more == n * Price
<1>2. silent' * Price = before + more
  BY <1>1, ProductSum, Numbers
<1>3. before \in Nat /\ more \in Nat
  BY <1>1, ProductType, Numbers
<1>4. PICK unheard \in 0..more : billed' = billed + cost + unheard
  BY DEF Bills
<1> HIDE DEF before, more
<1>5. billed' \in Nat /\ billed' <= billed + cost + more
  BY <1>1, <1>4, <1>3
<1>6. billed' + before <= billed + cost + (before + more)
  BY <1>1, <1>5, <1>3, SumBilled
<1>7. QED
  BY <1>1, <1>2, <1>5, <1>6, <1>3 DEF before

(* A step that lets nobody in and charges nothing keeps the room.            *)
LEMMA QuietStep ==
  ASSUME LeavesRoom, booked \in Nat, booked' \in Nat, booked' <= booked, Sending' \subseteq Sending
  PROVE  LeavesRoom'
<1> DEFINE n == Cardinality(Sending)
           m == Cardinality(Sending')
           c == Cardinality(Collectors)
<1>1. n \in Nat /\ m \in Nat /\ c \in Nat
  BY FlightCount
<1>2. m <= n
  BY FlightCount, FS_Subset
<1>3. m * Price <= n * Price /\ m * Price \in Nat /\ n * Price \in Nat /\ c * Price \in Nat
  BY <1>1, <1>2, ProductGrows, ProductType, Numbers
<1>4. booked + n * Price <= CapLast - Estimate + c * Price
  BY DEF LeavesRoom
<1> HIDE DEF n, m, c
<1>5. booked' + m * Price <= CapLast - Estimate + c * Price
  BY <1>3, <1>4, Numbers
<1>6. QED
  BY <1>5 DEF LeavesRoom, m, c

(* A call that is let in was affordable when it was checked.                 *)
LEMMA AdmitStep ==
  ASSUME CostsTypeOK, booked' = booked, Affordable(Estimate)
  PROVE  LeavesRoom'
<1> DEFINE m == Cardinality(Sending')
           c == Cardinality(Collectors)
<1>1. m \in Nat /\ c \in Nat /\ m <= c
  BY FlightCount
<1>2. m * Price <= c * Price /\ m * Price \in Nat /\ c * Price \in Nat
  BY <1>1, ProductGrows, ProductType, Numbers
<1>3. booked <= CapLast - Estimate
  BY CostsAssumption, Numbers DEF CostsTypeOK, Affordable, DayCap
<1> HIDE DEF m, c
<1>4. booked + m * Price <= CapLast - Estimate + c * Price
  BY <1>2, <1>3, Numbers DEF CostsTypeOK
<1>5. QED
  BY <1>4 DEF LeavesRoom, m, c

(* A call that is charged leaves the flight, and costs no more than one.     *)
LEMMA ChargeStep ==
  ASSUME LeavesRoom, booked \in Nat, NEW sum \in 0..Price, booked' = booked + sum,
         NEW p \in Sending, Sending' \subseteq Sending \ {p}
  PROVE  LeavesRoom'
<1> DEFINE n == Cardinality(Sending)
           m == Cardinality(Sending')
           c == Cardinality(Collectors)
<1>1. n \in Nat /\ m \in Nat /\ c \in Nat
  BY FlightCount
<1>2. m + 1 <= n
  <2>1. IsFiniteSet(Sending \ {p}) /\ Cardinality(Sending \ {p}) = n - 1
    BY FlightCount, FS_RemoveElement
  <2>2. m <= Cardinality(Sending \ {p})
    BY <2>1, FS_Subset
  <2>3. QED
    BY <2>1, <2>2, <1>1
<1>3. /\ (m + 1) * Price <= n * Price /\ (m + 1) * Price = m * Price + Price
      /\ m * Price \in Nat /\ n * Price \in Nat /\ c * Price \in Nat
  BY <1>1, <1>2, ProductGrows, ProductType, OneMore, Numbers
<1>4. booked + n * Price <= CapLast - Estimate + c * Price
  BY DEF LeavesRoom
<1> HIDE DEF n, m, c
<1>5. booked + sum + m * Price <= CapLast - Estimate + c * Price
  BY <1>3, <1>4, Numbers
<1>6. QED
  BY <1>5 DEF LeavesRoom, m, c

-----------------------------------------------------------------------------
(* The steps of a run                                                        *)

(* A process that changes nothing but its row, or ends, is let in nowhere.   *)
LEMMA RowStep ==
  ASSUME CostsTypeOK, PaidRoom, NEW p \in Collectors, NEW r \in Run \cup {NoRow},
         collector' = [collector EXCEPT ![p] = r],
         r = NoRow \/ r.at \notin {"probe", "sent"}
  PROVE  /\ collector' \in [Collectors -> Run \cup {NoRow}]
         /\ Sending' = Sending \ {p} /\ PaidRoom'
  BY DEF CostsTypeOK, PaidRoom, Sending

(* Rows keep their type.                                                     *)
LEMMA RowType ==
  ASSUME NEW r \in Run, NEW to \in {"count", "reserve", "check", "probe", "sent"}
  PROVE  /\ [r EXCEPT !.at = to] \in Run /\ [r EXCEPT !.at = to].at = to
         /\ [r EXCEPT !.spent = TRUE] \in Run /\ [r EXCEPT !.spent = TRUE].at = r.at
         /\ [r EXCEPT !.spent = TRUE].paid = r.paid
  BY DEF Run

(* A place that goes back leaves a counter.                                  *)
LEMMA BackType ==
  ASSUME CostsTypeOK, NEW p \in Collectors
  PROVE  GivenBack(p) \in [Weeks -> Nat]
  BY DEF GivenBack, CostsTypeOK

(* Steps before the first check, and the end of a run.                       *)
LEMMA Unpaid ==
  ASSUME BudgetInv, NEW p \in Collectors,
         BeginRun(p) \/ SeeCount(p) \/ ReserveRun(p) \/ RunDone(p)
  PROVE  BudgetInv'
<1>1. /\ collector' \in [Collectors -> Run \cup {NoRow}]
      /\ Sending' = Sending \ {p} /\ PaidRoom'
  <2>1. CASE BeginRun(p)
    <3> DEFINE r == [at |-> "count", week |-> week, spent |-> FALSE, stamp |-> 0,
                     probes |-> FALSE, paid |-> 0]
    <3>1. r \in Run /\ r.at = "count"
      BY Numbers DEF BudgetInv, CostsTypeOK, Run
    <3>2. collector' = [collector EXCEPT ![p] = r]
      BY <2>1 DEF BeginRun
    <3> HIDE DEF r
    <3>3. QED
      BY <3>1, <3>2, RowStep DEF BudgetInv
  <2>2. CASE SeeCount(p)
    <3>1. collector[p] \in Run
      BY <2>2 DEF SeeCount, BudgetInv, CostsTypeOK
    <3>2. CASE Ends(p)
      BY <3>2, RowStep DEF Ends, BudgetInv
    <3>3. CASE ~(runCount[week] >= RunLimit)
      <4> DEFINE r == [collector[p] EXCEPT !.at = "reserve", !.week = week]
      <4>1. r \in Run /\ r.at = "reserve"
        BY <3>1 DEF Run, BudgetInv, CostsTypeOK
      <4>2. collector' = [collector EXCEPT ![p] = r]
        BY <2>2, <3>3 DEF SeeCount
      <4> HIDE DEF r
      <4>3. QED
        BY <4>1, <4>2, RowStep DEF BudgetInv
    <3>4. QED
      BY <2>2, <3>2, <3>3 DEF SeeCount
  <2>3. CASE ReserveRun(p)
    <3>1. collector[p] \in Run
      BY <2>3 DEF ReserveRun, BudgetInv, CostsTypeOK
    <3>2. collector' = [collector EXCEPT ![p] = [collector[p] EXCEPT !.at = "check"]]
      BY <2>3 DEF ReserveRun, MovesTo
    <3>3. QED
      BY <3>1, <3>2, RowType, RowStep DEF BudgetInv
  <2>4. CASE RunDone(p)
    BY <2>4, RowStep DEF RunDone, Ends, BudgetInv
  <2>5. QED
    BY <2>1, <2>2, <2>3, <2>4
<1>2. runCount' \in [Weeks -> Nat]
  <2>1. CASE ReserveRun(p)
    <3>1. collector[p].week \in Nat /\ Weeks \subseteq Nat
      BY <2>1 DEF ReserveRun, BudgetInv, CostsTypeOK, Run, Weeks
    <3>2. QED
      BY <2>1, <3>1 DEF ReserveRun, BudgetInv, CostsTypeOK
  <2>2. CASE ~ReserveRun(p)
    BY <2>2 DEF BeginRun, SeeCount, RunDone, BudgetInv, CostsTypeOK
  <2>3. QED
    BY <2>1, <2>2
<1>3. UNCHANGED <<week, hour, booked, refusedRows, billed, silent, creditRow, stamps, backlog, kills>>
  BY DEF BeginRun, SeeCount, ReserveRun, RunDone
<1>4. CostsTypeOK' /\ Covers'
  BY <1>1, <1>2, <1>3 DEF BudgetInv, CostsTypeOK, Covers
<1>5. LeavesRoom'
  BY <1>1, <1>3, QuietStep DEF BudgetInv, CostsTypeOK
<1>6. QED
  BY <1>1, <1>4, <1>5 DEF BudgetInv

(* The check before a call, and the exchange of the credit row.              *)
LEMMA Admitted ==
  ASSUME BudgetInv, NEW p \in Collectors, CheckBudget(p)
  PROVE  BudgetInv'
<1>1. collector[p] \in Run /\ collector[p].at = "check" /\ collector[p].paid < MaxPaid
  BY DEF CheckBudget, BudgetInv, CostsTypeOK
<1>2. UNCHANGED <<week, hour, booked, refusedRows, billed, silent, creditRow, stamps, backlog, kills>>
  BY DEF CheckBudget
<1>3. CASE Ends(p) /\ runCount' = GivenBack(p)
  <2>1. /\ collector' \in [Collectors -> Run \cup {NoRow}]
        /\ Sending' = Sending \ {p} /\ PaidRoom'
    BY <1>3, RowStep DEF Ends, BudgetInv
  <2>2. CostsTypeOK' /\ Covers'
    BY <1>2, <1>3, <2>1, BackType DEF BudgetInv, CostsTypeOK, Covers
  <2>3. QED
    BY <1>2, <2>1, <2>2, QuietStep DEF BudgetInv, CostsTypeOK
<1>4. CASE ~(Ends(p) /\ runCount' = GivenBack(p))
  <2>1. /\ Affordable(Estimate) /\ runCount' = runCount
        /\ collector' = [collector EXCEPT ![p].at = IF creditRow = NoRow THEN "sent" ELSE "probe",
                                          ![p].stamp = IF creditRow = NoRow THEN 0 ELSE creditRow.stamp,
                                          ![p].probes = FALSE]
    BY <1>4 DEF CheckBudget
  <2>2. (IF creditRow = NoRow THEN 0 ELSE creditRow.stamp) \in 0..MaxStamps
    BY Numbers DEF BudgetInv, CostsTypeOK
  <2> DEFINE stamp == IF creditRow = NoRow THEN 0 ELSE creditRow.stamp
             to == IF creditRow = NoRow THEN "sent" ELSE "probe"
             r == [collector[p] EXCEPT !.at = to, !.stamp = stamp, !.probes = FALSE]
  <2>3. collector' = [collector EXCEPT ![p] = r]
    BY <2>1
  <2>4. stamp \in 0..MaxStamps /\ to \in {"probe", "sent"}
    BY <2>2
  <2> HIDE DEF stamp, to
  <2>5. r \in Run /\ r.paid = collector[p].paid
    BY <1>1, <2>4 DEF Run
  <2> HIDE DEF r
  <2>6. collector' \in [Collectors -> Run \cup {NoRow}]
    BY <2>3, <2>5 DEF BudgetInv, CostsTypeOK
  <2>7. PaidRoom'
    BY <1>1, <2>3, <2>5 DEF BudgetInv, CostsTypeOK, PaidRoom, Sending
  <2>8. CostsTypeOK' /\ Covers'
    BY <1>2, <2>1, <2>6 DEF BudgetInv, CostsTypeOK, Covers
  <2>9. LeavesRoom'
    BY <1>2, <2>1, AdmitStep DEF BudgetInv
  <2>10. QED
    BY <2>7, <2>8, <2>9 DEF BudgetInv
<1>5. QED
  BY <1>3, <1>4

(* A stamp is the next number.                                               *)
LEMMA StampType ==
  ASSUME CostsTypeOK, Stamps
  PROVE  /\ creditRow' \in [hour : Hours, stamp : 1..MaxStamps] \cup {NoRow}
         /\ stamps' \in 0..MaxStamps
  BY Numbers DEF Stamps, CostsTypeOK

LEMMA Probed ==
  ASSUME BudgetInv, NEW p \in Collectors, Probe(p)
  PROVE  BudgetInv'
<1>1. collector[p] \in Run /\ collector[p] # NoRow /\ collector[p].at = "probe"
  BY DEF Probe, BudgetInv, CostsTypeOK
<1>2. UNCHANGED <<week, hour, booked, refusedRows, billed, silent, backlog, kills>>
  BY DEF Probe
<1>3. /\ collector' \in [Collectors -> Run \cup {NoRow}]
      /\ Sending' \subseteq Sending /\ PaidRoom'
  <2>1. CASE Ends(p)
    BY <2>1, RowStep DEF Ends, BudgetInv
  <2>2. CASE ~Ends(p)
    <3> DEFINE r == [collector[p] EXCEPT !.at = "sent", !.probes = TRUE]
    <3>1. r \in Run /\ r.paid = collector[p].paid
      BY <1>1 DEF Run
    <3>2. collector' = [collector EXCEPT ![p] = r]
      BY <2>2 DEF Probe
    <3> HIDE DEF r
    <3>3. QED
      BY <1>1, <3>1, <3>2 DEF BudgetInv, CostsTypeOK, PaidRoom, Sending
  <2>3. QED
    BY <2>1, <2>2
<1>4. /\ runCount' \in [Weeks -> Nat]
      /\ creditRow' \in [hour : Hours, stamp : 1..MaxStamps] \cup {NoRow}
      /\ stamps' \in 0..MaxStamps
  BY BackType, StampType DEF Probe, BudgetInv, CostsTypeOK
<1>5. CostsTypeOK' /\ Covers'
  BY <1>2, <1>3, <1>4 DEF BudgetInv, CostsTypeOK, Covers
<1>6. LeavesRoom'
  BY <1>2, <1>3, QuietStep DEF BudgetInv, CostsTypeOK
<1>7. QED
  BY <1>3, <1>5, <1>6 DEF BudgetInv

(* A row of the ledger marks every run and takes its own out of the flight.  *)
LEMMA ChargedRows ==
  ASSUME BudgetInv, NEW p \in Collectors, Sent(p), NEW sum \in Nat, Charges(p, sum, "check")
  PROVE  /\ collector' \in [Collectors -> Run \cup {NoRow}]
         /\ p \in Sending /\ Sending' \subseteq Sending \ {p} /\ PaidRoom'
<1>1. p \in Sending /\ collector[p] \in Run /\ collector[p].paid < MaxPaid
  BY DEF Sent, BudgetInv, CostsTypeOK, PaidRoom, Sending
<1>2. ASSUME NEW q \in Collectors, collector[q] # NoRow
      PROVE  /\ collector'[q] \in Run
             /\ q = p => collector'[q].at = "check"
             /\ q # p => /\ collector'[q].at = collector[q].at
                         /\ collector'[q].paid = collector[q].paid
  <2>1. collector[q] \in Run
    BY <1>2 DEF BudgetInv, CostsTypeOK
  <2>2. collector'[q] = [collector[q] EXCEPT !.spent = TRUE, !.at = IF q = p THEN "check" ELSE @,
                                             !.paid = IF q = p THEN @ + 1 ELSE @]
    BY <1>2 DEF Charges
  <2>3. CASE q = p
    <3>1. collector'[q] = [collector[q] EXCEPT !.spent = TRUE, !.at = "check",
                                               !.paid = collector[q].paid + 1]
      BY <2>1, <2>2, <2>3 DEF Run
    <3>2. collector[q].paid + 1 \in 0..MaxPaid
      BY <2>1, <2>3, <1>1, Numbers DEF Run
    <3>3. QED
      BY <2>1, <2>3, <3>1, <3>2 DEF Run
  <2>4. CASE q # p
    BY <2>1, <2>2, <2>4 DEF Run
  <2>5. QED
    BY <2>3, <2>4
<1>3. \A q \in Collectors : collector[q] = NoRow => collector'[q] = NoRow
  BY DEF Charges
<1>4. collector' \in [Collectors -> Run \cup {NoRow}]
  <2>1. \A q \in Collectors : collector'[q] \in Run \cup {NoRow}
    BY <1>2, <1>3
  <2>2. \E f \in {collector'} : collector' = [q \in Collectors |-> f[q]]
    BY DEF Charges
  <2>3. QED
    BY <2>1, <2>2
<1>5. Sending' \subseteq Sending \ {p} /\ PaidRoom'
  BY <1>2, <1>3 DEF BudgetInv, PaidRoom, Sending
<1>6. QED
  BY <1>1, <1>4, <1>5

(* A call that answered, failed or was refused.                              *)
LEMMA CostsCharged ==
  ASSUME BudgetInv, NEW p \in Collectors, Answered(p) \/ CallFailed(p) \/ CallRefused(p)
  PROVE  BudgetInv'
<1>1. Sent(p)
  BY DEF Answered, CallFailed, CallRefused
<1>2. PICK sum \in 1..Price, cost \in 0..Price, n \in Nat :
        /\ Charges(p, sum, "check") /\ Bills(cost, n) /\ cost <= sum
        /\ \/ refusedRows' = refusedRows
           \/ refusedRows' = refusedRows + 1 /\ sum = Estimate /\ cost = 0
  <2>1. Estimate \in 1..Price
    BY CostsAssumption
  <2>2. CASE Answered(p)
    BY <2>2, Numbers DEF Answered
  <2>3. CASE CallFailed(p)
    BY <2>1, <2>3, Numbers DEF CallFailed
  <2>4. CASE CallRefused(p)
    BY <2>1, <2>4, Numbers DEF CallRefused
  <2>5. QED
    BY <2>2, <2>3, <2>4
<1>3. sum \in Nat /\ cost \in Nat /\ sum \in 0..Price
  BY Numbers
<1>4. booked' = booked + sum
  BY <1>2 DEF Charges
<1>5. /\ collector' \in [Collectors -> Run \cup {NoRow}]
      /\ p \in Sending /\ Sending' \subseteq Sending \ {p} /\ PaidRoom'
  BY <1>1, <1>2, <1>3, ChargedRows
<1>6. /\ UNCHANGED <<week, hour, stamps, runCount, backlog, kills>>
      /\ creditRow' \in {creditRow, NoRow}
  BY DEF Answered, CallFailed, CallRefused
<1>7. /\ billed' \in Nat /\ silent' \in Nat
       /\ silent * Price \in Nat /\ silent' * Price \in Nat
       /\ billed' + silent * Price <= billed + cost + silent' * Price
  BY <1>2, <1>3, Billed DEF BudgetInv
<1>8. CostsTypeOK'
  BY <1>2, <1>3, <1>4, <1>5, <1>6, <1>7 DEF BudgetInv, CostsTypeOK
<1>9. Covers'
  <2> DEFINE before == silent * Price
             after == silent' * Price
             back == refusedRows * Estimate
  <2>1. Estimate \in Nat /\ booked \in Nat /\ billed \in Nat /\ refusedRows \in Nat
    BY Numbers DEF BudgetInv, CostsTypeOK
  <2>2. back \in Nat /\ (refusedRows + 1) * Estimate = back + Estimate
    BY <2>1, ProductType, OneMore
  <2>3. billed + back <= booked + before
    BY DEF BudgetInv, Covers
  <2>4. before \in Nat /\ after \in Nat /\ billed' + before <= billed + cost + after
    BY <1>7
  <2>5. billed' \in Nat
    BY <1>7
  <2>6. \/ cost <= sum /\ refusedRows' * Estimate = back
        \/ cost = 0 /\ sum = Estimate /\ refusedRows' * Estimate = back + Estimate
    BY <1>2, <2>2
  <2> HIDE DEF before, after, back
  <2>7. billed' + refusedRows' * Estimate <= booked' + after
    <3>1. CASE cost <= sum /\ refusedRows' * Estimate = back
      BY <1>3, <1>4, <2>1, <2>2, <2>3, <2>4, <2>5, <3>1, SumCovered
    <3>2. CASE cost = 0 /\ sum = Estimate /\ refusedRows' * Estimate = back + Estimate
      <4>1. billed' + (back + sum) <= (booked + sum) + after
        BY <1>3, <2>1, <2>2, <2>3, <2>4, <2>5, <3>2, SumCovered
      <4>2. QED
        BY <1>4, <3>2, <4>1
    <3>3. QED
      BY <2>6, <3>1, <3>2
  <2>8. QED
    <3>1. refusedRows' * Estimate <= booked'
      <4>1. back <= booked
        BY DEF BudgetInv, Covers, back
      <4>2. QED
        BY <1>3, <1>4, <2>1, <2>2, <2>6, <4>1
    <3>2. QED
      BY <2>7, <3>1 DEF Covers, after
<1>10. LeavesRoom'
  BY <1>3, <1>4, <1>5, ChargeStep DEF BudgetInv, CostsTypeOK
<1>11. QED
  BY <1>5, <1>8, <1>9, <1>10 DEF BudgetInv

(* A run whose credit is gone, or that is killed, is charged nothing.        *)
LEMMA Lost ==
  ASSUME BudgetInv, NEW p \in Collectors, CreditGone(p) \/ Killed(p)
  PROVE  BudgetInv'
<1>1. Ends(p) /\ UNCHANGED <<week, hour, booked, refusedRows, backlog>>
  BY DEF CreditGone, Killed
<1>2. /\ collector' \in [Collectors -> Run \cup {NoRow}]
      /\ Sending' = Sending \ {p} /\ PaidRoom'
  BY <1>1, RowStep DEF Ends, BudgetInv
<1>3. PICK n \in Nat : Bills(0, n)
  <2>1. CASE CreditGone(p)
    BY <2>1, Numbers DEF CreditGone
  <2>2. CASE Killed(p)
    BY <2>2, Numbers DEF Killed
  <2>3. QED
    BY <2>1, <2>2
<1>4. /\ runCount' \in [Weeks -> Nat] /\ kills' \in 0..MaxKills
      /\ creditRow' \in [hour : Hours, stamp : 1..MaxStamps] \cup {NoRow}
      /\ stamps' \in 0..MaxStamps
  BY BackType, StampType, Numbers DEF CreditGone, Killed, BudgetInv, CostsTypeOK
<1>5. /\ billed' \in Nat /\ silent' \in Nat
      /\ silent * Price \in Nat /\ silent' * Price \in Nat
      /\ billed' + silent * Price <= billed + 0 + silent' * Price
  BY <1>3, Billed DEF BudgetInv
<1>6. CostsTypeOK'
  BY <1>1, <1>2, <1>4, <1>5 DEF BudgetInv, CostsTypeOK
<1>7. Covers'
  <2> DEFINE before == silent * Price
             after == silent' * Price
             back == refusedRows * Estimate
  <2>1. back \in Nat /\ booked \in Nat /\ billed \in Nat
    BY ProductType, Numbers DEF BudgetInv, CostsTypeOK
  <2>2. billed + back <= booked + before
    BY DEF BudgetInv, Covers
  <2>3. before \in Nat /\ after \in Nat /\ billed' + before <= billed + 0 + after
    BY <1>5
  <2>4. billed' \in Nat
    BY <1>5
  <2> HIDE DEF before, after, back
  <2>5. billed' + back <= booked + after
    BY <2>1, <2>2, <2>3, <2>4, SumUnpaid
  <2>6. QED
    BY <1>1, <2>5 DEF Covers, BudgetInv, after, back
<1>8. LeavesRoom'
  BY <1>1, <1>2, QuietStep DEF BudgetInv, CostsTypeOK
<1>9. QED
  BY <1>2, <1>8, <1>6, <1>7 DEF BudgetInv

-----------------------------------------------------------------------------
(* The steps around the runs                                                 *)

(* A repair takes back what the refused rows put in, and no more.            *)
LEMMA Repaired == ASSUME BudgetInv, RepairLedger PROVE BudgetInv'
<1>1. /\ collector' \in [Collectors -> Run \cup {NoRow}]
      /\ Sending' \subseteq Sending /\ PaidRoom'
  <2>1. ASSUME NEW q \in Collectors, collector[q] # NoRow
        PROVE  /\ collector'[q] \in Run /\ collector'[q].at = collector[q].at
               /\ collector'[q].paid = collector[q].paid
    <3>1. collector[q] \in Run /\ collector'[q] = [collector[q] EXCEPT !.spent = TRUE]
      BY <2>1 DEF RepairLedger, BudgetInv, CostsTypeOK
    <3>2. QED
      BY <3>1 DEF Run
  <2>2. \A q \in Collectors : collector[q] = NoRow => collector'[q] = NoRow
    BY DEF RepairLedger
  <2>3. collector' \in [Collectors -> Run \cup {NoRow}]
    <3>1. \A q \in Collectors : collector'[q] \in Run \cup {NoRow}
      BY <2>1, <2>2
    <3>2. collector' = [q \in Collectors |-> collector'[q]]
      BY DEF RepairLedger
    <3>3. QED
      BY <3>1, <3>2
  <2>4. Sending' \subseteq Sending
    BY <2>1, <2>2 DEF Sending
  <2>5. PaidRoom'
    BY <2>1, <2>2 DEF BudgetInv, PaidRoom, Sending
  <2>6. QED
    BY <2>3, <2>4, <2>5
<1>2. booked' = booked - refusedRows * Estimate /\ refusedRows' = 0
  BY DEF RepairLedger
<1>3. refusedRows * Estimate \in Nat /\ 0 * Estimate = 0
  BY ProductType, Numbers DEF BudgetInv, CostsTypeOK
<1>4. UNCHANGED <<week, hour, billed, silent, creditRow, stamps, backlog, kills>>
  BY DEF RepairLedger
<1>5. booked' \in Nat /\ booked' <= booked
  BY <1>2, <1>3 DEF BudgetInv, CostsTypeOK, Covers
<1>6. CostsTypeOK'
  <2>1. runCount' \in [Weeks -> Nat]
    BY DEF RepairLedger, BudgetInv, CostsTypeOK
  <2>2. QED
    BY <1>1, <1>2, <1>4, <1>5, <2>1 DEF BudgetInv, CostsTypeOK
<1>7. Covers'
  <2> DEFINE back == refusedRows * Estimate
             unheard == silent * Price
  <2>1. back \in Nat /\ unheard \in Nat /\ billed \in Nat /\ booked \in Nat
    BY ProductType, Numbers DEF BudgetInv, CostsTypeOK
  <2>2. billed + back <= booked + unheard /\ booked' = booked - back
    BY <1>2 DEF BudgetInv, Covers
  <2>3. refusedRows' * Estimate = 0
    BY <1>2, <1>3
  <2> HIDE DEF back, unheard
  <2>4. billed + 0 <= booked' + unheard
    BY <2>1, <2>2
  <2>5. QED
    BY <1>4, <1>5, <2>3, <2>4 DEF Covers, unheard
<1>8. LeavesRoom'
  BY <1>1, <1>5, QuietStep DEF BudgetInv, CostsTypeOK
<1>9. QED
  BY <1>1, <1>6, <1>7, <1>8 DEF BudgetInv

(* A job that ends, an hour, a week.                                         *)
LEMMA TimePasses == ASSUME BudgetInv, JobFinished \/ HourPasses \/ NextWeek PROVE BudgetInv'
<1>1. /\ UNCHANGED <<creditRow, stamps, runCount, collector, kills>>
      /\ \/ UNCHANGED <<booked, refusedRows, billed, silent>>
         \/ booked' = 0 /\ refusedRows' = 0 /\ billed' = 0 /\ silent' = 0
  BY DEF JobFinished, HourPasses, NextWeek
<1>2. week' \in Weeks /\ hour' \in Hours /\ backlog' \in 0..Backlog
  <2>1. week \in 0..LastWeek /\ hour \in 0..LastHour /\ backlog \in 0..Backlog
    BY DEF BudgetInv, CostsTypeOK, Weeks, Hours
  <2>2. CASE JobFinished
    BY <2>1, <2>2, Numbers DEF JobFinished, Weeks, Hours
  <2>3. CASE HourPasses
    BY <2>1, <2>3, Numbers DEF HourPasses, Weeks, Hours
  <2>4. CASE NextWeek
    BY <2>1, <2>4, Numbers DEF NextWeek, Weeks, Hours
  <2>5. QED
    BY <2>2, <2>3, <2>4
<1>3. 0 * Estimate = 0 /\ 0 * Price = 0 /\ 0 \in Nat
  BY Numbers
<1>4. CostsTypeOK' /\ Covers'
  BY <1>1, <1>2, <1>3 DEF BudgetInv, CostsTypeOK, Covers
<1>5. Sending' = Sending /\ PaidRoom'
  BY <1>1 DEF Sending, PaidRoom, BudgetInv
<1>6. booked' <= booked
  BY <1>1 DEF BudgetInv, CostsTypeOK
<1>7. LeavesRoom'
  BY <1>4, <1>5, <1>6, QuietStep DEF BudgetInv, CostsTypeOK
<1>8. QED
  BY <1>4, <1>5, <1>7 DEF BudgetInv

-----------------------------------------------------------------------------
(* The theorems                                                              *)

LEMMA CostsStarts == CostsInit => BudgetInv
<1> SUFFICES ASSUME CostsInit PROVE BudgetInv
  OBVIOUS
<1>1. CostsTypeOK
  BY Numbers DEF CostsInit, CostsTypeOK, Weeks, Hours
<1>2. Sending = {}
  BY DEF CostsInit, Sending
<1>3. Covers /\ PaidRoom
  BY <1>2, Numbers DEF CostsInit, Covers, PaidRoom
<1>4. LeavesRoom
  <2> DEFINE c == Cardinality(Collectors)
  <2>1. Cardinality(Sending) = 0 /\ booked = 0
    BY <1>2, FS_EmptySet DEF CostsInit
  <2>2. 0 * Price = 0 /\ c * Price \in Nat
    BY FlightCount, ProductType, Numbers
  <2>3. Estimate <= CapLast
    BY CostsAssumption, Numbers
  <2> HIDE DEF c
  <2>4. 0 + 0 * Price <= CapLast - Estimate + c * Price
    BY <2>2, <2>3, Numbers
  <2>5. QED
    BY <2>1, <2>4 DEF LeavesRoom, c
<1>5. QED
  BY <1>1, <1>3, <1>4 DEF BudgetInv

LEMMA CostsKeeps == BudgetInv /\ [CostsNext]_costsVars => BudgetInv'
<1> SUFFICES ASSUME BudgetInv, [CostsNext]_costsVars PROVE BudgetInv'
  OBVIOUS
<1>1. ASSUME NEW p \in Collectors,
             \/ BeginRun(p) \/ SeeCount(p) \/ ReserveRun(p) \/ CheckBudget(p) \/ Probe(p)
             \/ Answered(p) \/ CallFailed(p) \/ CallRefused(p) \/ CreditGone(p) \/ RunDone(p)
             \/ Killed(p)
      PROVE  BudgetInv'
  BY <1>1, Unpaid, Admitted, Probed, CostsCharged, Lost
<1>2. CASE RepairLedger
  BY <1>2, Repaired
<1>3. CASE JobFinished \/ HourPasses \/ NextWeek
  BY <1>3, TimePasses
<1>4. CASE UNCHANGED costsVars
  <2>1. Sending' = Sending
    BY <1>4 DEF costsVars, Sending
  <2>2. QED
    BY <1>4, <2>1 DEF costsVars, BudgetInv, CostsTypeOK, PaidRoom, Covers, LeavesRoom
<1>5. QED
  BY <1>1, <1>2, <1>3, <1>4 DEF CostsNext

(* The ledger keeps its types, its counters their limits, and a repair takes *)
(* back no more than was charged.                                            *)
THEOREM CostsTypes == CostsSpec => []CostsTypeOK
<1>1. BudgetInv => CostsTypeOK
  BY DEF BudgetInv
<1>2. QED
  BY <1>1, CostsStarts, CostsKeeps, PTL DEF CostsSpec

LEMMA BilledInBudget == BudgetInv => BudgetHeld
<1> SUFFICES ASSUME BudgetInv PROVE BudgetHeld
  OBVIOUS
<1> DEFINE n == Cardinality(Sending)
           c == Cardinality(Collectors)
<1>1. /\ n * Price \in Nat /\ c * Price \in Nat /\ silent * Price \in Nat
      /\ refusedRows * Estimate \in Nat /\ (c + silent) * Price = c * Price + silent * Price
  BY FlightCount, ProductType, ProductSum, Numbers DEF BudgetInv, CostsTypeOK
<1> DEFINE unheard == silent * Price
           back == refusedRows * Estimate
<1>2. billed + back <= booked + unheard
  BY DEF BudgetInv, Covers
<1>3. booked + n * Price <= CapLast - Estimate + c * Price
  BY DEF BudgetInv, LeavesRoom
<1>4. unheard \in Nat /\ back \in Nat /\ billed \in Nat /\ booked \in Nat
  BY <1>1 DEF BudgetInv, CostsTypeOK
<1> DEFINE flying == n * Price
           each == c * Price
<1>5. flying \in Nat /\ each \in Nat /\ booked + flying <= CapLast - Estimate + each
  BY <1>1, <1>3
<1>6. (c + silent) * Price = each + unheard
  BY <1>1
<1> HIDE DEF n, c, unheard, back, flying, each
<1>7. billed <= CapLast - Estimate + (each + unheard)
  BY <1>2, <1>4, <1>5, Numbers
<1>8. QED
  BY <1>6, <1>7 DEF BudgetHeld, c

(* Whatever the collectors do at the same time, and whenever they are        *)
(* killed, the provider bills no more than the cap, one call of each, and one*)
(* price for each request that timed out, failed or lost its process: of     *)
(* those s_rozpoctom charges an estimate at most.                            *)
THEOREM BudgetIsHeld == CostsSpec => []BudgetHeld
  BY BilledInBudget, CostsStarts, CostsKeeps, PTL DEF CostsSpec

-----------------------------------------------------------------------------
(* Plans                                                                     *)

(* What an account has had of a day's plans, and what is being built for it. *)
Had(u, d) == made[u][d] + Cardinality(Charged(u, d))

(* Only corrections of today and before are kept.                            *)
RepairsPast == \A r \in repaired : r[2] <= day

(* An operation that takes a plan has read the day, and the limit it brings  *)
(* is at most that of Premium.                                               *)
WorkHeld ==
  \A u \in Eaters, k \in Kinds : work[u][k] # NoPlan =>
    /\ work[u][k].limit <= LimitPremium
    /\ work[u][k].at \in {"reserve", "build"} => work[u][k].day \in Days

UsedHeld == \A u \in Eaters, d \in Days : used[u][d] <= LimitPremium

(* The counter of a day covers what is due, but for the one plan that was    *)
(* given back for a corrected profile; on a day that is not over, such a     *)
(* correction is on record.                                                  *)
Covered(u, d) ==
  /\ Had(u, d) <= used[u][d] + 1
  /\ d >= day /\ <<u, d>> \notin repaired => Had(u, d) <= used[u][d]
Accounted == \A u \in Eaters \ gone, d \in Days \ swept : Covered(u, d)

PlanInv == PlanTypeOK /\ RepairsPast /\ WorkHeld /\ UsedHeld /\ Accounted

-----------------------------------------------------------------------------
(* Operations in flight                                                      *)

(* This row is charged to that day.                                          *)
Counts(r, d) == r # NoPlan /\ r.at = "build" /\ ~r.upgrade /\ r.day = d

LEMMA ChargedKinds ==
  \A u, d : /\ Charged(u, d) \subseteq Kinds /\ IsFiniteSet(Charged(u, d))
            /\ Cardinality(Charged(u, d)) \in Nat
<1>1. IsFiniteSet(Kinds)
  <2>1. Kinds = ({"regular"} \cup {"force"}) \cup {"pantry"}
    BY DEF Kinds
  <2>2. QED
    BY <2>1, FS_Singleton, FS_AddElement
<1>2. ASSUME NEW u, NEW d PROVE Charged(u, d) \subseteq Kinds
  BY DEF Charged
<1>3. QED
  BY <1>1, <1>2, FS_Subset, FS_CardinalityType

LEMMA DueNat ==
  ASSUME PlanTypeOK
  PROVE  \A u \in Eaters, d \in Days : /\ Had(u, d) \in Nat /\ made[u][d] \in Nat
                                       /\ used[u][d] \in Nat
  BY ChargedKinds DEF PlanTypeOK, Had

(* One operation is replaced.                                                *)
Replaces(u, k, r) == work' = [work EXCEPT ![u][k] = r]

LEMMA OneReplaced ==
  ASSUME PlanTypeOK, NEW u \in Eaters, NEW k \in Kinds, NEW r \in Work \cup {NoPlan},
         Replaces(u, k, r)
  PROVE  /\ work' \in [Eaters -> [Kinds -> Work \cup {NoPlan}]]
         /\ work'[u][k] = r
         /\ \A v \in Eaters, j \in Kinds : v # u \/ j # k => work'[v][j] = work[v][j]
  BY DEF PlanTypeOK, Replaces

LEMMA ChargedReplaced ==
  ASSUME PlanTypeOK, NEW u \in Eaters, NEW k \in Kinds, NEW r \in Work \cup {NoPlan},
         Replaces(u, k, r), NEW v \in Eaters, NEW d \in Days
  PROVE  Charged(v, d)' = IF v # u THEN Charged(v, d)
                          ELSE IF Counts(r, d) THEN Charged(v, d) \cup {k} ELSE Charged(v, d) \ {k}
<1> DEFINE C == Charged(v, d)
           D == Charged(v, d)'
<1>1. \A j \in Kinds : j \in C <=> Counts(work[v][j], d)
  BY DEF Charged, Counts
<1>2. \A j \in Kinds : j \in D <=> Counts(work'[v][j], d)
  BY DEF Charged, Counts
<1>3. C \subseteq Kinds /\ D \subseteq Kinds
  BY DEF Charged
<1>4. /\ work'[u][k] = r
      /\ \A j \in Kinds : v # u \/ j # k => work'[v][j] = work[v][j]
  BY OneReplaced
<1> HIDE DEF C, D
<1>5. \A j \in Kinds : v # u \/ j # k => (j \in D <=> j \in C)
  BY <1>1, <1>2, <1>4
<1>6. v = u => (k \in D <=> Counts(r, d))
  BY <1>2, <1>4
<1>7. D = IF v # u THEN C ELSE IF Counts(r, d) THEN C \cup {k} ELSE C \ {k}
  BY <1>3, <1>5, <1>6
<1>8. QED
  BY <1>7 DEF C, D

LEMMA ChargedCount ==
  ASSUME PlanTypeOK, NEW u \in Eaters, NEW k \in Kinds, NEW r \in Work \cup {NoPlan},
         Replaces(u, k, r), NEW v \in Eaters, NEW d \in Days
  PROVE  /\ Cardinality(Charged(v, d)) \in Nat /\ Cardinality(Charged(v, d)') \in Nat
         /\ Cardinality(Charged(v, d)') =
              Cardinality(Charged(v, d))
                + (IF v = u /\ Counts(r, d) THEN 1 ELSE 0)
                - (IF v = u /\ Counts(work[u][k], d) THEN 1 ELSE 0)
<1>1. Charged(v, d)' = IF v # u THEN Charged(v, d)
                       ELSE IF Counts(r, d) THEN Charged(v, d) \cup {k} ELSE Charged(v, d) \ {k}
  BY ChargedReplaced
<1>2. v = u => (k \in Charged(v, d) <=> Counts(work[u][k], d))
  BY DEF Charged, Counts
<1>3. IsFiniteSet(Charged(v, d)) /\ Cardinality(Charged(v, d)) \in Nat
  BY ChargedKinds
<1>4. /\ Cardinality(Charged(v, d) \cup {k})
           = IF k \in Charged(v, d) THEN Cardinality(Charged(v, d)) ELSE Cardinality(Charged(v, d)) + 1
      /\ Cardinality(Charged(v, d) \ {k})
           = IF k \in Charged(v, d) THEN Cardinality(Charged(v, d)) - 1 ELSE Cardinality(Charged(v, d))
  BY <1>3, FS_AddElement, FS_RemoveElement
<1>5. Cardinality(Charged(v, d) \cup {k}) \in Nat /\ Cardinality(Charged(v, d) \ {k}) \in Nat
  BY <1>3, FS_AddElement, FS_RemoveElement, FS_CardinalityType
<1>6. QED
  BY <1>1, <1>2, <1>3, <1>4, <1>5

-----------------------------------------------------------------------------
(* Types                                                                     *)

(* The rows of work that the operations write.                               *)
LEMMA RowsMade ==
  ASSUME PlanTypeOK, NEW u \in Eaters, NEW k \in Kinds, work[u][k] # NoPlan
  PROVE  /\ work[u][k] \in Work
         /\ \A a \in {"seat", "day", "reserve", "build"} :
              /\ [work[u][k] EXCEPT !.at = a] \in Work
              /\ [work[u][k] EXCEPT !.at = a].at = a
              /\ [work[u][k] EXCEPT !.at = a].limit = work[u][k].limit
              /\ [work[u][k] EXCEPT !.at = a].upgrade = work[u][k].upgrade
              /\ [work[u][k] EXCEPT !.at = a].day = work[u][k].day
<1>1. work[u][k] \in Work
  BY DEF PlanTypeOK
<1>2. QED
  BY <1>1 DEF Work

LEMMA FreshPlan == \A i \in Inputs, b \in BOOLEAN : Fresh(i, b) \in Plan
  BY DEF Fresh, Plan

LEMMA LimitNat == \A u \in Eaters : Limit(u) \in Nat /\ Limit(u) <= LimitPremium
  BY PlanAssumption DEF Limit

LEMMA NotNoPlan == \A r \in Work : r # NoPlan
  BY NoPlanAssumption

-----------------------------------------------------------------------------
(* Steps that charge nothing and give nothing back                           *)

Counters == <<day, used, repaired, made, swept, gone>>

(* A row that an operation may be left with.                                 *)
Sound(r) ==
  r # NoPlan => /\ r.limit <= LimitPremium
                /\ r.at \in {"reserve", "build"} => r.day \in Days

LEMMA WorkStaysHeld ==
  ASSUME PlanTypeOK, WorkHeld, NEW u \in Eaters, NEW k \in Kinds, NEW r \in Work \cup {NoPlan},
         Replaces(u, k, r), Sound(r)
  PROVE  WorkHeld'
<1> SUFFICES ASSUME NEW v \in Eaters, NEW j \in Kinds, work'[v][j] # NoPlan
             PROVE  Sound(work'[v][j])
  BY DEF WorkHeld, Sound
<1>1. Sound(work[v][j])
  BY DEF WorkHeld, Sound
<1>2. QED
  BY <1>1, OneReplaced

LEMMA Uncharged ==
  ASSUME PlanInv, PlanTypeOK', NEW u \in Eaters, NEW k \in Kinds, NEW r \in Work \cup {NoPlan},
         Replaces(u, k, r), Sound(r), \A d \in Days : Counts(r, d) => Counts(work[u][k], d),
         UNCHANGED Counters
  PROVE  PlanInv'
<1>1. WorkHeld'
  BY WorkStaysHeld DEF PlanInv
<1>2. RepairsPast' /\ UsedHeld'
  BY DEF PlanInv, RepairsPast, UsedHeld, Counters
<1>3. Accounted'
  <2> SUFFICES ASSUME NEW v \in Eaters \ gone, NEW d \in Days \ swept PROVE Covered(v, d)'
    BY DEF Accounted, Counters
  <2>1. Covered(v, d)
    BY DEF PlanInv, Accounted
  <2>2. Cardinality(Charged(v, d)') <= Cardinality(Charged(v, d))
        /\ Cardinality(Charged(v, d)') \in Nat /\ Cardinality(Charged(v, d)) \in Nat
    BY ChargedCount DEF PlanInv
  <2>3. made[v][d] \in Nat /\ used[v][d] \in Nat
    BY DEF PlanInv, PlanTypeOK
  <2>4. QED
    BY <2>1, <2>2, <2>3 DEF Covered, Had, Counters
<1>4. QED
  BY <1>1, <1>2, <1>3 DEF PlanInv

LEMMA Silent ==
  ASSUME PlanInv, PlanTypeOK', UNCHANGED <<work, Counters>>
  PROVE  PlanInv'
  BY DEF PlanInv, RepairsPast, WorkHeld, UsedHeld, Accounted, Covered, Had, Charged, Counters

-----------------------------------------------------------------------------
(* The steps                                                                 *)

LEMMA Beginning ==
  ASSUME PlanInv, NEW u \in Eaters, NEW k \in Kinds, NEW b \in BOOLEAN,
         work[u][k] = NoPlan, Begins(u, k, b), UNCHANGED <<Counters, premium, inputs, shared, seats>>,
         plan' \in [Eaters -> Plan \cup {NoPlan}]
  PROVE  PlanInv'
<1> DEFINE r == [at |-> "seat", of |-> inputs[u], limit |-> Limit(u), upgrade |-> b, day |-> NoPlan]
<1>1. PlanTypeOK /\ inputs[u] \in Inputs
  BY DEF PlanInv, PlanTypeOK
<1>2. r \in Work /\ r.at = "seat" /\ r.limit <= LimitPremium
  BY <1>1, LimitNat DEF Work
<1>3. Replaces(u, k, r) /\ begun' \in 0..MaxPlans
  BY <1>1, PlanAssumption DEF Begins, Replaces, PlanTypeOK
<1> HIDE DEF r
<1>4. PlanTypeOK'
  BY <1>1, <1>2, <1>3, OneReplaced DEF PlanTypeOK, Counters
<1>5. Sound(r) /\ \A d \in Days : ~Counts(r, d)
  BY <1>2 DEF Sound, Counts
<1>6. QED
  BY <1>2, <1>3, <1>4, <1>5, Uncharged

LEMMA Asking ==
  ASSUME PlanInv, NEW u \in Eaters, Generate(u) \/ Another(u) \/ FromPantry(u) \/ Look(u)
  PROVE  PlanInv'
<1>1. plan \in [Eaters -> Plan \cup {NoPlan}] /\ inputs[u] \in Inputs
  BY DEF PlanInv, PlanTypeOK
<1>2. Fresh(inputs[u], FALSE) \in Plan
  BY <1>1, FreshPlan
<1>3. plan' \in [Eaters -> Plan \cup {NoPlan}]
  BY <1>1, <1>2 DEF Generate, Another, FromPantry, Look
<1>4. UNCHANGED <<Counters, premium, inputs, shared, seats>>
  BY DEF Generate, Another, FromPantry, Look, Counters
<1>5. {"regular", "force", "pantry"} = Kinds
  BY DEF Kinds
<1>6. CASE UNCHANGED <<work, begun>>
  <2>1. PlanTypeOK'
    BY <1>3, <1>4, <1>6 DEF PlanInv, PlanTypeOK, Counters
  <2>2. QED
    BY <1>4, <1>6, <2>1, Silent
<1>7. CASE \E k \in Kinds, b \in BOOLEAN : work[u][k] = NoPlan /\ Begins(u, k, b)
  BY <1>3, <1>4, <1>7, Beginning
<1>8. QED
  <2>1. (plan[u] # NoPlan /\ plan[u].old) \in BOOLEAN
    BY <1>1 DEF Plan
  <2>2. CASE Generate(u)
    BY <1>5, <1>6, <1>7, <2>1, <2>2 DEF Generate
  <2>3. CASE Another(u) \/ FromPantry(u) \/ Look(u)
    BY <1>5, <1>6, <1>7, <2>3 DEF Another, FromPantry, Look
  <2>4. QED
    BY <2>2, <2>3

LEMMA Seating ==
  ASSUME PlanInv, NEW u \in Eaters, NEW k \in Kinds, Seat(u, k) \/ ReadDay(u, k)
  PROVE  PlanInv'
<1>1. PlanTypeOK /\ work[u][k] # NoPlan /\ work[u][k] \in Work
  BY RowsMade DEF PlanInv, Seat, ReadDay
<1>2. Sound(work[u][k])
  BY <1>1 DEF PlanInv, WorkHeld, Sound
<1>3. UNCHANGED <<Counters, premium, inputs, plan, shared, begun>> /\ seats' \in Int
  BY <1>1 DEF Seat, ReadDay, Counters, PlanTypeOK
<1>4. ASSUME NEW r \in Work \cup {NoPlan}, Replaces(u, k, r), Sound(r), r # NoPlan => r.at # "build"
      PROVE  PlanInv'
  <2>1. PlanTypeOK'
    BY <1>1, <1>3, <1>4, OneReplaced DEF PlanTypeOK, Counters
  <2>2. \A d \in Days : ~Counts(r, d)
    BY <1>4 DEF Counts
  <2>3. QED
    BY <1>3, <1>4, <2>1, <2>2, Uncharged
<1>5. CASE Replaces(u, k, NoPlan)
  BY <1>4, <1>5 DEF Sound
<1>6. CASE Replaces(u, k, [work[u][k] EXCEPT !.at = "day"])
  BY <1>1, <1>2, <1>4, <1>6, RowsMade DEF Sound
<1>7. CASE Replaces(u, k, [work[u][k] EXCEPT !.at = "reserve", !.day = day])
  <2> DEFINE r == [work[u][k] EXCEPT !.at = "reserve", !.day = day]
  <2>1. r \in Work /\ r.at = "reserve" /\ r.limit = work[u][k].limit /\ r.day = day /\ day \in Days
    BY <1>1 DEF Work, PlanTypeOK
  <2>2. Sound(r)
    BY <1>1, <1>2, <2>1, NotNoPlan DEF Sound
  <2>3. QED
    BY <1>4, <1>7, <2>1, <2>2
<1>8. QED
  <2>1. CASE Seat(u, k)
    BY <1>5, <1>6, <2>1 DEF Seat, Replaces
  <2>2. CASE ReadDay(u, k)
    <3>1. work' = [work EXCEPT ![u][k].at = "reserve", ![u][k].day = day]
      BY <2>2 DEF ReadDay
    <3>2. Replaces(u, k, [work[u][k] EXCEPT !.at = "reserve", !.day = day])
      BY <1>1, <3>1 DEF Replaces, PlanTypeOK
    <3>3. QED
      BY <1>7, <3>2
  <2>3. QED
    BY <2>1, <2>2

(* Taking a plan charges the day the operation read, and sweeps the others.  *)
LEMMA Taking == ASSUME PlanInv, NEW u \in Eaters, NEW k \in Kinds, TakePlan(u, k) PROVE PlanInv'
<1> DEFINE o == work[u][k]
           n == [o EXCEPT !.at = "build"]
<1>1. PlanTypeOK /\ o # NoPlan /\ o.at = "reserve" /\ o \in Work
  BY RowsMade DEF PlanInv, TakePlan
<1>2. o.day \in Days /\ o.limit \in Nat /\ o.limit <= LimitPremium
  BY <1>1 DEF PlanInv, WorkHeld, Work
<1>3. n \in Work /\ n.at = "build" /\ n.limit = o.limit /\ n.upgrade = o.upgrade /\ n.day = o.day
  BY <1>1, RowsMade
<1>4. Sound(n) /\ Sound(NoPlan)
  BY <1>2, <1>3 DEF Sound
<1>5. UNCHANGED <<day, repaired, premium, inputs, plan, shared, begun, made, gone>>
  BY DEF TakePlan
<1>6. \A d \in Days : ~Counts(o, d) /\ ~Counts(NoPlan, d)
  BY <1>1 DEF Counts
<1> HIDE DEF n
<1>7. CASE o.upgrade
  <2>1. Replaces(u, k, n) /\ UNCHANGED <<used, seats, swept>>
    BY <1>7, <1>1 DEF TakePlan, Replaces, n
  <2>2. PlanTypeOK'
    BY <1>1, <1>3, <1>5, <2>1, OneReplaced DEF PlanTypeOK
  <2>3. \A d \in Days : ~Counts(n, d)
    BY <1>3, <1>7 DEF Counts
  <2>4. QED
    BY <1>3, <1>4, <1>5, <2>1, <2>2, <2>3, Uncharged DEF Counters
<1>8. CASE ~o.upgrade /\ ~(used[u][o.day] < o.limit)
  <2>1. Replaces(u, k, NoPlan) /\ seats' = seats + 1 /\ UNCHANGED <<used, swept>>
    BY <1>8 DEF TakePlan, Leaves, Replaces
  <2>2. PlanTypeOK'
    BY <1>1, <1>5, <2>1, OneReplaced DEF PlanTypeOK
  <2>3. QED
    BY <1>4, <1>5, <1>6, <2>1, <2>2, Uncharged DEF Counters
<1>9. CASE ~o.upgrade /\ used[u][o.day] < o.limit
  <2>1. /\ Replaces(u, k, n) /\ seats' = seats
        /\ used' = Sweep([used EXCEPT ![u][o.day] = @ + 1], o.day)
        /\ swept' = swept \cup {d \in Days : d # o.day /\ \E v \in Eaters : used[v][d] > 0}
    BY <1>9, <1>1 DEF TakePlan, Replaces, n
  <2>2. used \in [Eaters -> [Days -> Nat]]
    BY <1>1 DEF PlanTypeOK
  <2>3. \A v \in Eaters, d \in Days :
          used'[v][d] = IF d # o.day THEN 0 ELSE IF v = u THEN used[v][d] + 1 ELSE used[v][d]
    BY <2>1, <2>2, <1>2 DEF Sweep
  <2>4. used' \in [Eaters -> [Days -> Nat]]
    <3>1. used' = [v \in Eaters |-> [d \in Days |-> used'[v][d]]]
      BY <2>1 DEF Sweep
    <3>2. QED
      BY <3>1, <2>3, <2>2
  <2>5. PlanTypeOK'
    BY <1>1, <1>3, <1>5, <2>1, <2>4, OneReplaced DEF PlanTypeOK
  <2>6. WorkHeld' /\ RepairsPast'
    BY <1>1, <1>3, <1>4, <1>5, <2>1, WorkStaysHeld DEF PlanInv, RepairsPast
  <2>7. UsedHeld'
    BY <1>2, <1>9, <2>2, <2>3, PlanAssumption DEF PlanInv, UsedHeld
  <2>8. ASSUME NEW v \in Eaters \ gone, NEW d \in Days \ swept' PROVE Covered(v, d)'
    <3>1. Covered(v, d) /\ made'[v][d] = made[v][d] /\ made[v][d] \in Nat /\ used[v][d] \in Nat
      BY <1>1, <1>5, <2>1, <2>8 DEF PlanInv, Accounted, PlanTypeOK
    <3>2. d # o.day => used[v][d] = 0
      BY <2>1, <2>2, <2>8
    <3>3. Counts(n, d) <=> d = o.day
      BY <1>3, <1>9, NotNoPlan DEF Counts
    <3>4. /\ Cardinality(Charged(v, d)) \in Nat /\ Cardinality(Charged(v, d)') \in Nat
          /\ Cardinality(Charged(v, d)') =
               Cardinality(Charged(v, d)) + (IF v = u /\ d = o.day THEN 1 ELSE 0)
      BY <1>1, <1>3, <1>6, <2>1, <3>3, ChargedCount
    <3>5. used'[v][d] = used[v][d] + (IF v = u /\ d = o.day THEN 1 ELSE 0)
      BY <2>3, <3>1, <3>2
    <3>6. QED
      BY <1>5, <3>1, <3>4, <3>5 DEF Covered, Had
  <2>9. QED
    BY <1>5, <2>5, <2>6, <2>7, <2>8 DEF PlanInv, Accounted
<1>10. QED
  BY <1>1, <1>7, <1>8, <1>9

(* A plan that is stored was charged, or replaces one of an older release.   *)
LEMMA Storing == ASSUME PlanInv, NEW u \in Eaters, NEW k \in Kinds, Store(u, k) PROVE PlanInv'
<1> DEFINE o == work[u][k]
<1>1. PlanTypeOK /\ o # NoPlan /\ o.at = "build" /\ o \in Work
  BY RowsMade DEF PlanInv, Store
<1>2. o.day \in Days /\ o.of \in Inputs /\ o.upgrade \in BOOLEAN
  BY <1>1 DEF PlanInv, WorkHeld, Work
<1>3. /\ Replaces(u, k, NoPlan) /\ seats' = seats + 1
      /\ made' = IF o.upgrade THEN made ELSE [made EXCEPT ![u][o.day] = @ + 1]
      /\ plan' = [plan EXCEPT ![u] = Fresh(o.of, k = "pantry")]
      /\ shared' \subseteq shared \cup {o.of}
      /\ UNCHANGED <<day, used, repaired, premium, inputs, begun, swept, gone>>
  BY DEF Store, Leaves, Replaces
<1>4. made \in [Eaters -> [Days -> Nat]]
  BY <1>1 DEF PlanTypeOK
<1>5. /\ made' \in [Eaters -> [Days -> Nat]]
      /\ \A v \in Eaters, d \in Days :
           made'[v][d] = made[v][d] + (IF v = u /\ d = o.day /\ ~o.upgrade THEN 1 ELSE 0)
  BY <1>2, <1>3, <1>4
<1>6. plan' \in [Eaters -> Plan \cup {NoPlan}]
  <2>1. Fresh(o.of, k = "pantry") \in Plan
    BY <1>2, FreshPlan
  <2>2. QED
    BY <1>1, <1>3, <2>1 DEF PlanTypeOK
<1>7. PlanTypeOK'
  BY <1>1, <1>2, <1>3, <1>5, <1>6, OneReplaced DEF PlanTypeOK
<1>8. WorkHeld' /\ RepairsPast' /\ UsedHeld'
  BY <1>1, <1>3, WorkStaysHeld DEF PlanInv, RepairsPast, UsedHeld, Sound
<1>9. ASSUME NEW v \in Eaters \ gone, NEW d \in Days \ swept PROVE Covered(v, d)'
  <2>1. Covered(v, d) /\ made[v][d] \in Nat /\ used[v][d] \in Nat
    BY <1>1 DEF PlanInv, Accounted, PlanTypeOK
  <2>2. /\ Counts(o, d) <=> (d = o.day /\ ~o.upgrade)
        /\ ~Counts(NoPlan, d)
    BY <1>1 DEF Counts
  <2>3. /\ Cardinality(Charged(v, d)) \in Nat /\ Cardinality(Charged(v, d)') \in Nat
        /\ Cardinality(Charged(v, d)') =
             Cardinality(Charged(v, d)) - (IF v = u /\ d = o.day /\ ~o.upgrade THEN 1 ELSE 0)
    BY <1>1, <1>3, <2>2, ChargedCount
  <2>4. Had(v, d)' = Had(v, d)
    BY <1>5, <2>1, <2>3 DEF Had
  <2>5. QED
    BY <1>3, <2>1, <2>4 DEF Covered
<1>10. QED
  BY <1>3, <1>7, <1>8, <1>9 DEF PlanInv, Accounted

LEMMA GivesBack ==
  ASSUME PlanTypeOK, NEW u \in Eaters, NEW e \in Days
  PROVE  /\ GiveBack(used, u, e) \in [Eaters -> [Days -> Nat]]
         /\ \A v \in Eaters, d \in Days :
              GiveBack(used, u, e)[v][d]
                = used[v][d] - (IF v = u /\ d = e /\ used[v][d] > 0 THEN 1 ELSE 0)
<1>1. used \in [Eaters -> [Days -> Nat]]
  BY DEF PlanTypeOK
<1>2. CASE used[u][e] > 0
  <2>1. GiveBack(used, u, e) = [used EXCEPT ![u] = [used[u] EXCEPT ![e] = used[u][e] - 1]]
    BY <1>2 DEF GiveBack
  <2>2. used[u][e] - 1 \in Nat
    BY <1>1, <1>2
  <2>3. [used[u] EXCEPT ![e] = used[u][e] - 1] \in [Days -> Nat]
    BY <1>1, <2>2
  <2>4. QED
    BY <1>1, <1>2, <2>1, <2>3
<1>3. CASE ~(used[u][e] > 0)
  BY <1>1, <1>3 DEF GiveBack
<1>4. QED
  BY <1>2, <1>3

(* A plan that was not built is given back to the day it was charged to.     *)
LEMMA Failing == ASSUME PlanInv, NEW u \in Eaters, NEW k \in Kinds, Fail(u, k) PROVE PlanInv'
<1> DEFINE o == work[u][k]
<1>1. PlanTypeOK /\ o # NoPlan /\ o.at = "build" /\ o \in Work
  BY RowsMade DEF PlanInv, Fail
<1>2. o.day \in Days /\ o.upgrade \in BOOLEAN
  BY <1>1 DEF PlanInv, WorkHeld, Work
<1>3. /\ Replaces(u, k, NoPlan) /\ seats' = seats + 1
      /\ used' = IF o.upgrade THEN used ELSE GiveBack(used, u, o.day)
      /\ UNCHANGED <<day, repaired, premium, inputs, plan, shared, begun, made, swept, gone>>
  BY DEF Fail, Leaves, Replaces
<1>4. /\ used \in [Eaters -> [Days -> Nat]] /\ used' \in [Eaters -> [Days -> Nat]]
      /\ \A v \in Eaters, d \in Days :
           used'[v][d] = used[v][d]
             - (IF ~o.upgrade /\ v = u /\ d = o.day /\ used[v][d] > 0 THEN 1 ELSE 0)
  <2>1. used \in [Eaters -> [Days -> Nat]]
    BY <1>1 DEF PlanTypeOK
  <2>2. CASE o.upgrade
    BY <1>3, <2>1, <2>2
  <2>3. CASE ~o.upgrade
    <3>1. used' = GiveBack(used, u, o.day)
      BY <1>3, <2>3
    <3>2. QED
      BY <1>1, <1>2, <2>1, <2>3, <3>1, GivesBack
  <2>4. QED
    BY <2>2, <2>3
<1>5. PlanTypeOK'
  BY <1>1, <1>3, <1>4, OneReplaced DEF PlanTypeOK
<1>6. WorkHeld' /\ RepairsPast'
  BY <1>1, <1>3, WorkStaysHeld DEF PlanInv, RepairsPast, Sound
<1>7. UsedHeld'
  BY <1>4, PlanAssumption DEF PlanInv, UsedHeld
<1>8. ASSUME NEW v \in Eaters \ gone, NEW d \in Days \ swept PROVE Covered(v, d)'
  <2>1. Covered(v, d) /\ made[v][d] \in Nat /\ used[v][d] \in Nat /\ made' = made
    BY <1>1, <1>3 DEF PlanInv, Accounted, PlanTypeOK
  <2>2. /\ Counts(o, d) <=> (d = o.day /\ ~o.upgrade)
        /\ ~Counts(NoPlan, d)
    BY <1>1 DEF Counts
  <2>3. /\ Cardinality(Charged(v, d)) \in Nat /\ Cardinality(Charged(v, d)') \in Nat
        /\ Cardinality(Charged(v, d)') =
             Cardinality(Charged(v, d)) - (IF v = u /\ d = o.day /\ ~o.upgrade THEN 1 ELSE 0)
    BY <1>1, <1>3, <2>2, ChargedCount
  <2>4. used'[v][d] = used[v][d]
             - (IF ~o.upgrade /\ v = u /\ d = o.day /\ used[v][d] > 0 THEN 1 ELSE 0)
    BY <1>4
  <2>5. QED
    BY <1>3, <1>4, <2>1, <2>3, <2>4 DEF Covered, Had
<1>9. QED
  BY <1>3, <1>5, <1>6, <1>7, <1>8 DEF PlanInv, Accounted

(* A corrected profile gives back a plan of today, which is put on record.   *)
LEMMA Saving == ASSUME PlanInv, NEW u \in Eaters, NEW i \in Inputs, SaveProfile(u, i) PROVE PlanInv'
<1>1. PlanTypeOK /\ day \in Days /\ repaired \subseteq Eaters \X Days
  BY DEF PlanInv, PlanTypeOK
<1>2. /\ UNCHANGED <<day, premium, shared, seats, work, begun, made, swept, gone>>
      /\ inputs' \in [Eaters -> Inputs]
  BY <1>1 DEF SaveProfile, PlanTypeOK
<1>3. plan' \in [Eaters -> Plan \cup {NoPlan}]
  <2>1. Fresh(i, FALSE) \in Plan
    BY FreshPlan
  <2>2. QED
    BY <1>1, <2>1 DEF SaveProfile, PlanTypeOK
<1>4. CASE UNCHANGED <<used, repaired>>
  <2>1. PlanTypeOK'
    BY <1>1, <1>2, <1>3, <1>4 DEF PlanTypeOK
  <2>2. QED
    BY <1>2, <1>4, <2>1, Silent DEF Counters
<1>5. CASE /\ Repairs(u) /\ used' = GiveBack(used, u, day)
           /\ repaired' = {r \in repaired : r[2] = day} \cup {<<u, day>>}
  <2>1. /\ used \in [Eaters -> [Days -> Nat]] /\ used' \in [Eaters -> [Days -> Nat]]
        /\ \A v \in Eaters, d \in Days :
             used'[v][d] = used[v][d] - (IF v = u /\ d = day /\ used[v][d] > 0 THEN 1 ELSE 0)
    BY <1>1, <1>5, GivesBack DEF PlanTypeOK
  <2>2. PlanTypeOK'
    BY <1>1, <1>2, <1>3, <1>5, <2>1 DEF PlanTypeOK
  <2>3. WorkHeld' /\ RepairsPast'
    BY <1>1, <1>2, <1>5 DEF PlanInv, WorkHeld, RepairsPast, Days
  <2>4. UsedHeld'
    BY <2>1, PlanAssumption DEF PlanInv, UsedHeld
  <2>5. ASSUME NEW v \in Eaters \ gone, NEW d \in Days \ swept PROVE Covered(v, d)'
    <3>1. Covered(v, d) /\ Had(v, d)' = Had(v, d) /\ Had(v, d) \in Nat /\ used[v][d] \in Nat
      BY <1>1, <1>2, DueNat DEF PlanInv, Accounted, Had, Charged, PlanTypeOK
    <3>2. d \in Int /\ day \in Int
      BY <1>1 DEF Days
    <3>3. CASE v = u /\ d = day
      <4>1. <<u, day>> \notin repaired /\ used[u][day] > 0
        BY <1>5 DEF Repairs
      <4>2. Had(v, d) <= used[v][d] /\ used'[v][d] = used[v][d] - 1
        BY <2>1, <3>1, <3>2, <3>3, <4>1 DEF Covered
      <4>3. <<v, d>> \in repaired'
        BY <1>5, <3>3
      <4>4. QED
        BY <1>2, <3>1, <4>2, <4>3 DEF Covered
    <3>4. CASE ~(v = u /\ d = day)
      <4>1. used'[v][d] = used[v][d]
        BY <2>1, <3>1, <3>4
      <4>2. d >= day /\ <<v, d>> \in repaired => <<v, d>> \in repaired'
        BY <1>5, <3>2 DEF PlanInv, RepairsPast
      <4>3. QED
        BY <1>2, <3>1, <4>1, <4>2 DEF Covered
    <3>5. QED
      BY <3>3, <3>4
  <2>6. QED
    BY <1>2, <2>2, <2>3, <2>4, <2>5 DEF PlanInv, Accounted
<1>6. QED
  BY <1>4, <1>5 DEF SaveProfile

LEMMA NightFalls == ASSUME PlanInv, Midnight PROVE PlanInv'
<1>1. PlanTypeOK'
  BY PlanAssumption DEF PlanInv, Midnight, PlanTypeOK, Days
<1>2. /\ day' = day + 1 /\ day \in Int
      /\ UNCHANGED <<used, repaired, work, made, swept, gone>>
  BY DEF PlanInv, PlanTypeOK, Midnight, Days
<1>3. RepairsPast' /\ WorkHeld' /\ UsedHeld'
  <2>1. \A r \in repaired : r[2] \in Int
    BY DEF PlanInv, PlanTypeOK, Days
  <2>2. QED
    BY <1>2, <2>1 DEF PlanInv, RepairsPast, WorkHeld, UsedHeld
<1>4. Accounted'
  <2> SUFFICES ASSUME NEW v \in Eaters \ gone, NEW d \in Days \ swept PROVE Covered(v, d)'
    BY <1>2 DEF Accounted
  <2>1. Covered(v, d) /\ Had(v, d)' = Had(v, d)
    BY <1>2 DEF PlanInv, Accounted, Had, Charged
  <2>2. d >= day' => d >= day
    BY <1>2 DEF Days
  <2>3. QED
    BY <1>2, <2>1, <2>2 DEF Covered
<1>5. QED
  BY <1>1, <1>3, <1>4 DEF PlanInv

(* A restart loses what is in flight, and never the charge for it.           *)
LEMMA Restarting == ASSUME PlanInv, Restart PROVE PlanInv'
<1>1. /\ PlanTypeOK /\ work' = [u \in Eaters |-> [k \in Kinds |-> NoPlan]] /\ seats' = Seats
      /\ UNCHANGED <<day, used, repaired, premium, inputs, begun, made, swept, gone>>
  BY DEF PlanInv, Restart
<1>2. plan' \in [Eaters -> Plan \cup {NoPlan}] /\ shared' \subseteq Inputs
  <2>1. CASE UNCHANGED <<plan, shared>>
    BY <1>1, <2>1 DEF PlanTypeOK
  <2>2. CASE /\ plan' = [u \in Eaters |-> IF plan[u] = NoPlan THEN NoPlan
                                          ELSE [plan[u] EXCEPT !.old = TRUE]]
             /\ shared' = {}
    <3>1. \A p \in Plan : [p EXCEPT !.old = TRUE] \in Plan
      BY DEF Plan
    <3>2. QED
      BY <1>1, <2>2, <3>1 DEF PlanTypeOK
  <2>3. QED
    BY <2>1, <2>2 DEF Restart
<1>3. PlanTypeOK'
  BY <1>1, <1>2, PlanAssumption DEF PlanTypeOK
<1>4. RepairsPast' /\ WorkHeld' /\ UsedHeld'
  BY <1>1 DEF PlanInv, RepairsPast, WorkHeld, UsedHeld
<1>5. ASSUME NEW v \in Eaters \ gone, NEW d \in Days \ swept PROVE Covered(v, d)'
  <2>1. Covered(v, d) /\ made[v][d] \in Nat /\ used[v][d] \in Nat
    BY <1>1 DEF PlanInv, Accounted, PlanTypeOK
  <2>2. Charged(v, d)' = {}
    BY <1>1 DEF Charged
  <2>3. Cardinality(Charged(v, d)') = 0
    BY <2>2, FS_EmptySet
  <2>4. Had(v, d)' <= Had(v, d) /\ Had(v, d)' \in Nat /\ Had(v, d) \in Nat
    BY <1>1, <2>1, <2>3, ChargedKinds DEF Had
  <2>5. QED
    BY <1>1, <2>1, <2>4 DEF Covered
<1>6. QED
  BY <1>1, <1>3, <1>4, <1>5 DEF PlanInv, Accounted

LEMMA Erasing == ASSUME PlanInv, NEW u \in Eaters, EraseEater(u) PROVE PlanInv'
<1>1. /\ PlanTypeOK /\ gone' = gone \cup {u} /\ plan' = [plan EXCEPT ![u] = NoPlan]
      /\ used' = [used EXCEPT ![u] = [d \in Days |-> 0]]
      /\ repaired' = {r \in repaired : r[1] # u}
      /\ UNCHANGED <<day, premium, inputs, shared, seats, work, begun, made, swept>>
  BY DEF PlanInv, EraseEater
<1>2. /\ used' \in [Eaters -> [Days -> Nat]] /\ used'[u] = [d \in Days |-> 0]
      /\ \A v \in Eaters : v # u => used'[v] = used[v]
  BY <1>1 DEF PlanTypeOK
<1>3. PlanTypeOK'
  BY <1>1, <1>2 DEF PlanTypeOK
<1>4. RepairsPast' /\ WorkHeld' /\ UsedHeld'
  BY <1>1, <1>2, PlanAssumption DEF PlanInv, RepairsPast, WorkHeld, UsedHeld
<1>5. ASSUME NEW v \in Eaters \ gone', NEW d \in Days \ swept PROVE Covered(v, d)'
  <2>1. v # u /\ Covered(v, d) /\ used'[v][d] = used[v][d]
    BY <1>1, <1>2 DEF PlanInv, Accounted
  <2>2. Had(v, d)' = Had(v, d)
    BY <1>1 DEF Had, Charged
  <2>3. <<v, d>> \in repaired => <<v, d>> \in repaired'
    BY <1>1, <2>1
  <2>4. QED
    BY <1>1, <2>1, <2>2, <2>3 DEF Covered
<1>6. QED
  BY <1>1, <1>3, <1>4, <1>5 DEF PlanInv, Accounted

LEMMA Turning == ASSUME PlanInv, NEW u \in Eaters, PremiumTurns(u) PROVE PlanInv'
<1>1. UNCHANGED <<work, Counters>>
  BY DEF PremiumTurns, Counters
<1>2. PlanTypeOK'
  BY DEF PlanInv, PlanTypeOK, PremiumTurns
<1>3. QED
  BY <1>1, <1>2, Silent

-----------------------------------------------------------------------------
LEMMA PlanStarts == PlanInit => PlanInv
<1> SUFFICES ASSUME PlanInit PROVE PlanInv
  OBVIOUS
<1>1. PlanTypeOK
  BY PlanAssumption DEF PlanInit, PlanTypeOK, Days
<1>2. RepairsPast /\ WorkHeld /\ UsedHeld
  BY PlanAssumption DEF PlanInit, RepairsPast, WorkHeld, UsedHeld
<1>3. ASSUME NEW u \in Eaters, NEW d \in Days PROVE Covered(u, d)
  <2>1. Charged(u, d) = {} /\ made[u][d] = 0 /\ used[u][d] = 0
    BY DEF PlanInit, Charged
  <2>2. QED
    BY <2>1, FS_EmptySet DEF Covered, Had
<1>4. QED
  BY <1>1, <1>2, <1>3 DEF PlanInv, Accounted

LEMMA PlanSteps == PlanInv /\ [PlanNext]_planVars => PlanInv'
<1> SUFFICES ASSUME PlanInv, [PlanNext]_planVars PROVE PlanInv'
  OBVIOUS
<1>1. ASSUME NEW u \in Eaters, Generate(u) \/ Another(u) \/ FromPantry(u) \/ Look(u)
      PROVE  PlanInv'
  BY <1>1, Asking
<1>2. ASSUME NEW u \in Eaters, PremiumTurns(u) \/ EraseEater(u) PROVE PlanInv'
  BY <1>2, Turning, Erasing
<1>3. ASSUME NEW u \in Eaters, NEW k \in Kinds, Seat(u, k) \/ ReadDay(u, k) \/ TakePlan(u, k)
                                                  \/ Store(u, k) \/ Fail(u, k)
      PROVE  PlanInv'
  BY <1>3, Seating, Taking, Storing, Failing
<1>4. ASSUME NEW u \in Eaters, NEW i \in Inputs, SaveProfile(u, i) PROVE PlanInv'
  BY <1>4, Saving
<1>5. CASE Midnight \/ Restart
  BY <1>5, NightFalls, Restarting
<1>6. CASE UNCHANGED planVars
  <2>1. PlanTypeOK'
    BY <1>6 DEF PlanInv, PlanTypeOK, planVars
  <2>2. QED
    BY <1>6, <2>1, Silent DEF planVars, Counters
<1>7. QED
  BY <1>1, <1>2, <1>3, <1>4, <1>5, <1>6 DEF PlanNext

LEMMA PlansHold == PlanSpec => []PlanInv
  BY PlanStarts, PlanSteps, PTL DEF PlanSpec

(* The type invariant of PlanServing.                                        *)
THEOREM PlanTypes == PlanSpec => []PlanTypeOK
<1>1. PlanInv => PlanTypeOK
  BY DEF PlanInv
<1>2. QED
  BY <1>1, PlansHold, PTL

LEMMA PlansInQuota == PlanInv => QuotaHeld
<1> SUFFICES ASSUME PlanInv, NEW u \in Eaters \ gone, NEW d \in Days \ swept
             PROVE  Had(u, d) <= LimitPremium + 1
  BY DEF QuotaHeld, Had
<1>1. Covered(u, d) /\ used[u][d] <= LimitPremium
  BY DEF PlanInv, Accounted, UsedHeld
<1>2. Had(u, d) \in Nat /\ used[u][d] \in Nat
  BY DueNat DEF PlanInv
<1>3. QED
  BY <1>1, <1>2, PlanAssumption DEF Covered

(* No account gets more plans of a day than Premium has and one for a        *)
(* corrected profile, whatever is in flight: generuj_plan and its variants,  *)
(* rezervuj_prepocet, vrat_prepocet, uvolni_jednu_opravu_profilu, midnight   *)
(* between reading the day and taking a plan, and restarts.                  *)
THEOREM QuotaIsHeld == PlanSpec => []QuotaHeld
  BY PlansInQuota, PlansHold, PTL

-----------------------------------------------------------------------------
(* The components together                                                   *)

(* Where no reset is asked for, the outbox stays empty.                      *)
ServicesInv ==
  /\ ResetInv /\ (story # "reset" => job = [j \in Ids |-> None])
  /\ PlacesInv /\ PlanInv /\ BudgetInv

LEMMA ServicesStart == ServicesInit => ServicesInv
  BY ResetStarts, CheckoutStarts, PlanStarts, CostsStarts DEF ServicesInit, ServicesInv, ResetInit

LEMMA ServicesKeep ==
  ServicesInv /\ [ServicesNext]_<<story, resetVars, checkoutVars, planVars, costsVars>> => ServicesInv'
<1> SUFFICES ASSUME ServicesInv, [ServicesNext]_<<story, resetVars, checkoutVars, planVars, costsVars>>
             PROVE  ServicesInv'
  OBVIOUS
<1>1. story' = story /\ ResetInv /\ PlacesInv /\ PlanInv /\ BudgetInv
  BY DEF ServicesNext, ServicesInv
<1>2. [CheckoutNext]_checkoutVars /\ [PlanNext]_planVars /\ [CostsNext]_costsVars
  BY DEF ServicesNext
<1>3. PlacesInv' /\ PlanInv' /\ BudgetInv'
  BY <1>1, <1>2, CheckoutKeeps, PlanSteps, CostsKeeps
<1>4. CASE UNCHANGED resetVars
  <2>1. ResetInv' /\ job' = job
    BY <1>1, <1>4, ResetKeeps DEF resetVars, outbox
  <2>2. QED
    BY <1>1, <1>3, <2>1 DEF ServicesInv
<1>5. CASE story = "reset" /\ ResetNext
  BY <1>1, <1>3, <1>5, ResetKeeps DEF ServicesInv
<1>6. CASE story # "reset" /\ AccountsNext /\ UNCHANGED outbox
  <2>1. job = [j \in Ids |-> None]
    BY <1>6 DEF ServicesInv
  <2>2. job' = job /\ UNCHANGED <<task, wake, apiKey, faults>>
    BY <1>6 DEF outbox
  <2>3. job' = Forgets
    BY <2>1, <2>2 DEF Forgets
  <2>4. ResetInv'
    BY <1>1, <1>6, <2>2, <2>3, AccountsBeside
  <2>5. QED
    BY <1>1, <1>3, <2>1, <2>2, <2>4 DEF ServicesInv
<1>7. \/ UNCHANGED resetVars
      \/ story = "reset" /\ ResetNext
      \/ story # "reset" /\ AccountsNext /\ UNCHANGED outbox
  BY DEF ServicesNext
<1>8. QED
  BY <1>4, <1>5, <1>6, <1>7

LEMMA ServicesHeld == ServicesSpec => []ServicesInv
  BY ServicesStart, ServicesKeep, PTL DEF ServicesSpec

(* Side by side, in whichever story: every component's variables keep their  *)
(* shape, and its counters the limits of the code.                           *)
THEOREM ServicesTypes == ServicesSpec => []ServicesTypeOK
<1>1. ServicesInv => ServicesTypeOK
  <2> SUFFICES ASSUME ServicesInv PROVE ServicesTypeOK
    OBVIOUS
  <2>1. ResetTypeOK
    BY AccountsTypes DEF ServicesInv, ResetInv, OutboxOK, ResetTypeOK
  <2>2. QED
    BY <2>1 DEF ServicesInv, PlacesInv, PlanInv, BudgetInv, ServicesTypeOK
<1>2. QED
  BY <1>1, ServicesHeld, PTL

(* And what each of them promises is true of the whole: sessions, erased     *)
(* accounts and spent tokens, founder places, daily plans, and the bill.     *)
THEOREM ServicesHold ==
  ServicesSpec => [](/\ OnlyCurrent /\ NoLeftoverEnters /\ SpentStaysSpent
                     /\ PlacesHeld /\ QuotaHeld /\ BudgetHeld)
<1>1. ServicesInv => /\ OnlyCurrent /\ NoLeftoverEnters /\ SpentStaysSpent
                     /\ PlacesHeld /\ QuotaHeld /\ BudgetHeld
  BY BilledInBudget, PlansInQuota DEF ServicesInv, ResetInv, IInv, SpentOK, PlacesInv
<1>2. QED
  BY <1>1, ServicesHeld, PTL
=============================================================================
