------------------------------ MODULE Checkout ------------------------------
(* The checkout of the annual subscription and the founder places. Opening a *)
(* checkout reserves a place at the founder price; what happens to it is     *)
(* told by the clock, by the provider and by two webhooks.                   *)
EXTENDS Integers, FiniteSets

CONSTANTS
  Customers,
  MaxCheckouts,   \* bound: rows of checkout_attempts
  Capacity,       \* KAPACITA_ZAKLADAJUCICH
  Nothing

Checkouts == 1..MaxCheckouts

ASSUME CheckoutAssumption ==
  MaxCheckouts \in Nat /\ Capacity \in Nat /\ Nothing \notin Customers \cup STRING

VARIABLES
  attempt,   \* table checkout_attempts
  clock,     \* where the time is against expires_at and the grace after it
  asked,     \* what the request that opened the checkout is about to do
  order,     \* when, by the provider's clock, the order was created
  annual,    \* subscriptions of verified first payments, by their attempt
  late       \* founder orders paired after their place was given up

checkoutVars == <<attempt, clock, asked, order, annual, late>>

----------------------------------------------------------------------------
(* A row, or Nothing before it is written. "reserved" is founder_reserved_until *)
(* and "url" the checkout of the provider that the customer was sent to.     *)
Attempt == [user : Customers, founder : BOOLEAN,
            status : {"pending", "expired", "paid"}, reserved : BOOLEAN, url : BOOLEAN]
Clock == {"open", "lapsed", "over"}

ASSUME NothingAssumption == Nothing \notin Attempt

Rows == {a \in Checkouts : attempt[a] # Nothing}
Status(a, s) == attempt[a] # Nothing /\ attempt[a].status = s
Founder(a)   == attempt[a] # Nothing /\ attempt[a].founder
Live(u) == \E a \in Rows : attempt[a].user = u /\ annual[a] = "live"

(* founder_places_used: first payments, of ended subscriptions too.          *)
PlacesUsed == {a \in Rows : Founder(a) /\ annual[a] # Nothing}

\* Mutant of PlacesPending: an order waiting for its subscription holds nothing.
PlacesUnpaid == {a \in Rows : /\ Founder(a) /\ Status(a, "pending")
                              /\ attempt[a].reserved /\ clock[a] = "open"}

(* _pending_founder_places: the time of a reservation is looked at, since    *)
(* nobody clears it when it runs out; a paid order holds its place until the *)
(* subscription counts.                                                      *)
PlacesPending ==
  {a \in Rows : /\ Founder(a)
                /\ \/ Status(a, "pending") /\ attempt[a].reserved /\ clock[a] = "open"
                   \/ Status(a, "paid") /\ annual[a] = Nothing}

(* annual_checkout_offer: the founder price while places are left.           *)
FounderOffer == Cardinality(PlacesUsed) + Cardinality(PlacesPending) < Capacity

(* Every checkout that ran out is closed by whoever opens the next one.      *)
Swept == [a \in Checkouts |->
  IF Status(a, "pending") /\ clock[a] # "open"
  THEN [attempt[a] EXCEPT !.status = "expired", !.reserved = FALSE] ELSE attempt[a]]

(* platba_start, up to the provider: one transaction, after the customer     *)
(* agreed to an offer he was shown before it. Another offer is refused.      *)
Start(u, agreed) ==
  \E a \in Checkouts :
    /\ Rows = 1..(a - 1)
    /\ ~Live(u)
    /\ \A b \in Rows : attempt[b].user = u => ~(Status(b, "pending") /\ clock[b] = "open")
    /\ agreed = FounderOffer
    /\ attempt' = [Swept EXCEPT ![a] =
         [user |-> u, founder |-> agreed, status |-> "pending", reserved |-> agreed,
          url |-> FALSE]]
    /\ asked' = [asked EXCEPT ![a] = "provider"]
    /\ UNCHANGED <<clock, order, annual, late>>

(* create_provider_subscription_checkout, outside any transaction. A failure *)
(* answers 503 and leaves the row, which holds its place until it runs out.  *)
AskProvider(a) ==
  /\ asked[a] = "provider"
  /\ \E next \in {"record", "done"} : asked' = [asked EXCEPT ![a] = next]
  /\ UNCHANGED <<attempt, clock, order, annual, late>>

(* record_provider_checkout: another customer may have swept the row.        *)
Record(a) ==
  /\ asked[a] = "record"
  /\ asked' = [asked EXCEPT ![a] = "done"]
  /\ IF Status(a, "pending") /\ ~attempt[a].url
     THEN attempt' = [attempt EXCEPT ![a].url = TRUE]
     ELSE UNCHANGED attempt
  /\ UNCHANGED <<clock, order, annual, late>>

Passes(a) ==
  /\ a \in Rows
  /\ \/ clock[a] = "open"   /\ clock' = [clock EXCEPT ![a] = "lapsed"]
     \/ clock[a] = "lapsed" /\ clock' = [clock EXCEPT ![a] = "over"]
  /\ UNCHANGED <<attempt, asked, order, annual, late>>

(* The customer pays. The provider closes a checkout when it runs out, by    *)
(* its own clock.                                                            *)
Buy(a) ==
  /\ a \in Rows /\ attempt[a].url /\ order[a] = Nothing
  /\ order' = [order EXCEPT ![a] = clock[a]]
  /\ UNCHANGED <<attempt, clock, asked, annual, late>>

----------------------------------------------------------------------------
(* Webhooks; each may come late, more than once, and before the other.       *)

(* _validate_attempt: a swept row is paired with an order made in the grace. *)
Pairable(a) ==
  /\ order[a] # Nothing /\ a \in Rows
  /\ Status(a, "expired") => order[a] # "over"

(* _pair_attempt. The place of a founder whose time ran out may be given     *)
(* away by now.                                                              *)
Pairs(a) ==
  /\ attempt' = [attempt EXCEPT ![a].status = "paid"]
  /\ late' = IF Founder(a) /\ ~Status(a, "paid") /\ clock[a] # "open"
             THEN late \cup {a} ELSE late

OrderCreated(a) ==
  /\ Pairable(a) /\ Pairs(a)
  /\ UNCHANGED <<clock, asked, order, annual>>

(* A running subscription of another order sends the event to review.        *)
SubscriptionCreated(a) ==
  /\ Pairable(a) /\ annual[a] = Nothing
  /\ ~Live(attempt[a].user)
  /\ Pairs(a)
  /\ annual' = [annual EXCEPT ![a] = "live"]
  /\ UNCHANGED <<clock, asked, order>>

SubscriptionEnds(a) ==
  /\ annual[a] = "live"
  /\ annual' = [annual EXCEPT ![a] = "ended"]
  /\ UNCHANGED <<attempt, clock, asked, order, late>>

----------------------------------------------------------------------------
CheckoutInit ==
  /\ attempt = [a \in Checkouts |-> Nothing] /\ clock = [a \in Checkouts |-> "open"]
  /\ asked = [a \in Checkouts |-> "done"] /\ order = [a \in Checkouts |-> Nothing]
  /\ annual = [a \in Checkouts |-> Nothing] /\ late = {}

CheckoutNext ==
  \/ \E u \in Customers, agreed \in BOOLEAN : Start(u, agreed)
  \/ \E a \in Checkouts :
       \/ AskProvider(a) \/ Record(a) \/ Passes(a) \/ Buy(a)
       \/ OrderCreated(a) \/ SubscriptionCreated(a) \/ SubscriptionEnds(a)

CheckoutSpec == CheckoutInit /\ [][CheckoutNext]_checkoutVars

----------------------------------------------------------------------------
(* Type invariant.                                                           *)
CheckoutTypeOK ==
  /\ attempt \in [Checkouts -> Attempt \cup {Nothing}]
  /\ clock \in [Checkouts -> Clock]
  /\ asked \in [Checkouts -> {"provider", "record", "done"}]
  /\ order \in [Checkouts -> Clock \cup {Nothing}]
  /\ annual \in [Checkouts -> {"live", "ended", Nothing}]
  /\ late \subseteq Checkouts

(* The founder price was paid by, or is promised to, no more customers than  *)
(* there are places, but for orders paired after their place was given up:   *)
(* a place is counted without a gap while it passes from a reservation to a  *)
(* paid order and from there to a subscription, which may have ended since.  *)
Sold == {a \in Rows : Founder(a) /\ (Status(a, "paid") \/ (Status(a, "pending") /\ clock[a] = "open"))}
PlacesHeld == Cardinality(Sold) <= Capacity + Cardinality(late)
=============================================================================
