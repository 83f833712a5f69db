----------------------------- MODULE MCServices -----------------------------
(* The components beside the payments, each in small stories of its own: a   *)
(* story says which component moves, and for the accounts which routes the   *)
(* deployment serves.                                                        *)
EXTENDS ResetOutbox, Checkout, Costs, PlanServing

CONSTANTS u1, u2, m1, k1, k2, c1, c2, c3

VARIABLE story

\* Both accounts would have the one address: the second may only follow the first.
OneMail == [u \in Users |-> m1]

RoutesOf(s) ==
  CASE s = "words"  -> {"register", "link", "login", "change", "revoke", "logout"}
    [] s = "links"  -> {"magic", "setup", "set", "link", "register"}
    [] s = "erased" -> {"register", "link", "login", "reauth_word", "erase", "options", "enrol", "key"}
    [] s = "late"   -> {"reauth_word", "erase", "options", "enrol", "key"}
    [] s = "keys"   -> {"options", "enrol", "key", "reauth_key", "drop", "erase"}
    [] s = "reset"  -> {"forgot", "link"}
    [] OTHER        -> {}

AccountStories == {"words", "links", "erased", "late", "keys", "reset"}
Stories == AccountStories \cup {"checkout", "plans", "costs", "weeks"}

ServicesInit ==
  /\ story \in Stories
  /\ routes = RoutesOf(story)
  /\ apiKey \in IF story = "reset" THEN {k1, None} ELSE {k1}
  /\ account \in [Users -> {"none", "open"}] /\ account[u2] = "none"
  /\ story \notin AccountStories => account[u1] = "none"
  /\ IF story = "plans" THEN TRUE ELSE premium = {} /\ inputs = [u \in Eaters |-> CHOOSE i \in Inputs : TRUE]
  /\ ResetInit /\ CheckoutInit /\ PlanInit /\ CostsInit
  /\ story \in {"reset", "erased"} => session[1] = None
  /\ story = "late" => credential[u1] # None /\ session[1] # None

InStory ==
  /\ story = "words"  => minted <= 2
  /\ story = "erased" => minted <= 2 /\ written <= 1
  /\ story = "late"   => /\ written <= 1 /\ blocked = {}
                         /\ flight[c1].route \in {"options", None}
                         /\ flight[c2].route \in {"enrol", None}
                         /\ flight[c3].route \in {"reauth_word", "erase", None}
  /\ story # "late"   => flight[c3] = NoFlight
  /\ story = "reset"  => minted <= 2
  /\ story = "costs"  => week = 0 /\ silent <= 2 /\ stamps <= 2 /\ kills + hour + refusedRows <= 1
  /\ story = "weeks"  => kills = 0 /\ stamps <= 1 /\ silent + hour + refusedRows <= 1

ServicesNext ==
  /\ UNCHANGED story
  /\ \/ /\ story = "reset" /\ ResetNext
        /\ UNCHANGED <<checkoutVars, planVars, costsVars>>
     \/ /\ story \in AccountStories \ {"reset"} /\ AccountsNext
        /\ UNCHANGED <<outbox, checkoutVars, planVars, costsVars>>
     \/ /\ story = "checkout" /\ CheckoutNext
        /\ UNCHANGED <<resetVars, planVars, costsVars>>
     \/ /\ story = "plans" /\ PlanNext
        /\ UNCHANGED <<resetVars, checkoutVars, costsVars>>
     \/ /\ story \in {"costs", "weeks"} /\ CostsNext
        /\ UNCHANGED <<resetVars, checkoutVars, planVars>>
  /\ InStory'

ServicesSpec ==
  /\ ServicesInit
  /\ [][ServicesNext]_<<story, resetVars, checkoutVars, planVars, costsVars>>
  /\ WF_<<task, wake, job>>(story = "reset" /\ Steady)

ServicesTypeOK == ResetTypeOK /\ CheckoutTypeOK /\ PlanTypeOK /\ CostsTypeOK
=============================================================================
