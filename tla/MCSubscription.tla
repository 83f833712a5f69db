--------------------------- MODULE MCSubscription ---------------------------
(***************************************************************************)
(* Small instances of Subscription for TLC.                                *)
(***************************************************************************)
EXTENDS Subscription

CONSTANTS s1, s2, a1, a2, u1

\* Every purchase names the one checkout attempt of the one user.
OneAttemptOf == [s \in Subs |-> a1]
OneOwner     == [a \in Attempts |-> u1]
\* No purchase outside the payment window of its attempt.
NoLatePair   == {}

\* A returning customer: one user, one checkout attempt per subscription.
OwnAttempt == [s \in Subs |-> IF s = s1 THEN a1 ELSE a2]

\* The one run of the reconciliation starts before the second period does and
\* meets three operations of the provider; without it there are four.
RunsEarly == runs = 0 \/ (now <= 1 /\ rev <= 3)

\* Of a customer who returns, only these webhooks are lost.
Secondary == {"subscription_updated", "order_created"}

\* One subscription over two periods, or a customer who returns once.
OneOrReturning ==
    /\ RunsEarly
    /\ attempts[a2].status # "none" =>
         /\ now <= 1 /\ rev <= 3
         /\ \A s \in Subs : bill[s][2].status = "none"
         /\ \A key \in processed : key[1] = "webhook" => key[2].name \notin Secondary

\* Of what may happen to a returning customer: the first subscription is never
\* refunded, the second never cancelled, and the orders' own webhooks are lost.
FirstEndsSecondReturned ==
    /\ bill[s1][1].status \in {"none", "paid"}
    /\ prov[s2].status \in {"none", "active"}
    /\ \A key \in processed : key[1] = "webhook" => key[2].name # "order_created"
=============================================================================
