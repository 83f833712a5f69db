--------------------------- MODULE MCEntitlements ---------------------------
(* Instances of Entitlements for TLC.                                        *)
EXTENDS Entitlements

CONSTANTS o1, o2, u1, u2

Own == [o \in Orders |-> o]
Shared == [o \in Orders |-> o1]
OneBuyer == [o \in Orders |-> u1]
TwoBuyers == [o \in Orders |-> IF o = o1 THEN u1 ELSE u2]

D(buyer, attempt, audited) ==
  [buyer |-> buyer, attempt |-> attempt, traceable |-> {o1}, audited |-> audited,
   on |-> ~audited]

(* One user pays twice, with one or two attempts, or two users pay; the      *)
(* provider's API names the account of the first order only; where payments  *)
(* have to consume an attempt, they are off at first.                        *)
AllDeals == {D(OneBuyer, Own, FALSE), D(TwoBuyers, Own, FALSE),
             D(OneBuyer, Shared, TRUE)}
=============================================================================
