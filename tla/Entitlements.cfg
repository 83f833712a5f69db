\* Two orders, one place, a queue of one body, five events from outside.
CONSTANTS
  o1 = o1
  o2 = o2
  u1 = u1
  u2 = u2
  Orders = {o1, o2}
  Users = {u1, u2}
  Testers = {u1}
  MaxEvents = 5
  Deals <- AllDeals
  Capacity = 1
  MaxQueue = 1
  MaxThreads = 2
SPECIFICATION FairSpec
INVARIANTS CapacityHeld OneEntitlement AttemptBuysOnce
PROPERTIES GrantedOnce PaidIsAnswered ReturnedEnds
CHECK_DEADLOCK FALSE
