\* Two orders, one place, a queue of one body, five events from outside.
CONSTANTS
  o1 = o1
  o2 = o2
  u1 = u1
  u2 = u2
  Orders = {o1, o2}
  Users = {u1, u2}
  Testers = {u1}
  MaxEvents = 5
  MaxThreads = 2
  Deals <- AllDeals
  Capacity = 1
  MaxQueue = 1
SPECIFICATION Spec
PROPERTIES OnlyOwnRefundEnds
CHECK_DEADLOCK FALSE
