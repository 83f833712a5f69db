\* One annual invoice, a withdrawal and a complaint, two attempts, one fault or restart.
CONSTANTS
  None = None
  Purchases = {invoice}
  Annual = {invoice}
  OrderOf <- OneOrder
  Withdrawal = withdrawal
  Kinds = {withdrawal, complaint}
  Routes = {r1}
  Worker = worker
  MaxRequests = 2
  MaxAttempts = 2
  Lease = 1
  RetryBase = 1
  RetryMax = 2
  InternalRetry = 1
  MaxFaults = 1
SPECIFICATION FairSpec
INVARIANTS TypeOK OneOwner OneRequestEach
PROPERTIES Implements Settles
CHECK_DEADLOCK FALSE
