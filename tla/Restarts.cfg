\* Two complaints about one annual invoice, both allowed by the index of the final schema.
CONSTANTS
  None = None
  Purchases = {invoice}
  Annual = {invoice}
  OrderOf <- OneOrder
  Withdrawal = withdrawal
  Kinds = {withdrawal, defect, unauthorized_charge}
  Routes = {r1}
  Worker = worker
  MaxRequests = 2
  MaxAttempts = 1
  Lease = 1
  RetryBase = 1
  RetryMax = 1
  InternalRetry = 1
  MaxFaults = 1
SPECIFICATION Spec
INVARIANT Restartable
CHECK_DEADLOCK FALSE
