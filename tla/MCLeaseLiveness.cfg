SPECIFICATION FairSpec
CONSTANTS
  Tasks = {t1}
  Keys = {}
  LeaseIds = {l1, l2, l3}
  NoLease = NoLease
  NoAction = NoAction
  Contents = {c1}
  FirstContent = c1
  NoContent = NoContent
  Workers = {w1}
  MaxSteps = 1
  MaxRenewals = 1
  MaxExits = 2
  StoreErrors = FALSE
  Requests = {}
  Offered = {}
  Deciders = {}
  MaxRetries = 0
  OperatorChecks = TRUE
CHECK_DEADLOCK FALSE
PROPERTY QueuedIsClaimed EveryLeaseEnds CompletionIsNotified
