SPECIFICATION Spec
CONSTANTS
  Tasks = {t1}
  Keys = {k1}
  LeaseIds = {l1}
  NoLease = NoLease
  NoAction = NoAction
  Contents = {c1, c2}
  FirstContent = c1
  NoContent = NoContent
  Workers = {w1}
  MaxSteps = 0
  MaxRenewals = 0
  MaxExits = 0
  StoreErrors = FALSE
  Requests = {}
  Offered = {}
  Deciders = {d1}
  MaxRetries = 0
  OperatorChecks = TRUE
CHECK_DEADLOCK FALSE
INVARIANT ApprovedContentOnly
