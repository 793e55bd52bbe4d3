SPECIFICATION Spec
CONSTANTS
  Tasks = {t1}
  Keys = {k1}
  LeaseIds = {l1}
  NoLease = NoLease
  NoAction = NoAction
  Contents = {c1}
  FirstContent = c1
  NoContent = NoContent
  Workers = {w1}
  MaxSteps = 0
  MaxRenewals = 0
  MaxExits = 0
  StoreErrors = FALSE
  Requests = {u1}
  Offered = {"cancel"}
  Deciders = {d1, d2}
  MaxRetries = 2
  OperatorChecks = FALSE
CHECK_DEADLOCK FALSE
  
PROPERTY ClosedTaskStartsNothing
SYMMETRY Symmetry
