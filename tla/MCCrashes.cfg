SPECIFICATION Spec
CONSTANTS
  Tasks = {t1}
  Keys = {}
  LeaseIds = {l1, l2}
  NoLease = NoLease
  NoAction = NoAction
  Contents = {c1}
  FirstContent = c1
  NoContent = NoContent
  Workers = {w1, w2}
  MaxSteps = 2
  MaxRenewals = 0
  MaxExits = 1
  StoreErrors = TRUE
  Requests = {u1}
  Offered = {"pause"}
  Deciders = {}
  MaxRetries = 0
  OperatorChecks = TRUE
CHECK_DEADLOCK FALSE
PROPERTY ProgressFenced 
SYMMETRY Symmetry
