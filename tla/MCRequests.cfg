SPECIFICATION Spec
CONSTANTS
  Tasks = {t1}
  Keys = {}
  LeaseIds = {l1, l2}
  NoLease = NoLease
  NoAction = NoAction
  Contents = {c1}
  FirstContent = c1
  NoContent = NoContent
  Workers = {w1, w2}
  MaxSteps = 1
  MaxRenewals = 1
  MaxExits = 0
  StoreErrors = FALSE
  Requests = {u1}
  Offered = {"pause", "resume", "cancel", "retry", "escalate", "answer"}
  Deciders = {}
  MaxRetries = 0
  OperatorChecks = TRUE
CHECK_DEADLOCK FALSE
INVARIANT TypeOK LeaseIffRunning OneRunSucceeds
PROPERTY ParkedStaysParked FinalIsFinal
SYMMETRY Symmetry
