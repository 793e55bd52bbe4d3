SPECIFICATION FairSpec
CONSTANTS
  N = 3
  Asks = {2}
  Reviews = {1}
  Transitions = {3}
  Conditional = {2}
  Optional = {3}
  Workers = {w1, w2}
  Clients = {c1}
  NoWorker = NoWorker
  Gone = Gone
  MaxFaults = 1
  MaxStops = 1
  MaxTells = 1
  MaxEdits = 1
CHECK_DEADLOCK FALSE
INVARIANT SopTypeOK
PROPERTY  ApprovalIsUsed
