SPECIFICATION Spec
CONSTANTS
  N = 2
  Asks = {1, 2}
  Reviews = {}
  Transitions = {}
  Conditional = {}
  Optional = {}
  Workers = {w1}
  Clients = {c1, c2}
  NoWorker = NoWorker
  Gone = Gone
  MaxFaults = 0
  MaxStops = 0
  MaxTells = 3
  MaxEdits = 0
CHECK_DEADLOCK FALSE
PROPERTY TellIsCurrent
