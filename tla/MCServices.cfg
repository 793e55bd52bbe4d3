SPECIFICATION ServicesSpec
CONSTANTS
  Legacy <- NewTenant
  Appenders = {a1, a2}
  Hashes = {h1, h2}
  NoHash = NoHash
  Anchor = Anchor
  MaxAttempts = 2
  Page = 2
  ReadErrors = TRUE
  Calls = {k1, k2, k3}
  Cmds = {c1}
  NoToken = NoToken
  MaxDeaths = 1
  MaxDockerErrors = 1
  BusProcs = {p1}
  BusOwners = {o1}
  DedupeKeys = {d1, d2}
  Emits = {e1, e2}
  Ttl = 2
  MaxEntries = 1
  Attempts = 2
  MaxClock = 4
  MaxEmits = 4
  SignIns = {s1, s2}
  Disconnects = {x1}
  Refreshes = {r1}
  Accounts = {g1, g2}
  NoSignIn = NoSignIn
  MaxRefreshed = 1
  Drafts = {w1}
  Decisions = {q1, q2}
  NoDecision = NoDecision
  MaxConnections = 2
  Messages = {m1, m2}
  Deliveries = {v1, v2}
  MaxDeliveries = 3
  Runs = {u1, u2}
  NSpecs = 3
  BulkheadMax = 1
CHECK_DEADLOCK FALSE
INVARIANT ServicesTypeOK NoFork EachRetryLost OneAtWork RunsOnce FreeIsQuiet
INVARIANT DisconnectHolds SecretOfConnection SentOnce LedgerIsHonest AnsweredHasTask OneVoice
PROPERTY InterruptedIsFinal DropHasReason VerdictStands
