SPECIFICATION AuditSpec
CONSTANTS
  Legacy <- NewTenant
  Appenders = {a1, a2}
  Hashes = {h1, h2, h3}
  NoHash = NoHash
  Anchor = Anchor
  MaxAttempts = 2
  Page = 9
  ReadErrors = FALSE
CHECK_DEADLOCK FALSE
INVARIANT IntactVerifies
