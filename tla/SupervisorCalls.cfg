SPECIFICATION CallsSpec
CONSTANTS
  s = s
  r = r
  p = p
  q = q
  code_agent = code_agent
  Supervisor = {s}
  Reviewer = {r}
  Nested = {code_agent}
  Provider = {p, q}
  Chain <- Providers
  Threshold = 2
  MaxTotal = 4
  MaxAgent = 2
  ParseRetries = 1
  MaxTurns = 2
  MaxStops = 2
INVARIANTS LateResultsIsolated PassedOnlyIfSaid
PROPERTIES NothingReturnedOverspent
CHECK_DEADLOCK FALSE
