SPECIFICATION FairSpec
CONSTANTS
  a = a  b = b  c = c
  Subtask = {a, b, c}
  Deps <- ForkDeps
  Prior <- ForkPrior
  Concurrency = 2
  MaxDynamicAgents = 2
  MaxReplacements = 1
  EarlierReplacements = 0
  MaxAttempts = 2
  RepairMax = 1
  SuppressThreshold = 2
  Cause <- MixedFaults
  Faults = {"stop", "cancel", "overspend", "limits", "expire"}
  ProviderFailureLimit = 2
  ConsecutiveFailureLimit = 3
INVARIANTS AttemptsBounded
PROPERTIES ImplementsPlan Terminates
