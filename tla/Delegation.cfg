SPECIFICATION FairSpec
CONSTANTS
  s1 = s1  s2 = s2  k = k
  Slot = {s1, s2}
  Key = {k}
  MaxAgents = 3
  Ttl = 2
  Timeout = 1
  MaxWindows = 2
  MaxCreated = 2
  MaxExecutions = 1
  MaxCalls = 2
INVARIANTS WorksOnApproval NoWorkOnRevoked
PROPERTIES Answered
CHECK_DEADLOCK FALSE
