SPECIFICATION MCSpec
CONSTANTS
  p1 = p1
  p2 = p2
  good = good
  odd = odd
  NoFile = NoFile
  local = local
  remote = remote
  x = x
  y = y
  u = u
  v = v
  Nobody = Nobody
  Task = {p1, p2}
  Tool = {1, 2}
  Code = {good, odd}
  Safe = {good}
  Correct = {good, odd}
  Threshold = 1
  Faults = {"crash", "timeout"}
  MaxWrites = 2
  MaxUses = 2
  MaxAdmin = 1
  Server = {local, remote}
  Stdio = {local}
  ExternalTool = {x, y}
  OwnName <- Taken
  Caller = {u, v}
  MaxLines = 2
  MaxConnections = 3
  MaxChildren = 2
  MaxEdits = 2
  MaxNoise = 1
INVARIANTS ApprovedWasReviewed UsesCounted ExternalToolsSound
CHECK_DEADLOCK FALSE
