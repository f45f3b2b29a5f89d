SPECIFICATION FairSpec
CONSTANTS
  a = a
  b = b
  Subtask = {a, b}
  Graphs <- All
  Tooled = {a, b}
  Absent = {b}
  Config = {"always", "risk_based", "off", "simple", "provisional"}
  MaxReplan = 1
  MaxNetwork = 1
  Watched = TRUE
  Deadline = TRUE
  MaxResumes = 1
INVARIANTS ClosedOnReturn DeliveredIsVerified
PROPERTIES StopIsFinal Terminates
CHECK_DEADLOCK FALSE
