SPECIFICATION MCSpec
CONSTANTS
  x = x  y = y  script = script
  MaxChars = 7
  Target = 3
  Hysteresis = 4
  KeepOutputs = 1
  Text = {x, y}
  Code = {script}
  Wanted <- Calls
  MaxCalls = 3
  MaxPerTurn = 2
  Width <- Widths
  CutNote = 2
  ReadLimits <- Limits
  MaxTurns = 2
  ExtensionMax = 1
  ExtensionTurns = 1
  MaxRuns = 2
  MaxEdits = 2
  MaxLines = 2
INVARIANTS ReceiptIsBacked Paired OwnHistory
CHECK_DEADLOCK FALSE
