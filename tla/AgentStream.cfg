SPECIFICATION StreamSpec
CONSTANTS
  c1 = c1
  c2 = c2
  c3 = c3
  plain = plain
  long = long
  NoId = NoId
  ToolCall = {c1, c2, c3}
  Tool = {plain, long}
  ToolOf <- Tools
  Profile <- Timed
  Settings <- Timeouts
  Unnamed = {{}, {c1, c3}}
  Interval = 2
  MaxSilence = 3
  MaxEvents = 1
INVARIANTS NoToolCutEarly EveryCallSettledOnce 
PROPERTIES SilenceEnds
CHECK_DEADLOCK FALSE
