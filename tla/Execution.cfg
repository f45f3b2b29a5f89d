SPECIFICATION MCSpec
CONSTANTS
  coding = coding  tables = tables
  script = script  table = table
  Subtask = {coding, tables}
  File = {script, table}
  Tools <- ToolsOf
  Script = {script}
  Written <- WrittenBy
  Answers <- AnswersGiven
  Scope <- Scopes
  Rules <- RulesOf
  EarlierFiles <- Earlier
  EarlierIndexes <- Indexes
  EarlierStore <- Store
  MaxAttempts = 2
  MaxReplacements = 1
  MaxRepairs = 1
  MaxReworks = 1
  MaxReplans = 1
INVARIANTS SuccessBacked EvidenceOfThisAttempt StagedWereRecorded PhaseMirrors
CHECK_DEADLOCK FALSE
