SPECIFICATION Spec
CONSTANTS
  MaxTasks = 3
  MaxInMemory = 2
  LowWater = 1
  Concurrency = 1
  Resume = TRUE
  KeepHistory = FALSE
  MaxRetained = 1
  MaxAges = 1
  EngineStatus <- Outcomes
  MaxGuidance = 1
  MaxTroubles = 2
  MaxSecond = 1
INVARIANTS ResumedAtMostOnce FilesOfTheLiving

CHECK_DEADLOCK FALSE
