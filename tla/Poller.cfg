SPECIFICATION MCSpec
CONSTANTS
  interval = interval
  cron = cron
  once = once
  daemon = daemon
  web = web
  Process = {daemon, web}
  Task = {cron, once}
  Trigger <- Triggers
  Period <- EverySecond
  FoldAt = 0
  FoldBy = 0
  Policy <- OtherPolicies
  Grace = 1
  MaxCatchUp = 3
  MaxRetries = 2
  BackoffBase = 1
  BackoffCap = 3
  MaxConcurrent = 1
  MaxTime = 4
  MaxRestarts = 1
  Faults = {"fail", "stop", "crash"}
INVARIANTS OneExecution OpenRunsOwnedAlone TriggerHandledOnceAlone
PROPERTIES NoStorm 
