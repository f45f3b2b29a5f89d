SPECIFICATION Spec
CONSTANTS
  Requests <- MCRequests
  Planned <- MCPlanned
  EnableRouter = TRUE
  FastPathEnabled = TRUE
  Proposals <- MCProposals
  Revisions <- MCRevisions
  Registered <- MCRegistered
  Approved <- MCAssignable
  Assignable <- MCAssignable
  File <- MCFile
  ReportFile <- MCReportFile
  MaxMerges = 1
  MaxReplan = 1
  RiskBased = TRUE
  MaxConcurrency = 3
  Objective = "time_first"
  NetGainThreshold = 0
  MinSpeedup = 0
INVARIANTS CompletedByTools PlanIsFaithful AdoptionKeepsValid UnprovenNeverParallel
