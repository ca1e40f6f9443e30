SPECIFICATION Spec
CHECK_DEADLOCK FALSE
CONSTANTS
  Run <- MCRun
  DryRuns = {}
  ClientError <- MCClientError
  MaxConcurrency = 2
  Interrupts = FALSE
  MaxFaults = 1
INVARIANTS
  CancellationRecorded
