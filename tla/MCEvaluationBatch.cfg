SPECIFICATION FairSpec
CHECK_DEADLOCK FALSE
CONSTANTS
  Run <- MCRun
  DryRuns = {}
  ClientError <- MCClientError
  MaxConcurrency = 2
  Interrupts = TRUE
  MaxFaults = 1
INVARIANTS
  DoneIsPublished
  NoHalfRun
  LeftRunningOnlyByFailure
PROPERTIES
  BatchSettles
  LedgerSpec
