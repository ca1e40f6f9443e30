SPECIFICATION FairReadersSpec
CHECK_DEADLOCK FALSE
CONSTANTS
  r1 = r1
  r2 = r2
  Run = {r1, r2}
  DryRuns = {r1}
  ClientError <- MCClientError
  PageSize = 1
INVARIANTS
  PublishedRunIsWhole
  ReturnedIsPublished
  FinalReadIsWhole
  WalkSkipsNothing
PROPERTIES
  AgentFailureIsRecorded
  LedgerSpec
