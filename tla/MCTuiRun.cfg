SPECIFICATION FairSpec
CONSTANTS
  MaxRuns = 2
  Lines = 2
  PipeSize = 1
  Notice = 1
  MaxOthers = 0
INVARIANTS IdleMeansNoChild ProgressHasNoGap ToldTheTruth
PROPERTIES CancelSeenThrough RunEnds
