SPECIFICATION SharedSpec
CONSTANTS
  MaxRuns = 1
  Lines = 1
  PipeSize = 1
  Notice = 1
  MaxOthers = 1
PROPERTY ResultShownIsTheRun
