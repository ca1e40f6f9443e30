SPECIFICATION FairSpec
CHECK_DEADLOCK FALSE
CONSTANTS
  EventRequest = {"e1", "e2"}
  FinishRequest = {"f1", "f2"}
  ImportRequest = {"i1", "i2"}
  Sequence <- MCSequence
  Finish <- MCFinish
  Target <- MCTarget
  Transcript <- MCTranscript
  ApiRun <- MCApiRun
  MaxFaults = 1
  MaxRetries = 1
INVARIANTS EventAnswerIsTrue FinishIsLastRequests ImportsAllOrNothing RacesOnce
PROPERTIES RequestsAnswered
