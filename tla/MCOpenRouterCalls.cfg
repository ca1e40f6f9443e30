SPECIFICATION FairCallSpec
CONSTANTS
  t1 = t1
  t2 = t2
  NoTask = NoTask
  Task = {t1, t2}
  MaxConcurrency = 1
  Rpm = 1
  Window = 1
  MaxRetries = 2
  KeyMode = "per_request"
  RetryableCodes <- MCCodes
  Reply <- MCReply
INVARIANTS
  ClientsAgree
  CategoryFromReplies
  KeyNamesCall
PROPERTIES
  CallsEnd
