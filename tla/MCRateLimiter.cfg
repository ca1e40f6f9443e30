\* More tasks than permits, more permits than slots of the window: every queue
\* forms, and both limits bind.
SPECIFICATION FairSpec
CONSTANTS
  Task = {t1, t2, t3, t4}
  MaxConcurrency = 3
  Rpm = 2
  Window = 2
  NoTask = NoTask
INVARIANT TypeOK
INVARIANT ConcurrencyBound
INVARIANT PermitAccounting
INVARIANT RateBound
INVARIANT WindowListed
PROPERTY WaitersMoveOn
PROPERTY LockMovesOn
