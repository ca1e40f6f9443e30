SPECIFICATION Spec
CONSTANTS
  Task = {t1, t2, t3}
  MaxConcurrency = 2
  Rpm = 1
  Window = 2
  NoTask = NoTask
INVARIANT AllPermitsReturn
