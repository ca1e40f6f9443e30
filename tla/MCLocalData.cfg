SPECIFICATION LocalSpec
CHECK_DEADLOCK FALSE
CONSTANTS
  x = x
  y = y
  i1 = i1
  i2 = i2
  Creator = {c1, c2}
  Id = {x, y}
  Installer = {i1, i2}
  Package <- MCPackage
  Members <- MCMembers
  Shipped <- MCShipped
  MaxSessions = 2
  MaxEvents = 2
  MaxLines = 8
  RecordedEvent <- MCRecordedEvent
  MaxTrajectory = 4
INVARIANTS
  CreatedIsKept
  CreatedIsFound
  InstalledIsWhole
  ImportIsOneSession
  MetricsMatchReference
