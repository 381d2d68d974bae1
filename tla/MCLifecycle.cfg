SPECIFICATION LifecycleSpec
CONSTANTS
  MaxAgents = 3
  MaxDaemonRuns = 2
  RespawnGuard = 1
  GuardWindow = 2
  Scan = {s1, s2}
  MaxChildren = 2
  RespawnLimit = 2
  Stream = {v1, v2}
  MaxEvents = 4
  BufferCapacity = 2
INVARIANTS WatchdogSafe ScansSafe FeedSafe
PROPERTIES DaemonLivesOn AllIsSettled
CHECK_DEADLOCK FALSE
