SPECIFICATION DaemonSpec
CONSTANTS
  Cli = {c1, c2}
  MaxDaemons = 2
  MaxFaults = 1
  MaxTakeovers = 1
  MaxRespawns = 1
  Tab = {t1, t2}
  MaxStarts = 2
  Request = {r1, r2}
  MaxTunnels = 3
  Conn = {k1, k2}
  MaxBytes = 5
  Buffers = 2
  Capacity = 2
  MaxAdded = 4
  MaxFailures = 2
  Owner = {d1, d2}
  Display = {99, 100}
  MaxPids = 2
  MaxLaunches = 2
  Writer = {w1, w2, w3}
  MaxLines = 4
  MaxCrashes = 1
  Op = {o1, o2}
  PromoteThreshold = 2
  MaxRows = 4
  MaxBodies = 2
  Staging = {s1, s2}
  Run = {r1}
  Tier = {1, 2}
  File = {md, ts}
  Script = ts
  MaxByHand = 1
  Elem = {e1, e2}
  Matched = {e1}
  Value = {"v1"}
  CssReq = {q1, q2}
  HistCap = 2
  MaxMods = 3
  Job = {j1, j2}
  Site = {x1, x2}
  Platform = {"darwin", "linux", "win32"}
  MaxContexts = 2
SYMMETRY Symmetry
INVARIANTS FilesSafe TunnelSafe SocksSafe NotesPerSiteSafe PickerCorrect
PROPERTIES StartCorrect XvfbCorrect LedgerCorrect StylesCorrect SkillFilesCorrect
CHECK_DEADLOCK FALSE
