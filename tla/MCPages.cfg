SPECIFICATION PagesSpec
CONSTANTS
  Tab = {1, 2}
  Cmd = {c1, c2}
  Moving = {1}
  MaxDocs = 2
  MaxLoads = 2
  Shot = {s1, s2}
  Width = {375, 1280}
SYMMETRY Interchangeable
INVARIANTS PageStateSafe ShotsCleanUp
CHECK_DEADLOCK FALSE
