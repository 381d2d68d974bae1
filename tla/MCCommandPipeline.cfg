SPECIFICATION CommandsSpec
CONSTANTS
  Call = {c1, c2}
  Agent = {a1}
  Root = Root
  MaxTab = 3
  NoTab = NoTab
SYMMETRY Symmetry
INVARIANTS TabTableSafe CommandsSafe
CHECK_DEADLOCK FALSE
