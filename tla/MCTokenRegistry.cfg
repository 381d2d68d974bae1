SPECIFICATION AccessSpec
CONSTANTS
  Key = {k1, k2, k3, k4}
  Client = {a1, a2}
  Cap = {read, write}
  None = None
  a = a
  b = b
  ScopeName = {admin}
  Label = {a, b}
  Host <- Hosts
  Rate = {0, 1, 2}
  MaxOffers = 2
  WindowTicks = 2
  MaxTicks = 5
  MaxRan = 5
  Ttl = 2
  MaxSessions = 2
  Batch = 2
  MaxTime = 5
  MaxMints = 4
SYMMETRY Symmetry
INVARIANTS RegistrySafe LimitsHold
PROPERTIES NoNeedlessLogout StoresCorrect
CHECK_DEADLOCK FALSE
