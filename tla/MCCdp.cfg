SPECIFICATION CdpSpec
CONSTANTS
  Request = {r1, r2, r3, r4}
  Spare = r4
  Tab = {t1, t2}
  Browser = Browser
  NoSlot = NoSlot
  MaxSessions = 2
INVARIANT BridgeSafe
PROPERTIES ImplementsLock EveryCallEnds
CHECK_DEADLOCK FALSE
