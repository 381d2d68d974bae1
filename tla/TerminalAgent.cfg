SPECIFICATION FairSpec
CONSTANTS
  Token = {t1, t2}
  Sid = {s1}
  Ws = {w1, w2, w3}
  Pty = {p1, p2}
  None = None
INVARIANT AgentSafe
PROPERTY AbandonedPtyDisposed
CHECK_DEADLOCK FALSE
