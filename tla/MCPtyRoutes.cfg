SPECIFICATION RoutesSpec
CONSTANTS
  Token = {t1, t2, t3}
  Sid = {s1, s2}
  Ws = {w1, w2}
  Pty = {p1, p2}
  None = None
SYMMETRY Symmetry
INVARIANT RoutesSafe
PROPERTY RestartIsScoped
CHECK_DEADLOCK FALSE
