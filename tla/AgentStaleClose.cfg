SPECIFICATION Spec
CONSTANTS
  Token = {t1, t2, t3}
  Sid = {s1}
  Ws = {w1, w2, w3}
  Pty = {p1}
  None = None
INVARIANT AttachedIsNotDetached
CHECK_DEADLOCK FALSE
