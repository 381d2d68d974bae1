SPECIFICATION CtxSpec
CONSTANTS
  Agent = {a1}
  Anyone = Anyone
  MaxId = 4
  MaxContext = 3
INVARIANT ContextSafe
PROPERTY ReplacementSettles
CHECK_DEADLOCK FALSE
