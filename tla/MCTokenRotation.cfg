CONSTANTS
  Hooks = {h1, h2}
  Callers = {t1, t2}
  Calls = {c1, c2}
  MaxPairs = 3
  MaxAttempts = 2
  None = None
SPECIFICATION Spec
SYMMETRY Symmetry
CHECK_DEADLOCK FALSE
INVARIANTS
  TokenInv
  FileIsLatest
  HeldIsLatest
PROPERTIES
  ImplementsPairs
