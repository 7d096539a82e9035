CONSTANTS
  Hooks = {h1, h2}
  Files = {f1}
  Plans <- SmallPlans
  MaxId = 2
  None = None
SPECIFICATION Spec
SYMMETRY Symmetry
CHECK_DEADLOCK FALSE
INVARIANTS
  HookInv
  NothingVanishes
  AuditAgrees
