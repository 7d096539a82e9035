CONSTANTS
    r1 = r1
    r2 = r2
    w1 = w1
    w2 = w2
    None = None
    Events = {1, 2}
    Integrations = {1}
    Rules = {r1, r2}
    Target <- MCTarget
    Sweepers = {w1, w2}
    Settle = 1
    SiemBatch = 1
    RuleBatch = 3
    MaxAttempts = 2
    Tries = 2
    MaxClock = 1
    MaxSweeps = 3
    MaxOperations = 2
SYMMETRY Symmetry
SPECIFICATION Spec
CHECK_DEADLOCK FALSE
INVARIANTS
    DeliveryInv
    AttemptsAreBounded
