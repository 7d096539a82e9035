CONSTANTS
    d1 = d1
    d2 = d2
    c1 = c1
    c2 = c2
    c3 = c3
    s1 = s1
    s2 = s2
    a1 = a1
    None = None
    EnvOf <- MCEnvOf
    Ids = {d1}
    WorkerCalls = {c1}
    WebCalls = {}
    GatewayCalls = {}
    Sweeps = {s1}
    Audits = {}
    BatchSize = 1
    Capacity = 1
    MaxPeriod = 1
SPECIFICATION FairSpec
CHECK_DEADLOCK FALSE
PROPERTIES
    DeletedWasArchived
