CONSTANTS
    r1 = r1
    r2 = r2
    r3 = r3
    sweep = sweep
    None = None
    Jobs = {sweep}
    Runs = {r1, r2}
    TickerRuns = {r1}
    JobOf <- MCJobOf
SPECIFICATION FairSpec
INVARIANTS
    LeaseInv
PROPERTIES
    OutcomeStands
    OpenRunKeepsItsLease
    ImplementsLease
    CrashedRunIsClosed
    DisplacedSweepStops
