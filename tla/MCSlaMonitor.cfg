CONSTANTS
    r1 = r1
    r2 = r2
    i1 = i1
    i2 = i2
    ticker = ticker
    http = http
    Runs = {r1, r2}
    Items = {i1}
    TickerRuns = {r1, r2}
    Jobs = {ticker, http}
    JobOf <- NameOfTrigger
    None = None
    MaxReminders = 2
SPECIFICATION SlaSpec
INVARIANTS
    SlaInv
    RemindedOnce
PROPERTIES
    SuccessReminds
