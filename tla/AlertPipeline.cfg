\* One market with a rule of every kind, and the two-stage message.
SPECIFICATION AlertSpec
CONSTANTS
    eth = eth
    Markets <- OneMarket
    CacheNum = 3
    WaitFirst = FALSE
    MaxPeriod = 4
    Levels = {8, 10, 13}
    Before = 10
    Rules <- AllRules
    NumStages = 2
INVARIANTS
    AlertTypeOK
    ShownIsPresent
PROPERTY AlertsOnCrossings
CHECK_DEADLOCK FALSE
