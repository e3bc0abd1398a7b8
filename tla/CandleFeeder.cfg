\* Two markets, failures and overruns over several periods.
SPECIFICATION Spec
CONSTANTS
    eth = eth
    xmr = xmr
    Markets <- TwoMarkets
    CacheNum = 3
    WaitFirst = FALSE
    MaxPeriod = 5
INVARIANTS
    CacheIsSeries
    HolesAreExplained
PROPERTY CyclesGoOn
CHECK_DEADLOCK FALSE
