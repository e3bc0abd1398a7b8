\* Two markets, a restart, a page limit below the number of trades.
SPECIFICATION Spec
CONSTANTS
    btcusd = btcusd
    ethusd = ethusd
    Markets <- TwoMarkets
    QueryLimit = 2
    MaxId = 4
    MaxRuns = 2
INVARIANTS
    GapsAreWarned
    WatermarkDurable
    FedAtMostTwice
PROPERTIES
    ResumesForward
    EveryTradePassed
CHECK_DEADLOCK FALSE
