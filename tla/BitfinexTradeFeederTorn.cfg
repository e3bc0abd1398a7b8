\* The class comment against a cycle that fails between two markets.
SPECIFICATION Spec
CONSTANTS
    btcusd = btcusd
    ethusd = ethusd
    Markets <- TwoMarkets
    QueryLimit = 5
    MaxId = 4
    MaxRuns = 2
PROPERTY ResumeSkipsNothing
CHECK_DEADLOCK FALSE
