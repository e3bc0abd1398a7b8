\* Every request over three prices, the code's ten candles for a pullback, and three more.
SPECIFICATION Spec
CONSTANTS
    Levels = {100, 104, 150}
    TakerFee <- MCFee
    ExitFee <- MCFee
    MaxPullbackEntryCandles = 10
    NumCandles = 13
INVARIANTS
    TargetPays
    FeesExplainProfit
    SkipMissesNothing
PROPERTY Settles
CHECK_DEADLOCK FALSE
