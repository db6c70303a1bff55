SPECIFICATION CandleSpec
CONSTANTS
    Sensitivity = 1
    AtrPeriod = 2
    TrendEmaPeriod = 3
    RsiPeriod = 2
    RsiOverbought = 20
    RsiOversold = 80
    AdxPeriod = 2
    AdxThreshold = 15
    SlMultiplier = 15
    TpMultiplier = 20
    SmoothPeriod = 5
    MaxLen = 5
    Price = {1, 4}
    BasePrice = 1
    Seeds = 2
    Lateness = 1
    MaxSlot = 2
    MaxTicks = 2
    MaxUpsets = 1
INVARIANTS
    IndicatorsInRange
    CandlesInOrder
    RsiAgreesWithChart
PROPERTIES
    NoRepeatedBuy
\* the run ends when the last interval's candle is full
CHECK_DEADLOCK FALSE
