SPECIFICATION Spec
CONSTANTS
    MaxOrders = 4
    MaxPrice = 2
    MaxQuantity = 2
    DepthLevels = 1
INVARIANTS
    TypeOK
    IndexConsistent
    QuantitiesAgree
    NotCrossed
    TradeOncePerPair
PROPERTIES
    EveryMessageEnds
    PriceTimePriority
\* the run ends when every order has arrived and been matched or cancelled
CHECK_DEADLOCK FALSE
