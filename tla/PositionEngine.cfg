SPECIFICATION Spec
CONSTANTS
    User = {ana, bob}
    Price = {1, 3}
    Quantity = {1, 2, 3}
    MaxTrades = 2
    MaxFaults = 2
    MaxCrashes = 1
INVARIANTS
    CashFlow
    EntryPriceInRange
    ZeroSum
    SyncedUnlessRaced
PROPERTIES
    DirtyReachesTable
\* the run ends when all trades are handled and written
CHECK_DEADLOCK FALSE
