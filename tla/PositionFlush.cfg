SPECIFICATION Spec
CONSTANTS
    User = {ana, bob}
    Price = {1}
    Quantity = {1}
    MaxTrades = 2
    MaxFaults = 0
    MaxCrashes = 0
INVARIANTS
    SyncedWhenClean
CHECK_DEADLOCK FALSE
