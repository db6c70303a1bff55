SPECIFICATION Spec
CONSTANTS
    Symbol = {"BTCUSDT", "ETHUSDT"}
    Home = "BTCUSDT"
    MaxViews = 2
    MaxDrops = 1
    MaxChanges = 1
    MaxInFlight = 1
INVARIANTS
    ChartOfSymbol
    RoomsWhenSettled
PROPERTIES
    EventuallyInRoom
