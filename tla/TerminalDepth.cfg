SPECIFICATION Spec
CONSTANTS
    Symbol = {"BTCUSDT", "ETHUSDT"}
    Home = "BTCUSDT"
    MaxViews = 1
    MaxDrops = 0
    MaxChanges = 1
    MaxInFlight = 1
PROPERTIES
    DepthReachesTerminal
