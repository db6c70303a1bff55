SPECIFICATION Spec
CONSTANTS
    Order = {o1}
    BuyOrder = {o1}
    StopOrder = {}
    Priced = {o1}
    MaxIntents = 1
    MaxCancels = 0
    MaxUpsets = 1
INVARIANTS
    BookIsReplayed
\* the run ends when all intents and cancellations are handled
CHECK_DEADLOCK FALSE
