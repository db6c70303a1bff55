SPECIFICATION Spec
CONSTANTS
    Order = {o1}
    BuyOrder = {}
    StopOrder = {o1}
    Priced = {o1}
    MaxIntents = 1
    MaxCancels = 0
    MaxUpsets = 0
INVARIANTS
    WaitingStaysOut
\* the run ends when all intents and cancellations are handled
CHECK_DEADLOCK FALSE
