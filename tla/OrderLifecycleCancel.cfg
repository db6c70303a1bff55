SPECIFICATION Spec
CONSTANTS
    Order = {o1}
    BuyOrder = {o1}
    StopOrder = {}
    Priced = {o1}
    MaxIntents = 1
    MaxCancels = 1
    MaxUpsets = 0
INVARIANTS
    CanceledStaysOut
\* the run ends when all intents and cancellations are handled
CHECK_DEADLOCK FALSE
