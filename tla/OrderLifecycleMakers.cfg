SPECIFICATION Spec
CONSTANTS
    Order = {o1, o2, o3}
    BuyOrder = {o1}
    StopOrder = {o3}
    Priced = {o2, o3}
    MaxIntents = 3
    MaxCancels = 0
    MaxUpsets = 1
INVARIANTS
    StoreSound
    PublishedOnce
    CanceledLeavesBook
    RowIsProjection
    CausalOrder
    NoTradeDropped
    QuietMeansDone
\* the run ends when all intents and cancellations are handled
CHECK_DEADLOCK FALSE
