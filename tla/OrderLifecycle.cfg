SPECIFICATION Spec
CONSTANTS
    Order = {o1, o2}
    BuyOrder = {o1}
    StopOrder = {o2}
    Priced = {o1, o2}
    MaxIntents = 2
    MaxCancels = 2
    MaxUpsets = 1
INVARIANTS
    StoreSound
    PublishedOnce
    CanceledLeavesBook
    RowIsProjection
    CausalOrder
    NoTradeDropped
    QuietMeansDone
\* the run ends when all intents and cancellations are handled
CHECK_DEADLOCK FALSE
