SPECIFICATION Spec
CONSTANTS
    ana = ana
    bob = bob
    eve = eve
    User = {ana, bob, eve}
    System = System
    Opening <- MCOpening
    Seed = 2
    Grain = 2
    Price = {2}
    Quantity = {3}
    Conn = {c1, c2}
    MaxCalls = 2
    MaxFaults = 1
INVARIANTS
    BalancesHold
    DeadlockNeedsSelfTrade
PROPERTIES
    AllOrNothing
    EveryCallEnds
\* the run ends when all calls have ended
CHECK_DEADLOCK FALSE
