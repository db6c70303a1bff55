SPECIFICATION Spec
CONSTANTS
    ana = ana
    bob = bob
    eve = eve
    User = {ana, bob, eve}
    System = System
    Opening <- MCOpening
    Seed = 2
    Grain = 2
    Price = {2}
    Quantity = {3}
    Conn = {c1}
    MaxCalls = 1
    MaxFaults = 0
PROPERTIES
    AlarmIsTrue
CHECK_DEADLOCK FALSE
