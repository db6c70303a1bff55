SPECIFICATION Spec
CONSTANTS
    Subscriber = {s1, s2}
    MaxMessages = 3
    MaxFaults = 1
    MaxCrashes = 1
INVARIANTS
    AtMostOnceInOrder
    GapFreeAfterFirst
PROPERTIES
    BacklogIsHandled
