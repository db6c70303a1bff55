SPECIFICATION Spec
CONSTANTS
    Subscriber = {s1}
    MaxMessages = 3
    MaxFaults = 0
    MaxCrashes = 0
INVARIANTS
    StartsAtTail
