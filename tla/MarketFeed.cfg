SPECIFICATION FeedSpec
CONSTANTS
    Symbol = {s1, s2}
INVARIANTS
    OneConnection
    SourceForAll
    MixedOnlyAfterSilence
PROPERTIES
    TicksKeepComing
