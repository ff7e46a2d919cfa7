SPECIFICATION ClientSpec
CONSTANTS
    u1 = u1
    u2 = u2
    k1 = k1
    k2 = k2
    Sessions <- MCSessions
    Freezable <- MCFreezable
    Tasks = {t1}
    Items = {i1}
    Nobody = Nobody
    NoContext = NoContext
    Missing = Missing
    Unsent = Unsent
    Unreadable = Unreadable
INVARIANTS
    ClientTypeOK
    SignedOutLeavesNothing
PROPERTIES
    ServedInContext
