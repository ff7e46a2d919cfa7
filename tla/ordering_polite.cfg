SPECIFICATION PoliteSpec
CONSTANTS
    Orders = {o1, o2, o3}
    Slots = {s1}
    Addresses = {}
    Services = {"pickup"}
    Meals = {1}
    Capacities = {}
    DefaultSlotCapacity = 1
    Workers = {w1, w2}
    NoAddress = NoAddress
    NoRow = NoRow
    Keep = Keep
SYMMETRY Symmetry
CHECK_DEADLOCK FALSE
INVARIANTS
    TimelineComplete
    OverbookingBounded
    RowsConsistent
PROPERTIES
    LifecycleFollowed
