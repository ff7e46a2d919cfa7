SPECIFICATION Spec
CONSTANTS
    Orders = {o1, o2}
    Slots = {s1, s2}
    Addresses = {a1}
    Services = {"pickup", "delivery"}
    Meals = {1}
    Capacities = {0}
    DefaultSlotCapacity = 1
    Workers = {w1}
    NoAddress = NoAddress
    NoRow = NoRow
    Keep = Keep
SYMMETRY Symmetry
PROPERTIES
    ImplementsSlotBooking
    AcceptedOrderFrozen
