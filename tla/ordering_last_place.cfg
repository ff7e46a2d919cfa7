SPECIFICATION PoliteSpec
CONSTANTS
    Orders = {o1, o2}
    Slots = {s1}
    Addresses = {a1}
    Services = {"pickup"}
    Meals = {1}
    Capacities = {}
    DefaultSlotCapacity = 1
    Workers = {w1, w2}
    NoAddress = NoAddress
    NoRow = NoRow
    Keep = Keep
SYMMETRY Symmetry
PROPERTIES
    ConfirmRespectsCapacity
