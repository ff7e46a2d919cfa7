SPECIFICATION Spec
CONSTANTS
    Orders = {o}
    Addresses = {a}
    Pages = {p1, p2}
    Loops = {d1}
    Forms = {f1}
    MaxWrites = 1
    MaxRows = 2
    MaxKeys = 1
    Faults = {}
SYMMETRY Symmetry
INVARIANTS
    TypeOK
PROPERTIES
    CommittedCreateIsMapped
