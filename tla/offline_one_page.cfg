SPECIFICATION Spec
CONSTANTS
    Orders = {o}
    Addresses = {}
    Pages = {p1}
    Loops = {d1}
    Forms = {f1, f2}
    MaxWrites = 2
    MaxRows = 1
    MaxKeys = 2
    Faults = {"unreachable", "lost"}
SYMMETRY Symmetry
PROPERTIES
    NothingDropped
    OnlyWantedWritesApplied
