SPECIFICATION VisitedSpec
CONSTANTS
    Orders = {o}
    Addresses = {a}
    Pages = {p1}
    Loops = {d1}
    Forms = {f1}
    MaxWrites = 2
    MaxRows = 2
    MaxKeys = 2
    Faults = {"unreachable"}
INVARIANTS
    AppliedOnceOrRefused
PROPERTIES
    MappingKept
    CommittedCreateIsMapped
    QueuedWritesSettle
