SPECIFICATION ApartSpec
CONSTANTS
    e1 = e1
    e2 = e2
    p1 = p1
    Workers = {w1, w2}
    Entries = {e1, e2}
    Pieces = {p1}
    Featurable = {e1}
    Asked = {p1, e1}
    Edits <- MCEdits
    Rulings <- MCRulings
    Expiries = {0}
    Never = Never
    MaxNow = 1
SYMMETRY Symmetry
INVARIANTS
    OneRowEach
    PageShowsWhatApplies
    BlocklistHolds
PROPERTIES
    StaffWritesDelegated
    UnpinTakesEffect
