SPECIFICATION Spec
CONSTANTS
    e1 = e1
    e2 = e2
    p1 = p1
    Workers = {w1}
    Entries = {e1, e2}
    Pieces = {p1}
    Featurable = {e1, e2}
    Asked = {p1}
    Edits <- MCEdits
    Rulings <- MCNoRulings
    Expiries = {Never}
    Never = Never
    MaxNow = 2
PROPERTIES
    PinLimitKept
