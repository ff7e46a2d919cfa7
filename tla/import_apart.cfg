SPECIFICATION ApartSpec
CONSTANTS
    m1 = m1
    r1 = r1
    Ann = Ann
    annMail = annMail
    annPhone = annPhone
    otherPhone = otherPhone
    aria = aria
    Blank = Blank
    Batches = {m1, r1}
    Roster = {r1}
    Csv <- MCCsv
    Seeded <- MCSeeded
    Workers = {w1, w2}
    MaxEntries = 3
    MaxRuns = 2
    MaxMerges = 2
SYMMETRY Symmetry
INVARIANTS
    DirectoryExplained
    RowsSettled
