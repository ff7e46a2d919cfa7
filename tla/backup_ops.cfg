SPECIFICATION Spec
CONSTANTS
    s1 = s1
    s2 = s2
    u1 = u1
    u2 = u2
    Scopes = {s1, s2}
    Busy = {s1}
    Users = {u1, u2}
    Members <- MCMembers
    org = org
    own = own
    Configs = {org, own}
    Covers <- MCCovers
    Editors = {u1, u2}
    Threads = {t1}
    Processes = {p1}
    None = None
    Damaged = Damaged
    SecondsPerDay = 2
    NightlyFrom = 1
    Retention = 1
    Interval = 1
    MaxNow = 2
    MaxBackups <- MCMaxBackups
    MaxManual = 1
    MaxChanges = 1
    MaxDrills = 1
CHECK_DEADLOCK FALSE
INVARIANTS
    TypeOK
    RunsKeepTheirArtifact
    DrillsTellTheTruth
    OneNightlyPerDay
    OverdueAgrees
    AuditTrailKept
