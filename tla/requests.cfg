SPECIFICATION Spec
CONSTANTS
    Callers = {w1, w2}
    Devices = {d1}
    Accounts = {a1}
    NoAccount = NoAccount
    NoCaller = NoCaller
    IpLimit = 2
    UserLimit = 1
    Lag = 2
    MaxWindow = 3
    Nonces = {n1, n2}
    Receivers = {w1, w2}
    ReplayWindow = 2
    Skew = 1
    MaxNow = 5
    Attempts = {w1, w2}
    Secrets = {x1, x2}
    NoSecret = NoSecret
    MaxFailures = 3
    LockLength = 1
    MaxTime = 2
    adm = adm
    stf = stf
    k1 = k1
    k2 = k2
    Users = {adm, stf}
    Contexts = {k1, k2}
    Role <- MCRole
    Group <- MCGroup
    Threads = {w1, w2}
    Surfaces = {"dashboard"}
    SettingIds = {x1, x2}
    RuleIds = {y1, y2}
    RuleChoices <- MCRuleChoices
    Unset = Unset
    None = None
    SignedOut = SignedOut
    Orders = {1, 2}
    SlotOf <- MCSlotOf
    TypeOf <- MCTypeOf
    Cooks = {w1, w2}
SYMMETRY Symmetry
INVARIANTS
    TypesOK
    BudgetExact
    GuessesBounded
    FactorConfirmed
    FreezeHolds
    AllowedWasRight
    EtaFollowsQueue
PROPERTIES
    NonceRemembered
    LockKept
CHECK_DEADLOCK FALSE
