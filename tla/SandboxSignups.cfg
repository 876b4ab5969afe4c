SPECIFICATION Spec
CONSTANTS
    t1 = t1
    t2 = t2
    t3 = t3
    o1 = o1
    k1 = k1
    None = None
    Tenants = {t1, t2, t3, o1}
    Keys = {}
    Sessions = {}
    Sweepers = {}
    DayLength = 2
    LastSignup = 2
    FirstExchange = 0
    MaxTime = 3
    MaxFaults = 0
    Ledger = ledger
    Services = {ledger}
    SandboxTTL = 1
    PurgeGrace = 1
    TokenTTL = 1
    ClockSkew = 0
    SlugWindow = 1
    DailyLimit = 1
    Email <- MCEmail
    Company <- MCCompany
    Owner <- MCOwner
    Environment <- MCEnvironment
    Asked <- MCAsked
INVARIANTS
    DailyCapHolds
    SignupsAreWhole
CHECK_DEADLOCK FALSE
