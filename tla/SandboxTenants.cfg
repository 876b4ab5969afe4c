SPECIFICATION FairSpec
CONSTANTS
    t1 = t1
    t2 = t2
    t3 = t3
    o1 = o1
    k1 = k1
    None = None
    Tenants = {t1}
    Keys = {k1}
    Sessions = {i1}
    Sweepers = {w1, w2}
    DayLength = 4
    LastSignup = 0
    FirstExchange = 2
    MaxTime = 3
    MaxFaults = 1
    Ledger = ledger
    Services = {ledger}
    SandboxTTL = 1
    PurgeGrace = 1
    TokenTTL = 1
    ClockSkew = 0
    SlugWindow = 1
    DailyLimit = 1
    Email <- MCEmail
    Company <- MCCompany
    Owner <- MCOwner
    Environment <- MCEnvironment
    Asked <- MCAsked
INVARIANTS
    TenantInvariant
    TokensDieAfterAnnouncement
PROPERTIES
    SandboxTenantsArePurged
    AnnouncementsReachServices
