SPECIFICATION FairSpec
CONSTANTS
    e1 = e1
    e2 = e2
    e3 = e3
    t1 = t1
    t2 = t2
    None = None
    Subs = {s1}
    Events = {e1, e3}
    Types = {t1, t2}
    TypeOf <- MCTypeOf
    TypeLists = {{t1}, {t2}, {}}
    Malformed = {e3}
    Dispatchers = {d1, d2}
    MaxAttempts = 2
    BatchSize = 1
    Timely = FALSE
    MaxRequeues = 1
    MaxFaults = 1
INVARIANTS
    NoEventLost
    DeliveredMeansReceived
PROPERTIES
    EveryEventIsConsumed
    EveryDeliverySettles
