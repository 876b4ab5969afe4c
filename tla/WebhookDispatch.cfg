SPECIFICATION Spec
CONSTANTS
    e1 = e1
    e2 = e2
    e3 = e3
    t1 = t1
    t2 = t2
    None = None
    Subs = {s1}
    Events = {e1, e2, e3}
    Types = {t1, t2}
    TypeOf <- MCTypeOf
    TypeLists = {{"*"}}
    Malformed = {e3}
    Dispatchers = {d1, d2}
    MaxAttempts = 2
    BatchSize = 2
    Timely = TRUE
    MaxRequeues = 0
    MaxFaults = 1
SYMMETRY Symmetry
INVARIANTS
    LeasesHold
    DeadMeansExhausted
PROPERTIES
    DeliveredIsFinal
