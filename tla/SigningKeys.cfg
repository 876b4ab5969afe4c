SPECIFICATION FairSpec
CONSTANTS
    Instances = {i1, i2}
    Requests = {r1}
    Refresher = refresher
    MaxKeys = 2
    Legacy = 2
    MaxFaults = 2
INVARIANTS
    KeysInvariant
    NoValidTokenIsUnknown
PROPERTIES
    CacheConverges
