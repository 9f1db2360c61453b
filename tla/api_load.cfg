SPECIFICATION ReadSpec
CONSTANTS
    Client = {c1, c2}
    Key = {k1}
    Ttl = 1
    MaxEntries = 1
    LoadLimit = 1
    Window = 2
    MaxPerWindow = 2
    MaxBuckets = 2
    MaxTime = 3
    none = none
PROPERTIES
    InflightIsShortLived
CHECK_DEADLOCK FALSE
