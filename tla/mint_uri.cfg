SPECIFICATION Spec
CONSTANTS
    none = none
    MaxFlows = 1
    TimeBound = 1
    Lag = 1
    MaxPolls = 3
    Interval = 1
INVARIANT
    UriReadyWhenPinned
CHECK_DEADLOCK FALSE
