SPECIFICATION Spec
CONSTANTS
    Caller = {c1, c2}
    PageLimit = 2
    MaxStored = 2
    Lookback = 4
    MinLookback = 1
    Retention = 3
    MaxLedger = 5
    none = none
INVARIANTS
    FeedHasNoGaps
PROPERTIES
    HistoryKept
    CallersAnswered
    CatchesUp
