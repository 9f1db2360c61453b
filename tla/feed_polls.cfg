SPECIFICATION Spec
CONSTANTS
    none = none
    MaxShown = 2
    PollInterval = 3
    MaxLedger = 2
    MaxEmitted = 3
    MaxWaiting = 3
PROPERTY
    PollsAreSpaced
CHECK_DEADLOCK FALSE
