SPECIFICATION MCSpec
CONSTANTS
    valid = valid
    other = other
    invalid = invalid
    NULL = NULL
    Addresses <- MCAddresses
    Rejected <- MCRejected
    Rates <- MCRates
    FirstRate = 1152
    MaxTyped = 2
    Day = 5
    Horizon = 12
    Timeouts <- MCTimeouts
    Sleeps = 3
    Times = 3
INVARIANTS
    OnTime
    FedInTime
    SettingsInForce
    SameRate
CHECK_DEADLOCK FALSE
