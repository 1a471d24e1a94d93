\* One connection is lost; the supervisor runs once.
CONSTANTS
    Holdings = {position}
    AccountOrders = {resting}
    MaxHolding = 1
    MaxGeneration = 3
    MaxMishaps = 1
    Opens = {open}
    Simulated = TRUE
    MaxRuns = 1
SPECIFICATION MCSpec
PROPERTY StreamFaultClears
CHECK_DEADLOCK FALSE
