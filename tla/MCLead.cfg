\* Two connections may be lost or calls fail, and the supervisor runs twice.
CONSTANTS
    Holdings = {position}
    AccountOrders = {resting}
    MaxHolding = 1
    MaxGeneration = 6
    MaxMishaps = 2
    Opens = {open}
    Simulated = TRUE
    MaxRuns = 2
SPECIFICATION MCSpec
INVARIANTS
    LeadTypeOK
    
    
    HoldIsReported
PROPERTIES
    NoLateOrOldEvent
    ReleasedByOwnProof
    SubmitsUndisturbed
    OpenEventuallyReturns
    StreamRecovers
CHECK_DEADLOCK FALSE
