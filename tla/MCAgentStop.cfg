SPECIFICATION AgentSpec
CONSTANTS
    p1 = p1
    r1 = r1
    r2 = r2
    Proposals = {p1}
    Callers = {r1}
    Stored = {"approved"}
    Lots = 2
    MaxTries = 2
    MaxCalls = 3
    Nobody = Nobody
PROPERTY
    ProtectedByActiveStop
CHECK_DEADLOCK FALSE
