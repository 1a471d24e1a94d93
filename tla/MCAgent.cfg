SPECIFICATION AgentSpec
CONSTANTS
    p1 = p1
    r1 = r1
    r2 = r2
    Proposals = {p1}
    Callers = {r1, r2}
    Stored = {"none", "awaiting_approval", "executed"}
    Lots = 2
    MaxTries = 2
    MaxCalls = 3
    Nobody = Nobody
SYMMETRY RequestSymmetry
INVARIANTS
    AgentTypeOK
    OneEntry
    EntryNeedsApproval
    TradeIsTraced
    ExecutedIsReal
    OneStopOneClose
CHECK_DEADLOCK FALSE
