SPECIFICATION ReconcileSpec
CONSTANTS
    a = a
    b = b
    leg = leg
    openA = openA
    closeA = closeA
    stopA = stopA
    minute = minute
    loop = loop
    Owners = {a, b}
    Slots = {leg}
    Orders = {openA}
    Nobody = Nobody
    Request <- TwoLots
    Quantities <- MCQuantities
    Workers = {loop, minute}
    Observers = {loop, minute}
    Sweeps = {minute}
    Minute = minute
    Rounds <- OnlyA
    AutoStrategy = a
    Market = {}
    Repeated = {}
    Cancelable = {}
    ManualLots = {0}
    MaxRestarts = 0
INVARIANT
    LegsStayManaged
