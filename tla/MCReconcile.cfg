SPECIFICATION FairReconcileSpec
CONSTANTS
    a = a
    b = b
    leg = leg
    openA = openA
    closeA = closeA
    stopA = stopA
    minute = minute
    loop = loop
    Owners = {a, b}
    Slots = {leg}
    Orders = {openA, closeA}
    Nobody = Nobody
    Request <- OneLot
    Quantities <- MCQuantities
    Workers = {loop, minute}
    Observers = {loop, minute}
    Sweeps = {minute}
    Minute = minute
    Rounds <- BeforeA
    AutoStrategy = b
    Market = {}
    Repeated = {}
    Cancelable = {}
    ManualLots <- SoldByHand
    MaxRestarts = 1
INVARIANT
    ReconcileTypeOK
PROPERTIES
    ImplementsLedger
    EndedOrdersSettle
    FlatLegsAreReleased
