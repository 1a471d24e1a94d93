SPECIFICATION ExecutionSpec
CONSTANTS
    a = a
    b = b
    leg = leg
    openA = openA
    openB = openB
    closeA = closeA
    w1 = w1
    w2 = w2
    Owners = {a, b}
    Slots = {leg}
    Orders = {openA, openB, closeA}
    Nobody = Nobody
    Request <- MCRequest
    Quantities <- MCQuantities
    Workers = {w1}
    Market = {openB}
    Repeated = {openB}
    Cancelable = {}
    ManualLots = {0}
PROPERTY DeferredStaysFailed
