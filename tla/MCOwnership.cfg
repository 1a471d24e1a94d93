SPECIFICATION OwnershipSpec
CONSTANTS
    a = a
    b = b
    leg = leg
    openA = openA
    openB = openB
    closeA = closeA
    Owners = {a, b}
    Slots = {leg}
    Orders = {openA, openB, closeA}
    Nobody = Nobody
    Request <- MCRequest
    Quantities <- MCQuantities
INVARIANTS
    TypeOK
    OpenMeansQuantity
    SlotExclusive
PROPERTIES
    NeverAdoptManualIncrease
    ImplementsSlotOwnership
