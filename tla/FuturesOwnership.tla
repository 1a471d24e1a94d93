-------------------------- MODULE FuturesOwnership --------------------------
(***************************************************************************)
(* The ownership ledger of service/futuresownership/service.go: the tables *)
(* futures_managed_orders and futures_managed_positions of one account and *)
(* the operations that write them.  Every operation that reads before it   *)
(* writes runs under mutationMu and, where it writes both tables, inside a *)
(* transaction, and the others are one UPDATE statement, so each operation *)
(* is one step.  Callers are arbitrary here: any operation may be called   *)
(* at any time with any argument.  OrderExecution restricts them to what   *)
(* the order executor does.                                                *)
(*                                                                         *)
(* Quantities are integers (a lot is a unit); qtyEpsilon only absorbs the  *)
(* rounding of floats.  An owner has at most one open position row in a    *)
(* slot, so the newest row of each (slot, owner) is the state: older rows  *)
(* are history no operation reads.                                         *)
(***************************************************************************)
EXTENDS Integers

CONSTANTS Owners,       \* the strategies that trade on the account
          Slots,        \* (symbol, position side)
          Orders,       \* client order ids
          Request,      \* what each client order id asks for
          Quantities,   \* quantities a fill or an account read may report
          Nobody        \* the holder of a slot without a managed position

Intents == {"open", "close", "take_profit", "stop_loss"}

RequestType ==
    [owner : Owners, slot : Slots, intent : Intents, qty : Nat \ {0}]

ASSUME RequestAssumption == Request \in [Orders -> RequestType]
ASSUME QuantitiesAssumption == Quantities \subseteq Nat
ASSUME NobodyAssumption == Nobody \notin Owners

VARIABLES orders,       \* futures_managed_orders, by client order id
          positions     \* futures_managed_positions, by slot and owner

ownershipVars == <<orders, positions>>

LiveStatuses == {"pending", "submitted", "partially_filled", "reconcile_required"}
DoneStatuses == {"filled", "canceled", "failed"}

\* status "none": no row carries the client order id.  No operation here reads
\* exchange_order_id; OrderExecution adds it.
OrderRow ==
    [status : {"none"} \cup LiveStatuses \cup DoneStatuses,
     filled : Nat]

\* aged: last_reconciled_at is at least ten seconds old.  Only a row in
\* reconcile_required is ever asked, so it is FALSE in every other row.
PositionRow ==
    [status : {"closed", "active", "reconcile_required"},
     qty : Nat,
     aged : BOOLEAN]

TypeOK ==
    /\ orders \in [Orders -> OrderRow]
    /\ positions \in [Slots -> [Owners -> PositionRow]]

NoOrder == [status |-> "none", filled |-> 0]
NoPosition == [status |-> "closed", qty |-> 0, aged |-> FALSE]
ActivePosition(q) == [status |-> "active", qty |-> q, aged |-> FALSE]

OwnershipInit ==
    /\ orders = [o \in Orders |-> NoOrder]
    /\ positions = [s \in Slots |-> [ow \in Owners |-> NoPosition]]

-----------------------------------------------------------------------------
Claimed(o) == orders[o].status # "none"
Live(o) == orders[o].status \in LiveStatuses
IsOpen(o) == Request[o].intent = "open"

Position(o) == positions[Request[o].slot][Request[o].owner]

\* The owner has an open position row in the slot.
Holds(ow, s) == positions[s][ow].status # "closed"

\* Mistakes: only the orders, or only the managed positions, are asked.
SlotFreeOfOrders(s, o) ==
    \A p \in Orders \ {o} : Request[p].slot = s /\ IsOpen(p) => ~Live(p)

SlotFreeOfPositions(s, o) == \A ow \in Owners : ~Holds(ow, s)

\* ensureSlotAvailable, for order o: nobody manages a quantity in the slot
\* and no other open order of the slot is unresolved.
SlotAvailable(s, o) ==
    /\ \A ow \in Owners : ~(Holds(ow, s) /\ positions[s][ow].qty > 0)
    /\ \A p \in Orders \ {o} :
          Request[p].slot = s /\ IsOpen(p) => ~Live(p)

LiveCloseExists(ow, s) ==
    \E p \in Orders : /\ Request[p].owner = ow
                      /\ Request[p].slot = s
                      /\ Request[p].intent = "close"
                      /\ Live(p)

\* An order that reduces a position asks for no more than is managed, and an
\* owner has one unresolved close in a slot.
ReduceAllowed(o) ==
    LET r == Request[o] IN
    /\ r.intent = "close" => ~LiveCloseExists(r.owner, r.slot)
    /\ Holds(r.owner, r.slot)
    /\ r.qty <= Position(o).qty

SetOrder(o, row) == orders' = [orders EXCEPT ![o] = row]
SetPosition(s, ow, row) == positions' = [positions EXCEPT ![s][ow] = row]

-----------------------------------------------------------------------------
ClaimAllowed(o) ==
    /\ ~Claimed(o)
    /\ IF IsOpen(o) THEN SlotAvailable(Request[o].slot, o) ELSE ReduceAllowed(o)

\* ClaimOrder inserts the row; a second call for the same id changes nothing.
ClaimOrder(o) ==
    /\ ClaimAllowed(o)
    /\ SetOrder(o, [NoOrder EXCEPT !.status = "pending"])
    /\ UNCHANGED positions

\* Mistake: an UPDATE without the condition on the status.
ReserveAnyStatus(o) ==
    /\ Claimed(o)
    /\ SetOrder(o, [orders[o] EXCEPT !.status = "submitted"])
    /\ UNCHANGED positions

\* The compare-and-swap that precedes every exchange request.
ReserveSubmission(o) ==
    /\ orders[o].status = "pending"
    /\ SetOrder(o, [orders[o] EXCEPT !.status = "submitted"])
    /\ UNCHANGED positions

MarkOrderSubmitted(o) ==
    /\ Claimed(o)
    /\ SetOrder(o, [orders[o] EXCEPT !.status = "submitted"])
    /\ UNCHANGED positions

SetOrderStatus(o, status) ==
    /\ Claimed(o)
    /\ SetOrder(o, [orders[o] EXCEPT !.status = status])
    /\ UNCHANGED positions

-----------------------------------------------------------------------------
StatusAfterFill(o, q) ==
    IF q >= Request[o].qty THEN "filled"
    ELSE IF q > 0 THEN "partially_filled"
    ELSE orders[o].status

\* Mistake: the slot is not asked again when an open's fill arrives.
FillAllowedOnceClaimed(o, q) ==
    /\ Claimed(o)
    /\ q >= orders[o].filled
    /\ Holds(Request[o].owner, Request[o].slot) \/ IsOpen(o)

\* The fill is booked only if the rows allow it; otherwise the transaction is
\* rolled back and ApplyFill returns an error.
FillAllowed(o, q) ==
    /\ Claimed(o)
    /\ q >= orders[o].filled
    /\ q > orders[o].filled =>
          \/ Holds(Request[o].owner, Request[o].slot)
          \/ IsOpen(o) /\ SlotAvailable(Request[o].slot, o)

\* Mistake: the rest is neither bounded by zero nor closed at zero.
PositionBareSubtraction(o, delta) ==
    LET row == Position(o) IN
    IF IsOpen(o)
    THEN ActivePosition((IF row.status = "closed" THEN 0 ELSE row.qty) + delta)
    ELSE [row EXCEPT !.qty = @ - delta]

\* A position row after delta lots of order o have been booked on it.
PositionAfterFill(o, delta) ==
    LET row == Position(o) IN
    IF IsOpen(o)
    THEN ActivePosition((IF row.status = "closed" THEN 0 ELSE row.qty) + delta)
    ELSE IF row.qty > delta THEN [row EXCEPT !.qty = @ - delta]
    ELSE NoPosition

\* ApplyFill takes the cumulative filled quantity of the order.
ApplyFill(o, q) ==
    /\ FillAllowed(o, q)
    /\ SetOrder(o, [orders[o] EXCEPT !.filled = q, !.status = StatusAfterFill(o, q)])
    /\ IF q = orders[o].filled
       THEN UNCHANGED positions
       ELSE SetPosition(Request[o].slot, Request[o].owner,
                        PositionAfterFill(o, q - orders[o].filled))

-----------------------------------------------------------------------------
Lesser(a, b) == IF a < b THEN a ELSE b

\* ReconcilePosition trusts its caller: a zero closes at once.
ReconcilePosition(s, ow, q) ==
    /\ Holds(ow, s)
    /\ SetPosition(s, ow,
          IF q = 0 THEN NoPosition
          ELSE [positions[s][ow] EXCEPT !.qty = Lesser(@, q), !.aged = FALSE])
    /\ UNCHANGED orders

\* Mistake: every zero renews the ten seconds.
ObserveZeroRenewing(s, ow) ==
    /\ Holds(ow, s)
    /\ SetPosition(s, ow, [positions[s][ow] EXCEPT !.status = "reconcile_required",
                                                  !.aged = FALSE])

\* A zero is first remembered; only a second zero ten seconds later closes.
ObserveZero(s, ow) ==
    LET row == positions[s][ow] IN
    /\ Holds(ow, s)
    /\ SetPosition(s, ow,
          IF row.status = "active"
          THEN [row EXCEPT !.status = "reconcile_required", !.aged = FALSE]
          ELSE IF row.aged THEN NoPosition
          ELSE row)

\* Mistake: the account's quantity is taken over.
ObserveQuantityAdopting(s, ow, q) ==
    Holds(ow, s) /\ SetPosition(s, ow, ActivePosition(q))

\* A quantity on the account may shrink a position and never grows it.
ObserveQuantity(s, ow, q) ==
    /\ Holds(ow, s)
    /\ SetPosition(s, ow, ActivePosition(Lesser(positions[s][ow].qty, q)))

ReconcileObservedPosition(s, ow, q) ==
    /\ IF q = 0 THEN ObserveZero(s, ow) ELSE ObserveQuantity(s, ow, q)
    /\ UNCHANGED orders

\* claimVerifiedManualPosition: an operator's repair of an unmanaged leg.
ClaimManualPosition(s, ow, q) ==
    /\ q > 0
    /\ \A other \in Owners : ~Holds(other, s)
    /\ \A p \in Orders : Request[p].slot = s => ~Live(p)
    /\ SetPosition(s, ow, ActivePosition(q))
    /\ UNCHANGED orders

\* Ten seconds pass since a zero was remembered.
Age(s, ow) ==
    /\ positions[s][ow].status = "reconcile_required"
    /\ ~positions[s][ow].aged
    /\ SetPosition(s, ow, [positions[s][ow] EXCEPT !.aged = TRUE])
    /\ UNCHANGED orders

-----------------------------------------------------------------------------
OrderNext(o) ==
    \/ ClaimOrder(o)
    \/ ReserveSubmission(o)
    \/ MarkOrderSubmitted(o)
    \/ \E status \in LiveStatuses \cup DoneStatuses : SetOrderStatus(o, status)
    \/ \E q \in Quantities : ApplyFill(o, q)

PositionNext(s, ow) ==
    \/ \E q \in Quantities : ReconcilePosition(s, ow, q)
    \/ \E q \in Quantities : ReconcileObservedPosition(s, ow, q)
    \/ \E q \in Quantities : ClaimManualPosition(s, ow, q)
    \/ Age(s, ow)

OwnershipNext ==
    \/ \E o \in Orders : OrderNext(o)
    \/ \E s \in Slots, ow \in Owners : PositionNext(s, ow)

OwnershipSpec == OwnershipInit /\ [][OwnershipNext]_ownershipVars

-----------------------------------------------------------------------------
\* A position row is open exactly while it holds a quantity, and only a
\* remembered zero ages: what ensureSlotAvailable and ActivePositions, which
\* test the quantity, and getPosition, which tests the status, agree on.
OpenMeansQuantity ==
    \A s \in Slots, ow \in Owners :
        LET row == positions[s][ow] IN
        /\ Holds(ow, s) <=> row.qty > 0
        /\ row.aged => row.status = "reconcile_required"

\* A leg of the account never has two owners, whatever the order in which
\* claims, fills, repairs and reconciliations of several strategies arrive:
\* the tables hold no unique index that would enforce it.
SlotExclusive ==
    \A s \in Slots : \A a, b \in Owners :
        Holds(a, s) /\ Holds(b, s) => a = b

\* A managed quantity grows only by what an open order of that owner newly
\* filled, or by an operator's claim of a leg that nobody manages and where no
\* order is unresolved.  A larger account quantity, which includes the
\* operator's own manual position, is never adopted.
BookedOpenFill(s, ow) ==
    \E o \in Orders :
        /\ Request[o].slot = s /\ Request[o].owner = ow /\ IsOpen(o)
        /\ positions'[s][ow].qty - positions[s][ow].qty
              = orders'[o].filled - orders[o].filled

UnmanagedLeg(s) ==
    /\ \A ow \in Owners : ~Holds(ow, s)
    /\ \A o \in Orders : Request[o].slot = s => ~Live(o)

GrowthStep ==
    \A s \in Slots, ow \in Owners :
        positions'[s][ow].qty > positions[s][ow].qty =>
            BookedOpenFill(s, ow) \/ (UnmanagedLeg(s) /\ UNCHANGED orders)

NeverAdoptManualIncrease == [][GrowthStep]_ownershipVars

\* The holder of each slot, as SlotOwnership describes it.
SlotHolder ==
    [s \in Slots |-> IF \E ow \in Owners : Holds(ow, s)
                     THEN CHOOSE ow \in Owners : Holds(ow, s)
                     ELSE Nobody]

Abstract == INSTANCE SlotOwnership WITH holder <- SlotHolder

\* A slot is acquired and released, and never handed from owner to owner.
ImplementsSlotOwnership == Abstract!SlotSpec
=============================================================================
