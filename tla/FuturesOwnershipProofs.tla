----------------------- MODULE FuturesOwnershipProofs -----------------------
(***************************************************************************)
(* Theorems about the ownership ledger for any set of owners, legs, orders *)
(* and quantities.  The inductive invariant is LedgerInv: SlotExclusive    *)
(* alone is not inductive, because ensureSlotAvailable asks for a managed  *)
(* quantity while the rows it protects are found by their status; the two  *)
(* agree only as long as OpenMeansQuantity holds.                          *)
(***************************************************************************)
EXTENDS FuturesOwnership, TLAPS

USE RequestAssumption, QuantitiesAssumption DEF RequestType, Intents

LedgerInv == TypeOK /\ OpenMeansQuantity /\ SlotExclusive

\* The parts of a request and of a position row have the types stated.
LEMMA RequestParts ==
    ASSUME NEW o \in Orders
    PROVE  /\ Request[o].owner \in Owners
           /\ Request[o].slot \in Slots
           /\ Request[o].qty \in Nat
           /\ Request[o].qty > 0
OBVIOUS

\* A step that writes no order row but o's, and gives it a legal status and
\* filled quantity, keeps the order table well typed.
LEMMA SetOrderType ==
    ASSUME NEW o \in Orders, NEW row \in OrderRow, TypeOK, SetOrder(o, row)
    PROVE  orders' \in [Orders -> OrderRow]
BY DEF SetOrder, TypeOK

LEMMA SetPositionType ==
    ASSUME NEW s \in Slots, NEW ow \in Owners, NEW row \in PositionRow,
           TypeOK, SetPosition(s, ow, row)
    PROVE  /\ positions' \in [Slots -> [Owners -> PositionRow]]
           /\ \A t \in Slots, other \in Owners :
                 positions'[t][other] =
                     IF t = s /\ other = ow THEN row ELSE positions[t][other]
BY DEF SetPosition, TypeOK

\* A row that keeps the quantity and status in agreement.
SoundRow(row) ==
    /\ row \in PositionRow
    /\ row.status # "closed" <=> row.qty > 0
    /\ row.aged => row.status = "reconcile_required"

\* Writing a sound row for the only owner a slot can have preserves the
\* invariant: either the owner already holds the slot, or nobody does, or the
\* row closes the position.
LEMMA WritePosition ==
    ASSUME LedgerInv, NEW s \in Slots, NEW ow \in Owners, NEW row,
           SoundRow(row), SetPosition(s, ow, row),
           \/ Holds(ow, s)
           \/ \A other \in Owners : ~Holds(other, s)
           \/ row.status = "closed",
           orders' \in [Orders -> OrderRow]
    PROVE  LedgerInv'
<1>1. row \in PositionRow
  BY DEF SoundRow
<1>2. /\ positions' \in [Slots -> [Owners -> PositionRow]]
      /\ \A t \in Slots, other \in Owners :
            positions'[t][other] =
                IF t = s /\ other = ow THEN row ELSE positions[t][other]
  BY <1>1, SetPositionType DEF LedgerInv
<1>3. TypeOK'
  BY <1>2 DEF TypeOK
<1>4. OpenMeansQuantity'
  BY <1>2 DEF LedgerInv, OpenMeansQuantity, SoundRow, Holds
<1>5. SlotExclusive'
  BY <1>2 DEF LedgerInv, SlotExclusive, Holds
<1> QED
  BY <1>3, <1>4, <1>5 DEF LedgerInv

\* A step that leaves the positions alone.
LEMMA KeepPositions ==
    ASSUME LedgerInv, UNCHANGED positions, orders' \in [Orders -> OrderRow]
    PROVE  LedgerInv'
BY DEF LedgerInv, TypeOK, OpenMeansQuantity, SlotExclusive, Holds

-----------------------------------------------------------------------------
\* The rows the service writes after a fill and after an account read are
\* sound whenever the rows they replace are.
LEMMA RowAfterFill ==
    ASSUME LedgerInv, NEW o \in Orders, NEW delta \in Nat, delta > 0
    PROVE  SoundRow(PositionAfterFill(o, delta))
<1>1. SoundRow(Position(o))
  BY RequestParts
  DEF LedgerInv, TypeOK, OpenMeansQuantity, SoundRow, Holds, Position
<1> QED
  BY <1>1 DEF SoundRow, PositionAfterFill, PositionRow, ActivePosition, NoPosition

LEMMA FillStep ==
    ASSUME LedgerInv, NEW o \in Orders, NEW q \in Nat, ApplyFill(o, q)
    PROVE  LedgerInv'
<1> DEFINE s == Request[o].slot
           ow == Request[o].owner
           row == [orders[o] EXCEPT !.filled = q, !.status = StatusAfterFill(o, q)]
<1>1. s \in Slots /\ ow \in Owners
  BY RequestParts
<1>2. orders[o] \in OrderRow
  BY DEF LedgerInv, TypeOK
<1>3. StatusAfterFill(o, q) \in {"none"} \cup LiveStatuses \cup DoneStatuses
  BY <1>2 DEF StatusAfterFill, LiveStatuses, DoneStatuses, OrderRow
<1>4. row \in OrderRow
  BY <1>2, <1>3 DEF OrderRow
<1>5. orders' \in [Orders -> OrderRow]
  BY <1>4, SetOrderType DEF ApplyFill, LedgerInv
<1>6. CASE q = orders[o].filled
  BY <1>5, <1>6, KeepPositions DEF ApplyFill
<1>7. CASE q # orders[o].filled
  <2> DEFINE delta == q - orders[o].filled
  <2>1. delta \in Nat /\ delta > 0 /\ q > orders[o].filled
    BY <1>2, <1>7 DEF ApplyFill, FillAllowed, OrderRow
  <2>2. SoundRow(PositionAfterFill(o, delta))
    BY <2>1, RowAfterFill
  <2>3. SetPosition(s, ow, PositionAfterFill(o, delta))
    BY <1>7 DEF ApplyFill
  <2>4. Holds(ow, s) \/ \A other \in Owners : ~Holds(other, s)
    BY <2>1, <1>1 DEF ApplyFill, FillAllowed, SlotAvailable, LedgerInv, OpenMeansQuantity
  <2> HIDE DEF delta, s, ow
  <2> QED
    BY <1>1, <1>5, <2>2, <2>3, <2>4, WritePosition
<1> QED
  BY <1>6, <1>7

LEMMA OrderStep ==
    ASSUME LedgerInv, NEW o \in Orders, OrderNext(o)
    PROVE  LedgerInv'
<1>1. orders[o] \in OrderRow
  BY DEF LedgerInv, TypeOK
<1>2. ASSUME NEW row \in OrderRow, SetOrder(o, row), UNCHANGED positions
      PROVE  LedgerInv'
  BY <1>2, SetOrderType, KeepPositions DEF LedgerInv
<1>3. CASE ClaimOrder(o)
  <2>1. [NoOrder EXCEPT !.status = "pending"] \in OrderRow
    BY DEF NoOrder, OrderRow, LiveStatuses
  <2> QED
    BY <1>2, <1>3, <2>1 DEF ClaimOrder
<1>4. CASE ReserveSubmission(o)
  <2>1. [orders[o] EXCEPT !.status = "submitted"] \in OrderRow
    BY <1>1 DEF OrderRow, LiveStatuses
  <2> QED
    BY <1>2, <1>4, <2>1 DEF ReserveSubmission
<1>5. CASE MarkOrderSubmitted(o)
  <2>1. [orders[o] EXCEPT !.status = "submitted"] \in OrderRow
    BY <1>1 DEF OrderRow, LiveStatuses
  <2> QED
    BY <1>2, <1>5, <2>1 DEF MarkOrderSubmitted
<1>6. ASSUME NEW status \in LiveStatuses \cup DoneStatuses, SetOrderStatus(o, status)
      PROVE  LedgerInv'
  <2>1. [orders[o] EXCEPT !.status = status] \in OrderRow
    BY <1>1 DEF OrderRow
  <2> QED
    BY <1>2, <1>6, <2>1 DEF SetOrderStatus
<1>7. ASSUME NEW q \in Quantities, ApplyFill(o, q)
      PROVE  LedgerInv'
  BY <1>7, FillStep
<1> QED
  BY <1>3, <1>4, <1>5, <1>6, <1>7 DEF OrderNext

\* The quantity an account read leaves in an open row is positive.
LEMMA LesserIsPositive ==
    ASSUME LedgerInv, NEW s \in Slots, NEW ow \in Owners, Holds(ow, s),
           NEW q \in Nat, q # 0
    PROVE  /\ Lesser(positions[s][ow].qty, q) \in Nat
           /\ Lesser(positions[s][ow].qty, q) > 0
<1>1. positions[s][ow].qty \in Nat /\ positions[s][ow].qty > 0
  BY DEF LedgerInv, TypeOK, OpenMeansQuantity, PositionRow
<1> QED
  BY <1>1 DEF Lesser

\* Rewriting a row that somebody holds, or that nobody holds in the slot.
LEMMA RewritePosition ==
    ASSUME LedgerInv, NEW s \in Slots, NEW ow \in Owners, NEW new,
           SoundRow(new), SetPosition(s, ow, new), UNCHANGED orders,
           Holds(ow, s) \/ \A other \in Owners : ~Holds(other, s)
    PROVE  LedgerInv'
<1>1. orders' \in [Orders -> OrderRow]
  BY DEF LedgerInv, TypeOK
<1> QED
  BY <1>1, WritePosition

LEMMA RowsAreSound ==
    /\ SoundRow(NoPosition)
    /\ \A q \in Nat : q > 0 => SoundRow(ActivePosition(q))
BY DEF SoundRow, NoPosition, ActivePosition, PositionRow

\* A row that is compared with any quantity read from the account.
LEMMA ObservedStep ==
    ASSUME LedgerInv, NEW s \in Slots, NEW ow \in Owners, NEW q \in Nat,
           ReconcileObservedPosition(s, ow, q)
    PROVE  LedgerInv'
<1> DEFINE row == positions[s][ow]
<1>1. SoundRow(row)
  BY DEF LedgerInv, TypeOK, OpenMeansQuantity, SoundRow, Holds
<1>2. CASE q = 0
  <2> DEFINE new == IF row.status = "active"
                    THEN [row EXCEPT !.status = "reconcile_required", !.aged = FALSE]
                    ELSE IF row.aged THEN NoPosition ELSE row
  <2>1. Holds(ow, s) /\ SetPosition(s, ow, new) /\ UNCHANGED orders
    BY <1>2 DEF ReconcileObservedPosition, ObserveZero
  <2>2. SoundRow(new)
    BY <1>1, RowsAreSound DEF SoundRow, PositionRow
  <2> HIDE DEF new
  <2> QED
    BY <2>1, <2>2, RewritePosition
<1>3. CASE q # 0
  <2>1. /\ Holds(ow, s)
        /\ SetPosition(s, ow, ActivePosition(Lesser(row.qty, q)))
        /\ UNCHANGED orders
    BY <1>3 DEF ReconcileObservedPosition, ObserveQuantity
  <2>2. SoundRow(ActivePosition(Lesser(row.qty, q)))
    BY <1>3, <2>1, LesserIsPositive, RowsAreSound
  <2> QED
    BY <2>1, <2>2, RewritePosition
<1> QED
  BY <1>2, <1>3

LEMMA AgeStep ==
    ASSUME LedgerInv, NEW s \in Slots, NEW ow \in Owners, Age(s, ow)
    PROVE  LedgerInv'
<1>1. SoundRow(positions[s][ow])
  BY DEF LedgerInv, TypeOK, OpenMeansQuantity, SoundRow, Holds
<1>2. SoundRow([positions[s][ow] EXCEPT !.aged = TRUE])
  BY <1>1 DEF SoundRow, PositionRow, Age
<1> QED
  BY <1>2, RewritePosition DEF Age, Holds

LEMMA PositionStep ==
    ASSUME LedgerInv, NEW s \in Slots, NEW ow \in Owners, PositionNext(s, ow)
    PROVE  LedgerInv'
<1> DEFINE row == positions[s][ow]
<1>1. SoundRow(row)
  BY DEF LedgerInv, TypeOK, OpenMeansQuantity, SoundRow, Holds
<1>2. ASSUME NEW q \in Quantities, ReconcilePosition(s, ow, q)
      PROVE  LedgerInv'
  <2> DEFINE new == IF q = 0 THEN NoPosition
                    ELSE [row EXCEPT !.qty = Lesser(@, q), !.aged = FALSE]
  <2>1. Holds(ow, s) /\ SetPosition(s, ow, new) /\ UNCHANGED orders
    BY <1>2 DEF ReconcilePosition
  <2>2. q # 0 => Lesser(row.qty, q) \in Nat /\ Lesser(row.qty, q) > 0
    BY <2>1, LesserIsPositive
  <2>3. SoundRow(new)
    BY <1>1, <2>1, <2>2, RowsAreSound DEF SoundRow, PositionRow, Holds
  <2> HIDE DEF new
  <2> QED
    BY <2>1, <2>3, RewritePosition
<1>3. ASSUME NEW q \in Quantities, ReconcileObservedPosition(s, ow, q)
      PROVE  LedgerInv'
  <2>1. q \in Nat
    OBVIOUS
  <2> QED
    BY <1>3, <2>1, ObservedStep
<1>4. ASSUME NEW q \in Quantities, ClaimManualPosition(s, ow, q)
      PROVE  LedgerInv'
  <2>1. SoundRow(ActivePosition(q))
    BY <1>4, RowsAreSound DEF ClaimManualPosition
  <2> QED
    BY <1>4, <2>1, RewritePosition DEF ClaimManualPosition
<1> QED
  BY <1>2, <1>3, <1>4, AgeStep DEF PositionNext

LEMMA LedgerStep ==
    ASSUME LedgerInv, [OwnershipNext]_ownershipVars
    PROVE  LedgerInv'
<1>1. CASE UNCHANGED ownershipVars
  BY <1>1, KeepPositions DEF ownershipVars, LedgerInv, TypeOK
<1>2. CASE OwnershipNext
  BY <1>2, OrderStep, PositionStep DEF OwnershipNext
<1> QED
  BY <1>1, <1>2

LEMMA LedgerStart ==
    ASSUME OwnershipInit
    PROVE  LedgerInv
BY DEF OwnershipInit, LedgerInv, TypeOK, OpenMeansQuantity, SlotExclusive, Holds,
       NoOrder, NoPosition, OrderRow, PositionRow

\* The two tables keep their types, a row is open exactly while it holds a
\* quantity, and no slot ever has two owners.
THEOREM LedgerInvariant == OwnershipSpec => []LedgerInv
<1>1. OwnershipInit => LedgerInv
  BY LedgerStart
<1>2. LedgerInv /\ [OwnershipNext]_ownershipVars => LedgerInv'
  BY LedgerStep
<1> QED
  BY <1>1, <1>2, PTL DEF OwnershipSpec

\* Every leg of the account has at most one owner, for every interleaving of
\* any callers of the ledger.
THEOREM SlotIsExclusive == OwnershipSpec => []SlotExclusive
BY LedgerInvariant, PTL DEF LedgerInv

\* The two tables keep their types, whatever the callers ask for.
THEOREM LedgerTypes == OwnershipSpec => []TypeOK
BY LedgerInvariant, PTL DEF LedgerInv

\* A position row is open exactly while it holds a quantity, so that the tests
\* of the quantity in service.go and those of the status agree.
THEOREM OpenRowsHoldQuantity == OwnershipSpec => []OpenMeansQuantity
BY LedgerInvariant, PTL DEF LedgerInv

-----------------------------------------------------------------------------
\* A step writes at most one position row.
OneRow(s, ow) ==
    \A t \in Slots, other \in Owners :
        t # s \/ other # ow => positions'[t][other] = positions[t][other]

LEMMA OneRowStep ==
    ASSUME LedgerInv, OwnershipNext
    PROVE  \/ UNCHANGED positions
           \/ \E s \in Slots, ow \in Owners : OneRow(s, ow)
<1>1. ASSUME NEW s \in Slots, NEW ow \in Owners, NEW row, SetPosition(s, ow, row)
      PROVE  OneRow(s, ow)
  BY <1>1 DEF OneRow, SetPosition, LedgerInv, TypeOK
<1>2. ASSUME NEW o \in Orders, OrderNext(o)
      PROVE  \/ UNCHANGED positions
             \/ OneRow(Request[o].slot, Request[o].owner)
  <2>1. ASSUME NEW q \in Quantities, ApplyFill(o, q)
        PROVE  \/ UNCHANGED positions
               \/ OneRow(Request[o].slot, Request[o].owner)
    BY <1>1, <2>1, RequestParts DEF ApplyFill
  <2> QED
    BY <1>2, <2>1
    DEF OrderNext, ClaimOrder, ReserveSubmission, MarkOrderSubmitted, SetOrderStatus
<1>3. ASSUME NEW s \in Slots, NEW ow \in Owners, PositionNext(s, ow)
      PROVE  OneRow(s, ow)
  <2>1. \E row : SetPosition(s, ow, row)
    BY <1>3
    DEF PositionNext, ReconcilePosition, ReconcileObservedPosition, ObserveZero,
        ObserveQuantity, ClaimManualPosition, Age
  <2> QED
    BY <1>1, <2>1
<1> QED
  BY <1>2, <1>3, RequestParts DEF OwnershipNext

\* SlotHolder names the one owner that holds the slot, if any does.
LEMMA HolderIs ==
    ASSUME LedgerInv, NEW s \in Slots
    PROVE  /\ \A ow \in Owners : Holds(ow, s) => SlotHolder[s] = ow
           /\ (\A ow \in Owners : ~Holds(ow, s)) => SlotHolder[s] = Nobody
<1>1. ASSUME NEW ow \in Owners, Holds(ow, s)
      PROVE  SlotHolder[s] = ow
  <2>1. \A other \in Owners : Holds(other, s) => other = ow
    BY <1>1 DEF LedgerInv, SlotExclusive
  <2>2. (CHOOSE other \in Owners : Holds(other, s)) = ow
    BY <1>1, <2>1
  <2> QED
    BY <1>1, <2>2 DEF SlotHolder
<1>2. ASSUME \A ow \in Owners : ~Holds(ow, s)
      PROVE  SlotHolder[s] = Nobody
  BY <1>2 DEF SlotHolder
<1> QED
  BY <1>1, <1>2

\* The same in the next state.
LEMMA HolderWillBe ==
    ASSUME LedgerInv', NEW s \in Slots
    PROVE  /\ \A ow \in Owners : Holds(ow, s)' => SlotHolder'[s] = ow
           /\ (\A ow \in Owners : ~Holds(ow, s)') => SlotHolder'[s] = Nobody
<1>1. ASSUME NEW ow \in Owners, Holds(ow, s)'
      PROVE  SlotHolder'[s] = ow
  <2>1. \A other \in Owners : Holds(other, s)' => other = ow
    BY <1>1 DEF LedgerInv, SlotExclusive
  <2>2. (CHOOSE other \in Owners : Holds(other, s)') = ow
    BY <1>1, <2>1
  <2> QED
    BY <1>1, <2>2 DEF SlotHolder
<1>2. ASSUME \A ow \in Owners : ~Holds(ow, s)'
      PROVE  SlotHolder'[s] = Nobody
  BY <1>2 DEF SlotHolder
<1> QED
  BY <1>1, <1>2

LEMMA HolderStep ==
    ASSUME LedgerInv, LedgerInv', NEW s \in Slots, NEW ow \in Owners, OneRow(s, ow)
    PROVE  [Abstract!SlotNext]_SlotHolder
<1>1. \A t \in Slots, other \in Owners :
         t # s \/ other # ow => (Holds(other, t)' <=> Holds(other, t))
  BY DEF OneRow, Holds
<1>2. \A t \in Slots \ {s} : SlotHolder'[t] = SlotHolder[t]
  BY <1>1, HolderIs, HolderWillBe
<1>3. SlotHolder = [t \in Slots |-> SlotHolder[t]] /\ SlotHolder' = [t \in Slots |-> SlotHolder'[t]]
  BY DEF SlotHolder
<1>4. CASE Holds(ow, s) <=> Holds(ow, s)'
  <2>1. SlotHolder'[s] = SlotHolder[s]
    BY <1>1, <1>4, HolderIs, HolderWillBe
  <2> QED
    BY <1>2, <1>3, <2>1
<1>5. CASE Holds(ow, s) /\ ~Holds(ow, s)'
  <2>1. SlotHolder[s] = ow
    BY <1>5, HolderIs
  <2>2. \A other \in Owners : ~Holds(other, s)'
    BY <1>1, <1>5 DEF LedgerInv, SlotExclusive
  <2>3. SlotHolder'[s] = Nobody
    BY <2>2, HolderWillBe
  <2>4. Abstract!Release(s)
    BY <1>2, <1>3, <2>1, <2>3, NobodyAssumption DEF Abstract!Release
  <2> QED
    BY <2>4 DEF Abstract!SlotNext
<1>6. CASE ~Holds(ow, s) /\ Holds(ow, s)'
  <2>1. SlotHolder'[s] = ow
    BY <1>6, HolderWillBe
  <2>2. \A other \in Owners : ~Holds(other, s)
    BY <1>1, <1>6 DEF LedgerInv, SlotExclusive
  <2>3. SlotHolder[s] = Nobody
    BY <2>2, HolderIs
  <2>4. Abstract!Acquire(s, ow)
    BY <1>2, <1>3, <2>1, <2>3 DEF Abstract!Acquire
  <2> QED
    BY <2>4 DEF Abstract!SlotNext
<1> QED
  BY <1>4, <1>5, <1>6

\* The ledger implements SlotOwnership: a leg is acquired when nobody holds it
\* and released, and never passes from one owner straight to another.
THEOREM SlotRefinement == OwnershipSpec => ImplementsSlotOwnership
<1>1. OwnershipInit => Abstract!SlotInit
  BY DEF OwnershipInit, Abstract!SlotInit, SlotHolder, Holds, NoPosition
<1>2. LedgerInv /\ LedgerInv' /\ [OwnershipNext]_ownershipVars
         => [Abstract!SlotNext]_SlotHolder
  <2> SUFFICES ASSUME LedgerInv, LedgerInv', [OwnershipNext]_ownershipVars
               PROVE  [Abstract!SlotNext]_SlotHolder
    OBVIOUS
  <2>1. CASE UNCHANGED positions
    BY <2>1 DEF SlotHolder, Holds
  <2>2. CASE OwnershipNext
    BY <2>1, <2>2, OneRowStep, HolderStep
  <2>3. CASE UNCHANGED ownershipVars
    BY <2>1, <2>3 DEF ownershipVars
  <2> QED
    BY <2>2, <2>3
<1> QED
  BY <1>1, <1>2, LedgerInvariant, PTL
  DEF OwnershipSpec, ImplementsSlotOwnership, Abstract!SlotSpec

-----------------------------------------------------------------------------
LEMMA GrowthHolds ==
    ASSUME LedgerInv, OwnershipNext
    PROVE  GrowthStep
<1> SUFFICES ASSUME NEW s \in Slots, NEW ow \in Owners,
                    positions'[s][ow].qty > positions[s][ow].qty
             PROVE  BookedOpenFill(s, ow) \/ (UnmanagedLeg(s) /\ UNCHANGED orders)
  BY DEF GrowthStep
<1>1. ASSUME NEW t \in Slots, NEW other \in Owners, NEW row, SetPosition(t, other, row)
      PROVE  t = s /\ other = ow /\ row.qty > positions[s][ow].qty
  <2>1. positions[s][ow].qty \in Nat /\ positions[t] \in [Owners -> PositionRow]
    BY DEF LedgerInv, TypeOK, PositionRow
  <2>2. positions'[s][ow] = IF t = s /\ other = ow THEN row ELSE positions[s][ow]
    BY <1>1 DEF SetPosition, LedgerInv, TypeOK
  <2> QED
    BY <2>1, <2>2
<1>2. positions[s][ow].qty \in Nat
  BY DEF LedgerInv, TypeOK, PositionRow
<1>3. ASSUME NEW o \in Orders, NEW q \in Quantities, ApplyFill(o, q)
      PROVE  BookedOpenFill(s, ow)
  <2> DEFINE delta == q - orders[o].filled
  <2>1. q # orders[o].filled
    BY <1>2, <1>3 DEF ApplyFill
  <2>2. SetPosition(Request[o].slot, Request[o].owner, PositionAfterFill(o, delta))
    BY <1>3, <2>1 DEF ApplyFill
  <2>3. /\ Request[o].slot = s /\ Request[o].owner = ow
        /\ PositionAfterFill(o, delta).qty > positions[s][ow].qty
    BY <1>1, <2>2, RequestParts
  <2>4. orders[o].filled \in Nat /\ q \in Nat /\ q >= orders[o].filled
    BY <1>3 DEF ApplyFill, FillAllowed, LedgerInv, TypeOK, OrderRow
  <2>5. IsOpen(o)
    <3> SUFFICES ASSUME ~IsOpen(o)
                 PROVE  FALSE
      OBVIOUS
    <3>1. Position(o) = positions[s][ow] /\ Position(o) \in PositionRow
      BY <2>3 DEF Position, LedgerInv, TypeOK
    <3>2. PositionAfterFill(o, delta).qty <= positions[s][ow].qty
      BY <1>2, <2>4, <3>1 DEF PositionAfterFill, NoPosition, PositionRow
    <3>3. PositionAfterFill(o, delta).qty \in Nat
      BY <2>1, <2>4, <3>1 DEF PositionAfterFill, NoPosition, PositionRow
    <3> QED
      BY <1>2, <2>3, <3>2, <3>3
  <2>6. PositionAfterFill(o, delta).qty = positions[s][ow].qty + delta
    <3>1. Position(o).status = "closed" => Position(o).qty = 0
      BY <1>2, <2>3 DEF Position, LedgerInv, TypeOK, OpenMeansQuantity, Holds
    <3> QED
      BY <2>3, <2>5, <3>1 DEF PositionAfterFill, ActivePosition, Position
  <2>7. positions'[s][ow] = PositionAfterFill(o, delta)
    BY <2>2, <2>3 DEF SetPosition, LedgerInv, TypeOK
  <2>8. orders'[o].filled = q
    BY <1>3 DEF ApplyFill, SetOrder, LedgerInv, TypeOK, OrderRow
  <2> QED
    BY <1>2, <2>3, <2>4, <2>5, <2>6, <2>7, <2>8 DEF BookedOpenFill
<1>4. ASSUME NEW o \in Orders, OrderNext(o)
      PROVE  BookedOpenFill(s, ow)
  <2>1. positions' # positions
    BY <1>2
  <2> QED
    BY <1>3, <1>4, <2>1
    DEF OrderNext, ClaimOrder, ReserveSubmission, MarkOrderSubmitted, SetOrderStatus
<1>5. ASSUME NEW t \in Slots, NEW other \in Owners, PositionNext(t, other)
      PROVE  UnmanagedLeg(s) /\ UNCHANGED orders
  <2>1. ASSUME NEW row, SetPosition(t, other, row), row.qty \in Nat,
               row.qty <= positions[t][other].qty
        PROVE  FALSE
    BY <1>1, <1>2, <2>1
  <2>2. positions[t][other] \in PositionRow
    BY DEF LedgerInv, TypeOK
  <2>3. ASSUME NEW q \in Quantities
        PROVE  /\ Lesser(positions[t][other].qty, q) \in Nat
               /\ Lesser(positions[t][other].qty, q) <= positions[t][other].qty
    <3>1. q \in Nat
      OBVIOUS
    <3> QED
      BY <2>2, <3>1 DEF Lesser, PositionRow
  <2>4. NoPosition.qty \in Nat /\ NoPosition.qty <= positions[t][other].qty
    BY <2>2 DEF NoPosition, PositionRow
  <2>5. ASSUME NEW q \in Quantities, ReconcilePosition(t, other, q)
        PROVE  FALSE
    BY <2>1, <2>2, <2>3, <2>4, <2>5 DEF ReconcilePosition, PositionRow
  <2>6. ASSUME NEW q \in Quantities, ReconcileObservedPosition(t, other, q)
        PROVE  FALSE
    <3>1. CASE q = 0
      <4> DEFINE row == positions[t][other]
                 new == IF row.status = "active"
                        THEN [row EXCEPT !.status = "reconcile_required", !.aged = FALSE]
                        ELSE IF row.aged THEN NoPosition ELSE row
      <4>1. SetPosition(t, other, new)
        BY <2>6, <3>1 DEF ReconcileObservedPosition, ObserveZero
      <4>2. new.qty \in Nat /\ new.qty <= row.qty
        BY <2>2, <2>4 DEF PositionRow
      <4> QED
        BY <2>1, <4>1, <4>2
    <3>2. CASE q # 0
      BY <2>1, <2>3, <2>6, <3>2
      DEF ReconcileObservedPosition, ObserveQuantity, ActivePosition
    <3> QED
      BY <3>1, <3>2
  <2>7. ASSUME NEW q \in Quantities, ClaimManualPosition(t, other, q)
        PROVE  UnmanagedLeg(s) /\ UNCHANGED orders
    BY <1>1, <2>7 DEF ClaimManualPosition, UnmanagedLeg
  <2>8. ASSUME Age(t, other)
        PROVE  FALSE
    BY <2>1, <2>2, <2>8 DEF Age, PositionRow
  <2> QED
    BY <1>5, <2>5, <2>6, <2>7, <2>8 DEF PositionNext
<1> QED
  BY <1>4, <1>5 DEF OwnershipNext

\* A managed quantity grows only by a newly booked fill of the owner's own
\* open order, or by an operator's claim of an unmanaged leg.
THEOREM ManualIncreaseIsNeverAdopted == OwnershipSpec => NeverAdoptManualIncrease
<1>1. LedgerInv /\ [OwnershipNext]_ownershipVars => [GrowthStep]_ownershipVars
  BY GrowthHolds
<1> QED
  BY <1>1, LedgerInvariant, PTL DEF OwnershipSpec, NeverAdoptManualIncrease
=============================================================================
