-------------------------- MODULE AgentTradeProofs --------------------------
(* The safety of AgentTrade for all proposals, requests and bounds: types, *)
(* and the invariants of rows and entries; AgentExitsProofs has the exits. *)
EXTENDS AgentTrade, FiniteSetTheorems, TLAPS

-----------------------------------------------------------------------------
(* The invariant.                                                          *)

LedgerTypes ==
    /\ order \in [OrderIDs -> OrderRow]
    /\ holder \in Proposals \cup {Nobody}
    /\ managed \in Nat
    /\ past \in SUBSET Proposals
    /\ sends \in [Proposals -> Nat]

RowGood(row) ==
    /\ row.row \in {"none", "pending"} => row.at = "unsent" /\ row.booked = 0
    /\ row.booked <= row.filled

\* A row that was never reserved stands for nothing on the exchange, no more is
\* booked than was filled, an entry was sent once if the exchange knows it, and a
\* position was booked.
LedgerInv ==
    /\ LedgerTypes
    /\ \A o \in OrderIDs : RowGood(order[o])
    /\ \A p \in Proposals : sends[p] = IF order[Entry(p)].at = "unsent" THEN 0 ELSE 1
    /\ \A p \in past : order[Entry(p)].booked > 0

\* The entry of a proposal has reached the exchange, in a given order table.
Known(ord, p) == ord[Entry(p)].at # "unsent"

Claimed(ord, p) == ord[Entry(p)].row # "none"

\* The rows of a proposal: st and ex are their statuses.
RowsGood(p, st, ex, ord, appr) ==
    /\ st = "approved" => p \in appr
    /\ ex = "executed" \/ st \in Carried \cup {"closed"} => Known(ord, p)
    /\ Claimed(ord, p) => p \in appr /\ ex # "none"

\* The steps of a request on a proposal whose entry was accepted, and the steps
\* that need the number of an attempt.
Carrying == {"mark", "marked", "protect", "pick_stop", "resize", "stop", "protected",
             "unprotected",
             "close", "quantity", "pick_close", "again", "submit_close", "closing",
             "release", "drop", "cleanup", "save_closed"}
Numbered == {"resize", "stop", "again", "submit_close"}

\* A request: ex is the status of the execution row of its proposal.
CallerGood(c, ex, ord, appr) ==
    /\ c.step # "idle" => c.p \in Proposals
    /\ c.was = "approved" => c.p \in appr
    /\ c.step \in {"record", "submit"} => c.p \in appr
    /\ c.step = "submit" => ex[c.p] # "none"
    /\ c.step \in Carrying => Known(ord, c.p)
    /\ c.step \in Numbered => c.n # 0

RowsInv == \A p \in Proposals : RowsGood(p, status[p], execution[p], order, approvals)

CallersInv == \A w \in Callers : CallerGood(caller[w], execution, order, approvals)

SyncInv ==
    /\ sync.gone \cup sync.todo \subseteq past
    /\ \A p \in sync.todo : Known(order, p)

AgentInv == AgentTypeOK /\ LedgerInv /\ RowsInv /\ CallersInv /\ SyncInv

-----------------------------------------------------------------------------
(* The ledger and the exchange.                                            *)

LEMMA EntryFacts ==
    /\ \A p \in Proposals : Entry(p) \in OrderIDs /\ IsEntry(Entry(p)) /\ Entry(p).p = p
    /\ \A o \in OrderIDs : IsEntry(o) => o.p \in Proposals /\ o = Entry(o.p)
  BY DEF Entry, OrderIDs, IsEntry

\* What a step of the ledger does at most: orders and positions are not
\* forgotten.
Grows ==
    /\ \A o \in OrderIDs : order[o].at # "unsent" => order'[o].at # "unsent"
    /\ past \subseteq past'

\* No order but o gets its row.
ClaimsOnly(o) ==
    \A x \in OrderIDs : x # o /\ order[x].row = "none" => order'[x].row = "none"
ClaimsNone == \A x \in OrderIDs : order[x].row = "none" => order'[x].row = "none"

\* A new row and position that fit the old ones keep the ledger's invariant.
LEMMA OrderChanges ==
  ASSUME LedgerInv, NEW o \in OrderIDs, NEW row \in OrderRow,
         order' = [order EXCEPT ![o] = row],
         RowGood(row),
         order[o].at # "unsent" => row.at # "unsent",
         order[o].booked > 0 => row.booked > 0,
         LedgerTypes',
         sends' = IF IsEntry(o) /\ order[o].at = "unsent" /\ row.at # "unsent"
                  THEN [sends EXCEPT ![o.p] = @ + 1] ELSE sends,
         past' = past \/ (IsEntry(o) /\ row.booked > 0 /\ past' = past \cup {o.p})
  PROVE  LedgerInv' /\ Grows /\ ClaimsOnly(o)
  <1> USE DEF LedgerInv, LedgerTypes
  <1>1. \A x \in OrderIDs : order'[x] = IF x = o THEN row ELSE order[x]
    OBVIOUS
  <1>2. \A p \in Proposals : sends'[p] = IF order'[Entry(p)].at = "unsent" THEN 0 ELSE 1
    <2> TAKE p \in Proposals
    <2>1. CASE o = Entry(p)
      <3>1. IsEntry(o) /\ o.p = p /\ sends[p] = IF order[o].at = "unsent" THEN 0 ELSE 1
        BY <2>1, EntryFacts
      <3> QED BY <1>1, <2>1, <3>1
    <2>2. CASE o # Entry(p)
      <3>1. IsEntry(o) => o.p # p
        BY <2>2, EntryFacts
      <3> QED BY <1>1, <2>2, <3>1, EntryFacts
    <2> QED BY <2>1, <2>2
  <1>3. \A p \in past' : order'[Entry(p)].booked > 0
    BY <1>1, EntryFacts
  <1>4. \A x \in OrderIDs : RowGood(order'[x])
    BY <1>1
  <1>5. LedgerInv'
    BY <1>2, <1>3, <1>4
  <1>6. Grows
    BY <1>1 DEF Grows
  <1>7. ClaimsOnly(o)
    BY <1>1 DEF ClaimsOnly
  <1> QED BY <1>5, <1>6, <1>7

\* The same for a step that sends nothing and leaves the positions alone.
LEMMA RowChanges ==
  ASSUME LedgerInv, NEW o \in OrderIDs, NEW row \in OrderRow,
         order' = [order EXCEPT ![o] = row], UNCHANGED <<positionVars, sends>>,
         RowGood(row), order[o].row # "none",
         order[o].at = "unsent" <=> row.at = "unsent",
         order[o].booked > 0 => row.booked > 0
  PROVE  LedgerInv' /\ Grows /\ ClaimsNone
  <1>1. UNCHANGED <<holder, managed, past, sends>>
    BY DEF positionVars
  <1>2. LedgerTypes'
    BY <1>1 DEF LedgerInv, LedgerTypes
  <1>3. LedgerInv' /\ Grows /\ ClaimsOnly(o)
    BY <1>1, <1>2, OrderChanges
  <1> QED BY <1>3 DEF ClaimsOnly, ClaimsNone

LEMMA SetRowInv ==
  ASSUME LedgerInv, NEW o \in OrderIDs, NEW row \in {"live", "done"}, NEW at, SetRow(o, row, at),
         order[o].row # "none",
         at = order[o].at \/ (order[o].at # "unsent" /\ at = "ended"),
         UNCHANGED sends
  PROVE  LedgerInv' /\ Grows /\ ClaimsNone
  <1> DEFINE new == [order[o] EXCEPT !.row = row, !.at = at]
  <1>1. order[o] \in OrderRow /\ RowGood(order[o])
    BY DEF LedgerInv, LedgerTypes
  <1>2. /\ new \in OrderRow /\ new.row = row /\ new.at = at
        /\ new.booked = order[o].booked /\ new.filled = order[o].filled
    BY <1>1 DEF OrderRow
  <1>3. order' = [order EXCEPT ![o] = new]
    BY <1>1 DEF SetRow, LedgerInv, LedgerTypes, OrderRow
  <1>4. UNCHANGED <<positionVars, sends>>
    BY DEF SetRow
  <1> HIDE DEF new
  <1>5. RowGood(new)
    BY <1>1, <1>2 DEF RowGood
  <1> QED BY <1>2, <1>3, <1>4, <1>5, RowChanges

\* Booking moves the position; an entry opens one only for its own proposal.
LEMMA BookFacts ==
  ASSUME LedgerInv, NEW o \in OrderIDs, NEW lots \in Nat, Book(o, lots)
  PROVE  /\ holder' \in Proposals \cup {Nobody} /\ managed' \in Nat
         /\ past' \in SUBSET Proposals
         /\ past' = past \/ (IsEntry(o) /\ past' = past \cup {o.p})
  BY EntryFacts DEF LedgerInv, LedgerTypes, Book, SetManaged

LEMMA ApplyInv ==
  ASSUME LedgerInv, NEW o \in OrderIDs, Apply(o), order[o].at # "unsent", UNCHANGED sends
  PROVE  LedgerInv' /\ Grows /\ ClaimsNone /\ order'[o].at # "unsent"
  <1> DEFINE new == [order[o] EXCEPT !.row = RowFor(order[o].at), !.booked = order[o].filled]
             delta == order[o].filled - order[o].booked
  <1>1. order[o] \in OrderRow /\ RowGood(order[o]) /\ order[o].row # "none"
    BY DEF LedgerInv, LedgerTypes, RowGood
  <1>2. order[o].booked \in Nat /\ order[o].filled \in Nat /\ order[o].booked <= order[o].filled
    BY <1>1 DEF OrderRow, RowGood
  <1>3. /\ new \in OrderRow /\ new.row \in {"live", "done"} /\ new.at = order[o].at
        /\ new.booked = order[o].filled /\ new.filled = order[o].filled
    BY <1>1 DEF OrderRow, RowFor
  <1>4. order' = [order EXCEPT ![o] = new]
    BY <1>1 DEF Apply, LedgerInv, LedgerTypes, OrderRow
  <1>5. /\ holder' \in Proposals \cup {Nobody} /\ managed' \in Nat
        /\ past' \in SUBSET Proposals
        /\ past' = past \/ (IsEntry(o) /\ order[o].filled > 0 /\ past' = past \cup {o.p})
    <2>1. CASE order[o].filled > order[o].booked
      <3>1. Book(o, delta) /\ delta \in Nat /\ order[o].filled > 0
        BY <1>2, <2>1 DEF Apply
      <3> HIDE DEF delta
      <3> QED BY <3>1, BookFacts
    <2>2. CASE ~(order[o].filled > order[o].booked)
      BY <2>2 DEF Apply, positionVars, LedgerInv, LedgerTypes
    <2> QED BY <2>1, <2>2
  <1> HIDE DEF new
  <1>6. RowGood(new)
    BY <1>2, <1>3 DEF RowGood
  <1>7. LedgerTypes'
    BY <1>3, <1>4, <1>5 DEF LedgerInv, LedgerTypes
  <1>8. order[o].booked > 0 => new.booked > 0
    BY <1>2, <1>3
  <1>9. LedgerInv' /\ Grows /\ ClaimsOnly(o)
    BY <1>3, <1>4, <1>5, <1>6, <1>7, <1>8, OrderChanges
  <1> QED BY <1>1, <1>9 DEF ClaimsOnly, ClaimsNone, Grows

\* The operations on an order, each as one step of the ledger.
LEMMA LookUpFindsInv ==
  ASSUME LedgerInv, NEW o \in OrderIDs, LookUpFinds(o)
  PROVE  /\ LedgerInv' /\ Grows /\ ClaimsNone
         /\ order'[o].at # "unsent"
  BY ApplyInv DEF LookUpFinds

LEMMA LookUpFailsInv ==
  ASSUME LedgerInv, NEW o \in OrderIDs, LookUpFails(o)
  PROVE  LedgerInv' /\ Grows /\ ClaimsNone
  <1>1. CASE order[o].row = "none"
    <2>1. order' = order /\ holder' = holder /\ managed' = managed /\ past' = past
          /\ sends' = sends
      BY <1>1 DEF LookUpFails, positionVars
    <2> QED BY <2>1 DEF LedgerInv, LedgerTypes, Grows, ClaimsNone
  <1>2. CASE order[o].row # "none"
    BY <1>2, SetRowInv DEF LookUpFails
  <1> QED BY <1>1, <1>2

\* What may be sent was not sent yet.
LEMMA MaySendFacts ==
  ASSUME LedgerInv, NEW o \in OrderIDs, NEW qty, MaySend(o, qty)
  PROVE  order[o].at = "unsent" /\ order[o].booked = 0
  BY DEF MaySend, LedgerInv, RowGood

\* A submission, with the lots that are filled and booked at once.
LEMMA SentInv ==
  ASSUME LedgerInv, NEW o \in OrderIDs, NEW qty \in Nat, MaySend(o, qty),
         NEW row \in {"pending", "live", "done"},
         NEW at \in {"unsent", "working", "filled", "ended"}, NEW lots \in Nat,
         Sent(o, qty, row, at, lots),
         row = "pending" => at = "unsent" /\ lots = 0,
         \/ UNCHANGED positionVars
         \/ lots > 0 /\ Book(o, lots),
         \/ CountSend(o) /\ at # "unsent"
         \/ UNCHANGED sends /\ (at = "unsent" \/ ~IsEntry(o))
  PROVE  LedgerInv' /\ Grows /\ ClaimsOnly(o) /\ order'[o].at = at
  <1> DEFINE new == [row |-> row, asked |-> IF order[o].row = "none" THEN qty ELSE order[o].asked,
                     booked |-> lots, at |-> at, size |-> qty, filled |-> lots]
  <1>1. order[o] \in OrderRow /\ order \in [OrderIDs -> OrderRow]
    BY DEF LedgerInv, LedgerTypes
  <1>2. order[o].at = "unsent" /\ order[o].booked = 0
    BY MaySendFacts
  <1>3. new \in OrderRow
    BY <1>1 DEF OrderRow
  <1>4. new.row = row /\ new.at = at /\ new.booked = lots /\ new.filled = lots
    OBVIOUS
  <1>5. order' = [order EXCEPT ![o] = new]
    BY <1>1 DEF Sent
  <1> HIDE DEF new
  <1>6. /\ holder' \in Proposals \cup {Nobody} /\ managed' \in Nat
        /\ past' \in SUBSET Proposals
        /\ past' = past \/ (IsEntry(o) /\ lots > 0 /\ past' = past \cup {o.p})
    <2>1. CASE UNCHANGED positionVars
      BY <2>1 DEF positionVars, LedgerInv, LedgerTypes
    <2>2. CASE lots > 0 /\ Book(o, lots)
      BY <2>2, BookFacts
    <2> QED BY <2>1, <2>2
  <1>7. sends' = IF IsEntry(o) /\ order[o].at = "unsent" /\ new.at # "unsent"
                 THEN [sends EXCEPT ![o.p] = @ + 1] ELSE sends
    BY <1>2, <1>4 DEF CountSend
  <1>8. sends' \in [Proposals -> Nat]
    BY <1>7, EntryFacts DEF LedgerInv, LedgerTypes
  <1>9. LedgerTypes'
    BY <1>1, <1>3, <1>5, <1>6, <1>8 DEF LedgerTypes
  <1>10. RowGood(new)
    BY <1>4 DEF RowGood
  <1>11. order[o].booked > 0 => new.booked > 0
    BY <1>2
  <1>12. LedgerInv' /\ Grows /\ ClaimsOnly(o)
    BY <1>2, <1>3, <1>4, <1>5, <1>6, <1>7, <1>9, <1>10, <1>11, OrderChanges
  <1> QED BY <1>1, <1>4, <1>5, <1>12

LEMMA ExecuteSucceedsInv ==
  ASSUME LedgerInv, NEW o \in OrderIDs, NEW qty \in Nat, ExecuteSucceeds(o, qty)
  PROVE  /\ LedgerInv' /\ Grows /\ ClaimsOnly(o)
         /\ order'[o].at # "unsent"
  <1>1. CASE /\ MaySend(o, qty) /\ o.kind = "stop"
             /\ Sent(o, qty, "live", "working", 0) /\ UNCHANGED <<positionVars, sends>>
    <2>1. ~IsEntry(o) /\ 0 \in Nat /\ UNCHANGED positionVars /\ UNCHANGED sends
      BY <1>1 DEF IsEntry
    <2> QED BY <1>1, <2>1, SentInv
  <1>2. ASSUME NEW lots \in 1 .. qty, NEW at \in {"working", "filled", "ended"}, MaySend(o, qty),
               Book(o, lots), Sent(o, qty, RowFor(at), at, lots), CountSend(o)
        PROVE  LedgerInv' /\ Grows /\ ClaimsOnly(o) /\ order'[o].at # "unsent"
    <2>1. RowFor(at) \in {"live", "done"} /\ lots \in Nat /\ lots > 0
      BY DEF RowFor
    <2>2. at \in {"unsent", "working", "filled", "ended"} /\ at # "unsent"
      OBVIOUS
    <2> QED BY <1>2, <2>1, <2>2, SentInv
  <1>3. CASE LookUpFinds(o)
    BY <1>3, LookUpFindsInv DEF ClaimsNone, ClaimsOnly
  <1> QED BY <1>1, <1>2, <1>3 DEF ExecuteSucceeds

LEMMA ExecuteFailsInv ==
  ASSUME LedgerInv, NEW o \in OrderIDs, NEW qty \in Nat, ExecuteFails(o, qty)
  PROVE  LedgerInv' /\ Grows /\ ClaimsOnly(o)
  <1>1. CASE UNCHANGED exchangeVars
    <2>1. order' = order /\ holder' = holder /\ managed' = managed /\ past' = past
          /\ sends' = sends
      BY <1>1 DEF exchangeVars, positionVars
    <2> QED BY <2>1 DEF LedgerInv, LedgerTypes, Grows, ClaimsOnly
  <1>2. CASE /\ MaySend(o, qty) /\ UNCHANGED <<positionVars, sends>>
             /\ \E row \in {"pending", "done", "live"} : Sent(o, qty, row, "unsent", 0)
    <2>1. PICK row \in {"pending", "done", "live"} : Sent(o, qty, row, "unsent", 0)
      BY <1>2
    <2>2. UNCHANGED positionVars /\ UNCHANGED sends /\ 0 \in Nat
      BY <1>2
    <2> QED BY <1>2, <2>1, <2>2, SentInv
  <1>3. CASE /\ MaySend(o, qty) /\ Sent(o, qty, "live", "working", 0) /\ CountSend(o)
             /\ UNCHANGED positionVars
    <2>1. 0 \in Nat
      OBVIOUS
    <2> QED BY <1>3, <2>1, SentInv
  <1>4. CASE LookUpFails(o)
    BY <1>4, LookUpFailsInv DEF ClaimsNone, ClaimsOnly
  <1> QED BY <1>1, <1>2, <1>3, <1>4 DEF ExecuteFails

\* A step that leaves the ledger alone, or only makes a position smaller.
LEMMA PositionInv ==
  ASSUME LedgerInv, UNCHANGED <<order, past, sends>>, managed' \in Nat,
         holder' \in {holder, Nobody}
  PROVE  LedgerInv' /\ Grows /\ ClaimsNone
  BY DEF LedgerInv, LedgerTypes, Grows, ClaimsNone

LEMMA UnchangedInv ==
  ASSUME LedgerInv, UNCHANGED exchangeVars
  PROVE  LedgerInv' /\ Grows /\ ClaimsNone
  <1>1. UNCHANGED <<order, past, sends, managed, holder>>
    BY DEF exchangeVars, positionVars
  <1> QED BY <1>1, PositionInv DEF LedgerInv, LedgerTypes

LEMMA SetManagedInv ==
  ASSUME LedgerInv, NEW lots \in Nat, SetManaged(lots), UNCHANGED <<order, sends>>
  PROVE  LedgerInv' /\ Grows /\ ClaimsNone
  BY PositionInv DEF SetManaged

\* An order at work is ended or cancelled, or another lot of it is filled.
LEMMA WorkingEndsInv ==
  ASSUME LedgerInv, NEW o \in OrderIDs, order[o].at = "working",
         NEW row \in {order[o].row, "done"}, SetRow(o, row, "ended"), UNCHANGED sends
  PROVE  LedgerInv' /\ Grows /\ ClaimsNone
  <1>1. order[o].row \in {"live", "done"}
    BY DEF LedgerInv, LedgerTypes, OrderRow, RowGood
  <1> QED BY <1>1, SetRowInv

LEMMA FillInv ==
  ASSUME LedgerInv, NEW o \in OrderIDs, Fill(o)
  PROVE  LedgerInv' /\ Grows /\ ClaimsNone
  <1> DEFINE at == IF order[o].filled + 1 < order[o].size THEN "working" ELSE "filled"
             new == [order[o] EXCEPT !.filled = @ + 1, !.at = at]
  <1>1. order[o] \in OrderRow /\ RowGood(order[o]) /\ order[o].at = "working"
    BY DEF LedgerInv, LedgerTypes, Fill
  <1>2. /\ order[o].booked \in Nat /\ order[o].filled \in Nat
        /\ order[o].filled + 1 \in Nat /\ order[o].row \in {"live", "done"}
    BY <1>1 DEF OrderRow, RowGood
  <1>3. order' = [order EXCEPT ![o] = new] /\ UNCHANGED <<positionVars, sends>>
    BY <1>1 DEF Fill, LedgerInv, LedgerTypes, OrderRow
  <1>4. at \in {"working", "filled"}
    OBVIOUS
  <1> HIDE DEF at
  <1>5. /\ new \in OrderRow /\ new.row = order[o].row /\ new.at = at
        /\ new.booked = order[o].booked /\ new.filled = order[o].filled + 1
    BY <1>1, <1>2, <1>4 DEF OrderRow
  <1> HIDE DEF new
  <1>6. RowGood(new)
    BY <1>1, <1>2, <1>5 DEF RowGood
  <1> QED BY <1>1, <1>2, <1>3, <1>4, <1>5, <1>6, RowChanges

LEMMA DropStopsInv ==
  ASSUME LedgerInv, NEW gone \in SUBSET OrderIDs,
         \A o \in gone : ~IsEntry(o) /\ order[o].row # "none",
         order' = [o \in OrderIDs |-> IF o \in gone THEN Canceled(o) ELSE order[o]],
         UNCHANGED <<positionVars, sends>>
  PROVE  LedgerInv' /\ Grows /\ ClaimsNone
  <1>1. \A o \in OrderIDs : order[o] \in OrderRow /\ RowGood(order[o])
    BY DEF LedgerInv, LedgerTypes
  <1>2. \A o \in OrderIDs :
          /\ Canceled(o) \in OrderRow
          /\ Canceled(o).row = "done" /\ Canceled(o).at = "ended"
          /\ Canceled(o).booked = order[o].booked /\ Canceled(o).filled = order[o].filled
    BY <1>1 DEF Canceled, OrderRow
  <1>3. UNCHANGED <<holder, managed, past, sends>>
    BY DEF positionVars
  <1>4. order' \in [OrderIDs -> OrderRow]
    BY <1>1, <1>2
  <1>5. \A p \in Proposals : order'[Entry(p)] = order[Entry(p)]
    BY EntryFacts
  <1>6. \A o \in OrderIDs : RowGood(order'[o])
    BY <1>1, <1>2 DEF RowGood
  <1>7. Grows /\ ClaimsNone
    BY <1>2, <1>3 DEF Grows, ClaimsNone
  <1>8. LedgerInv'
    BY <1>3, <1>4, <1>5, <1>6 DEF LedgerInv, LedgerTypes
  <1> QED BY <1>7, <1>8

-----------------------------------------------------------------------------
(* What the steps have in common.                                          *)

LEMMA AttemptNumbers ==
  ASSUME NEW p \in Proposals, NEW kind \in {"stop", "close"}
  PROVE  NextAttempt(p, kind) \in Nat \ {0}
  <1> DEFINE f == [n \in 1 .. MaxTries |-> Exit(p, kind, n)]
  <1>1. MaxTries \in Int /\ 1 \in Int
    BY AgentAssumption
  <1>2. IsFiniteSet(1 .. MaxTries)
    BY <1>1, FS_Interval
  <1>3. \A o \in OfKind(p, kind) : \E n \in 1 .. MaxTries : o = Exit(p, kind, n)
    BY DEF OfKind, OrderIDs, Exit
  <1>4. \A n \in 1 .. MaxTries : Exit(p, kind, n) \in OfKind(p, kind)
    BY DEF OfKind, OrderIDs, Exit
  <1>5. f \in Surjection(1 .. MaxTries, OfKind(p, kind))
    BY <1>3, <1>4 DEF Surjection
  <1>6. IsFiniteSet(OfKind(p, kind))
    BY <1>2, <1>5, FS_Surjection
  <1>7. Attempts(p, kind) \in SUBSET OfKind(p, kind)
    BY DEF Attempts
  <1>8. IsFiniteSet(Attempts(p, kind))
    BY <1>6, <1>7, FS_Subset
  <1>9. Cardinality(Attempts(p, kind)) \in Nat
    BY <1>8, FS_CardinalityType
  <1> QED BY <1>9 DEF NextAttempt

\* A request that starts over, or is at its end, is good if it goes to a step
\* that its proposal is ready for.
Ready(step, p, ex, ord, appr) ==
    /\ step \in {"record", "submit"} => p \in appr
    /\ step = "submit" => ex[p] # "none"
    /\ step \in Carrying => Known(ord, p)

LEMMA WorkingGood ==
  ASSUME NEW step \in Steps \ Numbered, NEW p \in Proposals, NEW ex, NEW ord, NEW appr,
         Ready(step, p, ex, ord, appr)
  PROVE  Working(step, p) \in Caller /\ CallerGood(Working(step, p), ex, ord, appr)
  <1>1. Working(step, p) \in Caller
    BY AgentAssumption DEF Working, Caller, Statuses
  <1>2. CallerGood(Working(step, p), ex, ord, appr)
    BY DEF Working, CallerGood, Ready
  <1> QED BY <1>1, <1>2

LEMMA IdleGood ==
  ASSUME NEW ex, NEW ord, NEW appr
  PROVE  Idle \in Caller /\ CallerGood(Idle, ex, ord, appr)
  <1>1. Idle \in Caller
    BY AgentAssumption DEF Idle, Working, Caller, Statuses, Steps
  <1>2. CallerGood(Idle, ex, ord, appr)
    BY DEF Idle, Working, CallerGood, Carrying, Numbered
  <1> QED BY <1>1, <1>2

\* What was good for a request stays good while the others go on.
Onward ==
    /\ Grows
    /\ approvals \subseteq approvals'
    /\ \A p \in Proposals : execution[p] # "none" => execution'[p] # "none"

LEMMA KnownStays ==
  ASSUME Grows, NEW p \in Proposals, Known(order, p)
  PROVE  Known(order', p)
  BY EntryFacts DEF Grows, Known

LEMMA CallersKeep ==
  ASSUME AgentInv, Onward,
         \/ caller' = caller
         \/ \E w \in Callers, c \in Caller :
                /\ caller' = [caller EXCEPT ![w] = c]
                /\ CallerGood(c, execution', order', approvals')
  PROVE  CallersInv' /\ caller' \in [Callers -> Caller]
  <1>1. caller \in [Callers -> Caller]
    BY DEF AgentInv, AgentTypeOK
  <1>2. \A w \in Callers : CallerGood(caller[w], execution', order', approvals')
    <2> TAKE w \in Callers
    <2>1. CallerGood(caller[w], execution, order, approvals)
      BY DEF AgentInv, CallersInv
    <2>2. caller[w].step \in {"record", "submit"} \cup Carrying => caller[w].p \in Proposals
      BY <2>1 DEF CallerGood, Carrying
    <2> QED BY <2>1, <2>2, KnownStays DEF CallerGood, Onward
  <1> QED BY <1>1, <1>2 DEF CallersInv

LEMMA SyncKeeps ==
  ASSUME AgentInv, Grows, sync' = sync
  PROVE  SyncInv'
  <1>1. sync.gone \cup sync.todo \subseteq Proposals /\ past \subseteq Proposals
    BY DEF AgentInv, AgentTypeOK, SyncRun
  <1>2. Nobody \notin Proposals
    BY AgentAssumption
  <1>3. \A p \in sync.todo : Known(order', p)
    BY <1>1, KnownStays DEF AgentInv, SyncInv
  <1> QED BY <1>1, <1>2, <1>3 DEF AgentInv, SyncInv, Grows

\* A step writes at most the two rows of p, and approves no other proposal.
Writes(p) ==
    /\ status' \in [Proposals -> Statuses] /\ execution' \in [Proposals -> ExecutionStatuses]
    /\ \A q \in Proposals \ {p} : status'[q] = status[q] /\ execution'[q] = execution[q]
    /\ approvals' \in {approvals, approvals \cup {p}}
    /\ execution[p] # "none" => execution'[p] # "none"
    /\ RowsGood(p, status'[p], execution'[p], order, approvals')

LEMMA StoreStepInv ==
  ASSUME AgentInv, NEW p \in Proposals, Writes(p),
         UNCHANGED exchangeVars, calls' \in 0 .. MaxCalls,
         sync' \in SyncRun, SyncInv',
         \/ caller' = caller
         \/ \E w \in Callers, c \in Caller :
                /\ caller' = [caller EXCEPT ![w] = c]
                /\ CallerGood(c, execution', order, approvals')
  PROVE  AgentInv'
  <1>1. LedgerInv' /\ Grows
    BY UnchangedInv DEF AgentInv
  <1>2. order' = order
    BY DEF exchangeVars
  <1>3. Onward
    BY <1>1 DEF Onward, Writes
  <1>4. CallersInv' /\ caller' \in [Callers -> Caller]
    BY <1>2, <1>3, CallersKeep
  <1>5. RowsInv'
    <2> SUFFICES ASSUME NEW q \in Proposals
                 PROVE  RowsGood(q, status'[q], execution'[q], order', approvals')
      BY DEF RowsInv
    <2>1. CASE q = p
      BY <1>2, <2>1 DEF Writes
    <2>2. CASE q # p
      <3>1. RowsGood(q, status[q], execution[q], order, approvals)
        BY DEF AgentInv, RowsInv
      <3> QED BY <1>2, <1>3, <2>2, <3>1 DEF Writes, RowsGood, Onward
    <2> QED BY <2>1, <2>2
  <1>6. approvals' \in SUBSET Proposals
    BY DEF Writes, AgentInv, AgentTypeOK
  <1>7. AgentTypeOK'
    BY <1>1, <1>4, <1>6 DEF AgentTypeOK, Writes, LedgerInv, LedgerTypes
  <1> QED BY <1>1, <1>4, <1>5, <1>7 DEF AgentInv

\* An entry gets its row only when it is approved and recorded.
EntriesGood ==
    \A p \in Proposals : Claimed(order', p) =>
        Claimed(order, p) \/ (p \in approvals /\ execution[p] # "none")

LEMMA ClaimsNoneGood ==
  ASSUME ClaimsNone PROVE EntriesGood
  BY EntryFacts DEF ClaimsNone, EntriesGood, Claimed

LEMMA ClaimsOnlyGood ==
  ASSUME NEW o \in OrderIDs, ClaimsOnly(o),
         IsEntry(o) => o.p \in approvals /\ execution[o.p] # "none"
  PROVE  EntriesGood
  BY EntryFacts DEF ClaimsOnly, EntriesGood, Claimed

LEMMA LedgerStepInv ==
  ASSUME AgentInv, LedgerInv', Grows, EntriesGood,
         UNCHANGED <<storeVars, calls, sync, approvals>>,
         \/ caller' = caller
         \/ \E w \in Callers, c \in Caller :
                /\ caller' = [caller EXCEPT ![w] = c]
                /\ CallerGood(c, execution', order', approvals')
  PROVE  AgentInv'
  <1>1. UNCHANGED <<status, execution, calls, sync, approvals>>
    BY DEF storeVars
  <1>2. Onward
    BY <1>1 DEF Onward
  <1>3. CallersInv' /\ caller' \in [Callers -> Caller]
    BY <1>2, CallersKeep
  <1>4. SyncInv'
    BY <1>1, SyncKeeps
  <1>5. RowsInv'
    <2> SUFFICES ASSUME NEW p \in Proposals
                 PROVE  RowsGood(p, status[p], execution[p], order', approvals)
      BY <1>1 DEF RowsInv
    <2>1. RowsGood(p, status[p], execution[p], order, approvals)
      BY DEF AgentInv, RowsInv
    <2>2. Known(order, p) => Known(order', p)
      BY KnownStays
    <2> QED BY <2>1, <2>2 DEF RowsGood, EntriesGood
  <1>6. AgentTypeOK'
    BY <1>1, <1>3 DEF AgentInv, AgentTypeOK, LedgerInv, LedgerTypes
  <1> QED BY <1>3, <1>4, <1>5, <1>6 DEF AgentInv

\* A request at work is for a proposal.
LEMMA AtWork ==
  ASSUME AgentInv, NEW w \in Callers, ~At(w, "idle")
  PROVE  /\ Of(w) \in Proposals /\ caller[w] \in Caller
         /\ CallerGood(caller[w], execution, order, approvals)
         /\ RowsGood(Of(w), status[Of(w)], execution[Of(w)], order, approvals)
  BY DEF AgentInv, AgentTypeOK, CallersInv, RowsInv, CallerGood, At, Of

\* A step of a request that writes rows, and goes on or ends.
LEMMA StoreGoes ==
  ASSUME AgentInv, NEW w \in Callers, ~At(w, "idle"), Writes(Of(w)), StoreOnly,
         \/ Ends(w)
         \/ \E step \in Steps \ Numbered :
                Goes(w, step) /\ Ready(step, Of(w), execution', order, approvals')
         \/ \E c \in Caller : /\ caller' = [caller EXCEPT ![w] = c]
                              /\ CallerGood(c, execution', order, approvals')
  PROVE  AgentInv'
  <1>1. Of(w) \in Proposals
    BY AtWork
  <1>2. UNCHANGED exchangeVars /\ order' = order /\ sync' = sync /\ calls' = calls
    BY DEF StoreOnly, exchangeVars
  <1>3. sync' \in SyncRun /\ calls' \in 0 .. MaxCalls
    BY <1>2 DEF AgentInv, AgentTypeOK
  <1>4. SyncInv'
    BY <1>2, UnchangedInv, SyncKeeps DEF AgentInv
  <1>5. \E c \in Caller : /\ caller' = [caller EXCEPT ![w] = c]
                          /\ CallerGood(c, execution', order', approvals')
    <2>1. CASE Ends(w)
      BY <2>1, IdleGood DEF Ends
    <2>2. CASE \E step \in Steps \ Numbered :
                   Goes(w, step) /\ Ready(step, Of(w), execution', order, approvals')
      BY <1>1, <1>2, <2>2, WorkingGood DEF Goes
    <2> QED BY <1>2, <2>1, <2>2
  <1> QED BY <1>1, <1>2, <1>3, <1>4, <1>5, StoreStepInv

\* A step of a request on the ledger.
LEMMA LedgerGoes ==
  ASSUME AgentInv, NEW w \in Callers, ~At(w, "idle"), LedgerOnly,
         LedgerInv', Grows, EntriesGood,
         \/ Ends(w)
         \/ \E step \in Steps \ Numbered :
                Goes(w, step) /\ Ready(step, Of(w), execution, order', approvals)
         \/ \E c \in Caller : /\ caller' = [caller EXCEPT ![w] = c]
                              /\ CallerGood(c, execution, order', approvals)
  PROVE  AgentInv'
  <1>1. Of(w) \in Proposals
    BY AtWork
  <1>2. UNCHANGED <<storeVars, calls, sync, approvals>> /\ execution' = execution
    BY DEF LedgerOnly, storeVars
  <1>3. \E c \in Caller : /\ caller' = [caller EXCEPT ![w] = c]
                          /\ CallerGood(c, execution', order', approvals')
    <2>1. CASE Ends(w)
      BY <2>1, IdleGood DEF Ends
    <2>2. CASE \E step \in Steps \ Numbered :
                   Goes(w, step) /\ Ready(step, Of(w), execution, order', approvals)
      BY <1>1, <1>2, <2>2, WorkingGood DEF Goes
    <2> QED BY <1>2, <2>1, <2>2
  <1> QED BY <1>2, <1>3, LedgerStepInv

\* The three writes.
LEMMA ReadsWrite ==
  ASSUME AgentInv, NEW p \in Proposals, UNCHANGED <<status, execution, approvals>>
  PROVE  Writes(p)
  BY DEF AgentInv, AgentTypeOK, RowsInv, Writes

LEMMA ProposalWrites ==
  ASSUME AgentInv, NEW p \in Proposals, NEW value \in Statuses,
         status' = [status EXCEPT ![p] = value], UNCHANGED execution,
         approvals' \in {approvals, approvals \cup {p}},
         value = "approved" => p \in approvals',
         value \in Carried \cup {"closed"} => Known(order, p)
  PROVE  Writes(p)
  BY DEF AgentInv, AgentTypeOK, RowsInv, RowsGood, Writes

LEMMA ExecutionWrites ==
  ASSUME AgentInv, NEW p \in Proposals, NEW value \in ExecutionStatuses \ {"none"},
         \/ execution' = [execution EXCEPT ![p] = value]
         \/ UNCHANGED execution,
         UNCHANGED <<status, approvals>>,
         value = "executed" => Known(order, p)
  PROVE  Writes(p)
  BY DEF AgentInv, AgentTypeOK, RowsInv, RowsGood, Writes

-----------------------------------------------------------------------------
(* Requests begin.                                                         *)

LEMMA StartInv ==
  ASSUME AgentInv, NEW w \in Callers, NEW p \in Proposals, NEW c \in Caller, Writes(p),
         caller' = [caller EXCEPT ![w] = c],
         UNCHANGED <<exchangeVars, sync>>, calls < MaxCalls, calls' = calls + 1,
         CallerGood(c, execution', order, approvals')
  PROVE  AgentInv'
  <1>1. UNCHANGED exchangeVars /\ order' = order /\ sync' = sync
    BY DEF exchangeVars
  <1>2. sync' \in SyncRun /\ calls' \in 0 .. MaxCalls
    BY <1>1, AgentAssumption DEF AgentInv, AgentTypeOK
  <1>3. SyncInv'
    BY <1>1, UnchangedInv, SyncKeeps DEF AgentInv
  <1> QED BY <1>1, <1>2, <1>3, StoreStepInv

LEMMA BeginInv ==
  ASSUME AgentInv, NEW w \in Callers, NEW p \in Proposals,
         NEW step \in {"reject", "reconcile", "protect", "close"},
         Begin(w, p, step), UNCHANGED status,
         step \in {"protect", "close"} => Known(order, p)
  PROVE  AgentInv'
  <1>1. Writes(p)
    BY ReadsWrite DEF Begin
  <1>2. step \in Steps \ Numbered /\ Ready(step, p, execution', order, approvals')
    BY DEF Steps, Numbered, Ready, Carrying
  <1>3. Working(step, p) \in Caller /\ CallerGood(Working(step, p), execution', order, approvals')
    BY <1>2, WorkingGood
  <1> QED BY <1>1, <1>3, StartInv DEF Begin

LEMMA BeginEvaluationInv ==
  ASSUME AgentInv, NEW w \in Callers, NEW p \in Proposals,
         NEW then \in {"nothing", "approve", "claim"}, BeginEvaluation(w, p, then),
         UNCHANGED status \/ status' = [status EXCEPT ![p] = "risk_rejected"]
  PROVE  AgentInv'
  <1> DEFINE c == [Working("evaluate", p) EXCEPT !.then = then]
  <1>1. Writes(p)
    BY ReadsWrite, ProposalWrites DEF BeginEvaluation, Statuses, Carried
  <1>2. c \in Caller
    BY AgentAssumption DEF Working, Caller, Statuses, Steps
  <1>3. c.step = "evaluate" /\ c.p = p /\ c.was = "none"
    BY DEF Working
  <1>4. caller' = [caller EXCEPT ![w] = c]
    BY DEF BeginEvaluation
  <1> HIDE DEF c
  <1>5. CallerGood(c, execution', order, approvals')
    BY <1>3 DEF CallerGood, Carrying, Numbered
  <1> QED BY <1>1, <1>2, <1>4, <1>5, StartInv DEF BeginEvaluation

LEMMA RequestInv ==
  ASSUME AgentInv, NEW w \in Callers, RequestNext(w) PROVE AgentInv'
  <1>1. PICK p \in Proposals :
          \/ CreateFromTask(w, p) \/ Risk(w, p) \/ Approve(w, p) \/ Reject(w, p)
          \/ Execute(w, p) \/ ReconcileRequest(w, p) \/ Close(w, p)
    BY DEF RequestNext
  <1>2. status[p] \in Carried => Known(order, p)
    BY DEF AgentInv, RowsInv, RowsGood
  <1>3. CASE CreateFromTask(w, p) \/ Risk(w, p) \/ Approve(w, p)
    BY <1>3, BeginEvaluationInv DEF CreateFromTask, Risk, Approve
  <1>4. CASE Reject(w, p) \/ ReconcileRequest(w, p) \/ Close(w, p)
    BY <1>2, <1>4, BeginInv DEF Reject, ReconcileRequest, Close
  <1>5. CASE Execute(w, p)
    BY <1>2, <1>5, BeginInv, BeginEvaluationInv DEF Execute
  <1> QED BY <1>1, <1>3, <1>4, <1>5

-----------------------------------------------------------------------------
(* The steps of a request on the two rows.                                 *)

\* A step that only changes the request: it goes to a step it is ready for.
LEMMA ReadsInv ==
  ASSUME AgentInv, NEW w \in Callers, ~At(w, "idle"), ReadsOnly,
         \/ Ends(w)
         \/ \E step \in Steps \ Numbered :
                Goes(w, step) /\ Ready(step, Of(w), execution, order, approvals)
         \/ \E c \in Caller : /\ caller' = [caller EXCEPT ![w] = c]
                              /\ CallerGood(c, execution, order, approvals)
  PROVE  AgentInv'
  <1>1. UNCHANGED <<status, execution, approvals>> /\ StoreOnly
    BY DEF ReadsOnly, storeVars
  <1>2. Writes(Of(w))
    BY <1>1, AtWork, ReadsWrite
  <1> QED BY <1>1, <1>2, StoreGoes

LEMMA EvaluateRiskInv ==
  ASSUME AgentInv, NEW w \in Callers, EvaluateRisk(w) PROVE AgentInv'
  <1>1. ~At(w, "idle") /\ Of(w) \in Proposals /\ caller[w] \in Caller /\ StoreOnly
    BY AtWork DEF EvaluateRisk, At
  <1>2. CASE SaveProposal(w, "expired") /\ Ends(w)
    <2>1. Writes(Of(w))
      BY <1>1, <1>2, ProposalWrites DEF EvaluateRisk, SaveProposal, Statuses, Carried
    <2> QED BY <1>1, <1>2, <2>1, StoreGoes
  <1>3. CASE /\ caller' = [caller EXCEPT ![w].step = "check", ![w].was = status[Of(w)]]
             /\ UNCHANGED status
    <2> DEFINE c == [caller[w] EXCEPT !.step = "check", !.was = status[Of(w)]]
    <2>1. caller' = [caller EXCEPT ![w] = c]
      BY <1>3
    <2>2. status[Of(w)] \in Statuses /\ (status[Of(w)] = "approved" => Of(w) \in approvals)
      BY <1>1, AtWork DEF AgentInv, AgentTypeOK, RowsGood
    <2>3. c \in Caller /\ c.step = "check" /\ c.p = Of(w) /\ c.was = status[Of(w)]
      BY <1>1, <2>2 DEF Caller, Steps, Of
    <2>4. Writes(Of(w))
      BY <1>1, <1>3, ReadsWrite DEF EvaluateRisk
    <2> HIDE DEF c
    <2>5. CallerGood(c, execution', order, approvals')
      BY <1>1, <2>2, <2>3 DEF EvaluateRisk, CallerGood, Carrying, Numbered
    <2> QED BY <1>1, <2>1, <2>3, <2>4, <2>5, StoreGoes
  <1> QED BY <1>2, <1>3 DEF EvaluateRisk

LEMMA RiskCheckInv ==
  ASSUME AgentInv, NEW w \in Callers, RiskCheck(w) PROVE AgentInv'
  <1>1. ~At(w, "idle") /\ ReadsOnly
    BY DEF RiskCheck, At
  <1>2. /\ caller[w] \in Caller /\ CallerGood(caller[w], execution, order, approvals)
        /\ caller[w].step = "check"
    BY <1>1, AtWork DEF RiskCheck, At
  <1>3. CASE Keeps(w, "pass")
    <2> DEFINE c == [caller[w] EXCEPT !.step = "pass"]
    <2>1. caller' = [caller EXCEPT ![w] = c]
      BY <1>3 DEF Keeps
    <2>2. /\ c \in Caller /\ c.step = "pass"
          /\ c.p = caller[w].p /\ c.was = caller[w].was
      BY <1>2 DEF Caller, Steps
    <2> HIDE DEF c
    <2>3. CallerGood(c, execution, order, approvals)
      BY <1>2, <2>2 DEF CallerGood, Carrying, Numbered
    <2> QED BY <1>1, <2>1, <2>2, <2>3, ReadsInv
  <1>4. CASE Goes(w, "fail")
    <2>1. "fail" \in Steps \ Numbered /\ Ready("fail", Of(w), execution, order, approvals)
      BY DEF Steps, Numbered, Ready, Carrying
    <2> QED BY <1>1, <1>4, <2>1, ReadsInv
  <1> QED BY <1>3, <1>4 DEF RiskCheck

LEMMA SaveRiskInv ==
  ASSUME AgentInv, NEW w \in Callers, SaveRisk(w) PROVE AgentInv'
  <1>1. ~At(w, "idle") /\ StoreOnly /\ UNCHANGED <<execution, approvals>>
    BY DEF SaveRisk, At
  <1>2. Of(w) \in Proposals /\ (caller[w].was = "approved" => Of(w) \in approvals)
        /\ caller[w].then \in {"nothing", "approve", "claim"}
    BY <1>1, AtWork DEF CallerGood, Caller, Of
  <1>3. PICK value \in {"approved", "awaiting_approval", "risk_rejected"} :
          /\ SaveProposal(w, value)
          /\ value = "approved" => Of(w) \in approvals
    BY <1>2 DEF SaveRisk, Evaluated
  <1>4. Writes(Of(w))
    BY <1>1, <1>2, <1>3, ProposalWrites DEF SaveProposal, Statuses, Carried
  <1>5. Ends(w) \/ (GoesOn(w) /\ Goes(w, caller[w].then))
    BY DEF SaveRisk
  <1>6. CASE Ends(w)
    BY <1>1, <1>4, <1>6, StoreGoes
  <1>7. CASE GoesOn(w) /\ Goes(w, caller[w].then)
    <2>1. caller[w].then \in {"approve", "claim"}
      BY <1>7 DEF GoesOn
    <2>2. caller[w].then \in Steps \ Numbered
          /\ Ready(caller[w].then, Of(w), execution', order, approvals')
      BY <2>1 DEF Steps, Numbered, Ready, Carrying
    <2> QED BY <1>1, <1>4, <1>7, <2>2, StoreGoes
  <1> QED BY <1>5, <1>6, <1>7

\* A status is saved, and the request ends or goes on.
LEMMA SaveGoes ==
  ASSUME AgentInv, NEW w \in Callers, ~At(w, "idle"), StoreOnly,
         NEW value \in Statuses, SaveProposal(w, value), UNCHANGED execution,
         approvals' \in {approvals, approvals \cup {Of(w)}},
         value = "approved" => Of(w) \in approvals',
         value \in Carried \cup {"closed"} => Known(order, Of(w)),
         \/ Ends(w)
         \/ \E step \in Steps \ Numbered :
                Goes(w, step) /\ Ready(step, Of(w), execution, order, approvals)
  PROVE  AgentInv'
  <1>1. Writes(Of(w))
    BY AtWork, ProposalWrites DEF SaveProposal
  <1>2. \A step : Ready(step, Of(w), execution, order, approvals)
                    => Ready(step, Of(w), execution', order, approvals')
    BY DEF Ready
  <1> QED BY <1>1, <1>2, StoreGoes

\* The status of the execution row is saved, or that fails.
LEMMA MarkGoes ==
  ASSUME AgentInv, NEW w \in Callers, ~At(w, "idle"), StoreOnly,
         NEW value \in ExecutionStatuses \ {"none"}, UNCHANGED <<status, approvals>>,
         SaveExecution(w, value) \/ UNCHANGED execution,
         value = "executed" => Known(order, Of(w)),
         \/ Ends(w)
         \/ \E step \in Steps \ Numbered :
                Goes(w, step) /\ Ready(step, Of(w), execution', order, approvals)
  PROVE  AgentInv'
  <1>1. Writes(Of(w))
    BY AtWork, ExecutionWrites DEF SaveExecution
  <1> QED BY <1>1, StoreGoes

LEMMA DecisionInv ==
  ASSUME AgentInv, NEW w \in Callers, SaveApproval(w) \/ SaveRejection(w)
  PROVE  AgentInv'
  <1>1. ~At(w, "idle") /\ StoreOnly /\ Ends(w)
    BY DEF SaveApproval, SaveRejection, At
  <1>2. CASE SaveApproval(w)
    BY <1>1, <1>2, SaveGoes DEF SaveApproval, Statuses, Carried
  <1>3. CASE SaveRejection(w)
    BY <1>1, <1>3, SaveGoes DEF SaveRejection, Statuses, Carried
  <1> QED BY <1>2, <1>3

LEMMA ClaimInv ==
  ASSUME AgentInv, NEW w \in Callers, Claim(w) PROVE AgentInv'
  <1>1. ~At(w, "idle") /\ StoreOnly /\ UNCHANGED <<execution, approvals>>
    BY DEF Claim, At
  <1>2. CASE status[Of(w)] = "approved"
    <2>1. SaveProposal(w, "executing") /\ Goes(w, "record")
      BY <1>2 DEF Claim
    <2>2. "record" \in Steps \ Numbered /\ Ready("record", Of(w), execution, order, approvals)
      BY <1>1, <1>2, AtWork DEF RowsGood, Steps, Numbered, Ready, Carrying
    <2>3. "executing" \in Statuses /\ "executing" \notin Carried \cup {"closed", "approved"}
      BY DEF Statuses, Carried
    <2> QED BY <1>1, <2>1, <2>2, <2>3, SaveGoes
  <1>3. CASE status[Of(w)] # "approved"
    <2>1. UNCHANGED status /\ Goes(w, "reload") /\ ReadsOnly
      BY <1>1, <1>3 DEF Claim, ReadsOnly, storeVars
    <2>2. "reload" \in Steps \ Numbered /\ Ready("reload", Of(w), execution, order, approvals)
      BY DEF Steps, Numbered, Ready, Carrying
    <2> QED BY <1>1, <2>1, <2>2, ReadsInv
  <1> QED BY <1>2, <1>3

LEMMA RecordExecutionInv ==
  ASSUME AgentInv, NEW w \in Callers, RecordExecution(w) PROVE AgentInv'
  <1>1. /\ ~At(w, "idle") /\ StoreOnly /\ UNCHANGED <<status, approvals>>
        /\ SaveExecution(w, "executing")
    BY DEF RecordExecution, At
  <1>2. Of(w) \in approvals /\ Of(w) \in Proposals
    BY <1>1, AtWork DEF RecordExecution, CallerGood, At, Of
  <1>3. execution'[Of(w)] # "none"
    BY <1>1, <1>2 DEF SaveExecution, AgentInv, AgentTypeOK
  <1>4. PICK step \in {"submit", "block"} : Goes(w, step)
    BY DEF RecordExecution
  <1>5. step \in Steps \ Numbered /\ Ready(step, Of(w), execution', order, approvals)
    BY <1>2, <1>3 DEF Steps, Numbered, Ready, Carrying
  <1>6. "executing" \in ExecutionStatuses \ {"none"}
    BY DEF ExecutionStatuses
  <1> QED BY <1>1, <1>4, <1>5, <1>6, MarkGoes

LEMMA BlockInv ==
  ASSUME AgentInv, NEW w \in Callers, Block(w) PROVE AgentInv'
  <1>1. CASE /\ At(w, "block")
             /\ TrySaveExecution(w, "execution_failed") /\ Goes(w, "blocked")
             /\ UNCHANGED <<status, approvals>> /\ StoreOnly
    <2>1. "execution_failed" \in ExecutionStatuses \ {"none"} /\ "blocked" \in Steps \ Numbered
      BY DEF ExecutionStatuses, Steps, Numbered
    <2>2. Ready("blocked", Of(w), execution', order, approvals)
      BY DEF Ready, Carrying
    <2>3. ~At(w, "idle")
      BY <1>1 DEF At
    <2> QED BY <1>1, <2>1, <2>2, <2>3, MarkGoes DEF TrySaveExecution
  <1>2. CASE /\ At(w, "blocked")
             /\ SaveProposal(w, "risk_rejected") /\ Ends(w)
             /\ UNCHANGED <<execution, approvals>> /\ StoreOnly
    BY <1>2, SaveGoes DEF At, Statuses, Carried
  <1> QED BY <1>1, <1>2 DEF Block

LEMMA MarkExecutedInv ==
  ASSUME AgentInv, NEW w \in Callers, MarkExecuted(w) PROVE AgentInv'
  <1>1. ~At(w, "idle") /\ Known(order, Of(w))
    BY AtWork DEF MarkExecuted, CallerGood, Carrying, At, Of
  <1>2. CASE /\ At(w, "mark")
             /\ SaveExecution(w, "executed") /\ Goes(w, "marked")
             /\ UNCHANGED <<status, approvals>> /\ StoreOnly
    <2>1. "executed" \in ExecutionStatuses \ {"none"} /\ "marked" \in Steps \ Numbered
      BY DEF ExecutionStatuses, Steps, Numbered
    <2>2. Ready("marked", Of(w), execution', order, approvals)
      BY <1>1 DEF Ready
    <2> QED BY <1>1, <1>2, <2>1, <2>2, MarkGoes
  <1>3. CASE /\ At(w, "marked")
             /\ SaveProposal(w, "executed") /\ Goes(w, "protect")
             /\ UNCHANGED <<execution, approvals>> /\ StoreOnly
    <2>1. "executed" \in Statuses /\ "protect" \in Steps \ Numbered
      BY DEF Statuses, Steps, Numbered
    <2>2. Ready("protect", Of(w), execution, order, approvals)
      BY <1>1 DEF Ready
    <2> QED BY <1>1, <1>3, <2>1, <2>2, SaveGoes
  <1> QED BY <1>2, <1>3 DEF MarkExecuted

LEMMA MarkUncertainInv ==
  ASSUME AgentInv, NEW w \in Callers, MarkUncertain(w) PROVE AgentInv'
  <1>1. CASE /\ At(w, "doubt")
             /\ TrySaveExecution(w, "execution_uncertain") /\ Goes(w, "doubted")
             /\ UNCHANGED <<status, approvals>> /\ StoreOnly
    <2>1. "execution_uncertain" \in ExecutionStatuses \ {"none"} /\ "doubted" \in Steps \ Numbered
      BY DEF ExecutionStatuses, Steps, Numbered
    <2>2. Ready("doubted", Of(w), execution', order, approvals)
      BY DEF Ready, Carrying
    <2>3. ~At(w, "idle")
      BY <1>1 DEF At
    <2> QED BY <1>1, <2>1, <2>2, <2>3, MarkGoes DEF TrySaveExecution
  <1>2. CASE /\ At(w, "doubted")
             /\ SaveProposal(w, "execution_uncertain") /\ Ends(w)
             /\ UNCHANGED <<execution, approvals>> /\ StoreOnly
    BY <1>2, SaveGoes DEF At, Statuses, Carried
  <1> QED BY <1>1, <1>2 DEF MarkUncertain

LEMMA ReconcileInv ==
  ASSUME AgentInv, NEW w \in Callers, Reconcile(w) PROVE AgentInv'
  <1>1. ~At(w, "idle") /\ StoreOnly /\ UNCHANGED <<status, approvals>>
    BY DEF Reconcile, At
  <1>2. execution[Of(w)] = "executed" \/ status[Of(w)] \in Carried => Known(order, Of(w))
    BY <1>1, AtWork DEF RowsGood
  <1>3. "lookup" \in Steps \ Numbered /\ "protect" \in Steps \ Numbered
    BY DEF Steps, Numbered
  <1>4. "execution_uncertain" \in ExecutionStatuses \ {"none"}
    BY DEF ExecutionStatuses
  <1>5. \/ Ends(w)
        \/ Goes(w, "lookup")
        \/ Goes(w, "protect") /\ Known(order, Of(w))
    BY <1>2 DEF Reconcile
  <1>6. \A ex : Ready("lookup", Of(w), ex, order, approvals)
    BY DEF Ready, Carrying
  <1>7. \A ex : Known(order, Of(w)) => Ready("protect", Of(w), ex, order, approvals)
    BY DEF Ready
  <1>8. SaveExecution(w, "execution_uncertain") \/ UNCHANGED execution
    BY DEF Reconcile, TrySaveExecution
  <1> QED BY <1>1, <1>3, <1>4, <1>5, <1>6, <1>7, <1>8, MarkGoes

LEMMA FinishInv ==
  ASSUME AgentInv, NEW w \in Callers, SaveProtection(w) \/ SaveClosed(w)
  PROVE  AgentInv'
  <1>1. ~At(w, "idle") /\ StoreOnly /\ Ends(w) /\ UNCHANGED <<execution, approvals>>
    BY DEF SaveProtection, SaveClosed, At
  <1>2. Known(order, Of(w))
    BY <1>1, AtWork DEF SaveProtection, SaveClosed, CallerGood, Carrying, At, Of
  <1>3. PICK value \in {"executed", "protection_failed", "closed"} : SaveProposal(w, value)
    BY DEF SaveProtection, SaveClosed
  <1>4. value \in Statuses /\ value # "approved"
    BY DEF Statuses
  <1> QED BY <1>1, <1>2, <1>3, <1>4, SaveGoes

\* The steps that look and go on, without a write.
LEMMA LookInv ==
  ASSUME AgentInv, NEW w \in Callers,
         \/ Reload(w) \/ Protect(w) \/ CloseLeg(w) \/ ReadQuantity(w)
         \/ CheckClosed(w) \/ Abandon(w)
  PROVE  AgentInv'
  <1>1. ~At(w, "idle") /\ ReadsOnly
    BY DEF Reload, Protect, CloseLeg, ReadQuantity, CheckClosed, Abandon, At
  <1>2. CASE Reload(w) \/ Abandon(w)
    <2>1. "reconcile" \in Steps \ Numbered /\ Ready("reconcile", Of(w), execution, order, approvals)
      BY DEF Steps, Numbered, Ready, Carrying
    <2> QED BY <1>1, <1>2, <2>1, ReadsInv DEF Reload, Abandon
  <1>3. CASE Protect(w) \/ CloseLeg(w) \/ ReadQuantity(w) \/ CheckClosed(w)
    <2> DEFINE c == [Working("pick_stop", Of(w)) EXCEPT !.qty = managed]
    <2>1. Known(order, Of(w)) /\ Of(w) \in Proposals
      BY <1>1, <1>3, AtWork
      DEF Protect, CloseLeg, ReadQuantity, CheckClosed, CallerGood, Carrying, At, Of
    <2>2. \/ Ends(w)
          \/ \E step \in {"close", "unprotected", "cleanup", "quantity",
                          "release", "pick_close"} : Goes(w, step)
          \/ caller' = [caller EXCEPT ![w] = c]
      BY <1>3 DEF Protect, CloseLeg, ReadQuantity, CheckClosed
    <2>3. \A step \in {"close", "pick_stop", "unprotected", "cleanup", "quantity",
                       "release", "pick_close"} :
            step \in Steps \ Numbered /\ Ready(step, Of(w), execution, order, approvals)
      BY <2>1 DEF Steps, Numbered, Ready
    <2>4. Working("pick_stop", Of(w)) \in Caller
          /\ CallerGood(Working("pick_stop", Of(w)), execution, order, approvals)
      BY <2>1, <2>3, WorkingGood
    <2>5. managed \in Nat
      BY DEF AgentInv, AgentTypeOK
    <2>6. c \in Caller /\ CallerGood(c, execution, order, approvals)
      BY <2>4, <2>5 DEF Caller, CallerGood
    <2> HIDE DEF c
    <2> QED BY <1>1, <2>2, <2>3, <2>6, ReadsInv
  <1> QED BY <1>2, <1>3

\* An attempt is chosen.
LEMMA ChoosesGood ==
  ASSUME AgentInv, NEW w \in Callers, ~At(w, "idle"),
         NEW n \in Nat \ {0}, Chooses(w, n, "again"),
         NEW ord, Known(ord, Of(w))
  PROVE  \E c \in Caller : /\ caller' = [caller EXCEPT ![w] = c]
                           /\ CallerGood(c, execution, ord, approvals)
  <1> DEFINE c == [caller[w] EXCEPT !.step = "again", !.n = n]
  <1>1. caller' = [caller EXCEPT ![w] = c]
    BY DEF Chooses
  <1>2. /\ caller[w] \in Caller /\ CallerGood(caller[w], execution, order, approvals)
        /\ Of(w) \in Proposals
    BY AtWork
  <1>3. n \in 0 .. MaxTries
    BY AgentAssumption DEF Chooses
  <1>4. /\ c \in Caller /\ c.step = "again" /\ c.n = n
        /\ c.p = caller[w].p /\ c.was = caller[w].was
    BY <1>2, <1>3 DEF Caller, Steps
  <1> HIDE DEF c
  <1>5. CallerGood(c, execution, ord, approvals)
    BY <1>2, <1>4 DEF CallerGood, Of
  <1> QED BY <1>1, <1>4, <1>5

LEMMA ChoosesStopGood ==
  ASSUME AgentInv, NEW w \in Callers, ~At(w, "idle"),
         NEW n \in Nat \ {0}, NEW drop \in SUBSET (1 .. MaxTries), ChoosesStop(w, n, drop),
         NEW ord, Known(ord, Of(w))
  PROVE  \E c \in Caller : /\ caller' = [caller EXCEPT ![w] = c]
                           /\ CallerGood(c, execution, ord, approvals)
  <1> DEFINE step == IF drop = {} THEN "stop" ELSE "resize"
             c == [caller[w] EXCEPT !.step = step, !.n = n, !.drop = drop]
  <1>1. caller' = [caller EXCEPT ![w] = c]
    BY DEF ChoosesStop
  <1>2. /\ caller[w] \in Caller /\ CallerGood(caller[w], execution, order, approvals)
        /\ Of(w) \in Proposals
    BY AtWork
  <1>3. n \in 0 .. MaxTries
    <2>1. n <= MaxTries
      BY DEF ChoosesStop
    <2> QED BY <2>1, AgentAssumption
  <1>4. step \in {"stop", "resize"}
    OBVIOUS
  <1> HIDE DEF step
  <1>5. /\ c \in Caller /\ c.step = step /\ c.n = n
        /\ c.p = caller[w].p /\ c.was = caller[w].was
    BY <1>2, <1>3, <1>4 DEF Caller, Steps
  <1> HIDE DEF c
  <1>6. CallerGood(c, execution, ord, approvals)
    BY <1>2, <1>4, <1>5 DEF CallerGood, Of
  <1> QED BY <1>1, <1>5, <1>6

LEMMA PickStopInv ==
  ASSUME AgentInv, NEW w \in Callers, PickStop(w) PROVE AgentInv'
  <1>1. ~At(w, "idle") /\ ReadsOnly
    BY DEF PickStop, At
  <1>2. Of(w) \in Proposals /\ Known(order, Of(w))
    BY <1>1, AtWork DEF PickStop, CallerGood, Carrying, At, Of
  <1>3. CASE Goes(w, "unprotected")
    <2>1. /\ "unprotected" \in Steps \ Numbered
          /\ Ready("unprotected", Of(w), execution, order, approvals)
      BY <1>2 DEF Steps, Numbered, Ready
    <2> QED BY <1>1, <1>3, <2>1, ReadsInv
  <1>4. CASE \E n \in Nat \ {0}, drop \in SUBSET (1 .. MaxTries) : ChoosesStop(w, n, drop)
    BY <1>1, <1>2, <1>4, ChoosesStopGood, ReadsInv
  <1>5. \A o \in UnresolvedOf(Of(w), "stop") : o.n \in 1 .. MaxTries
    BY DEF UnresolvedOf, OfKind, OrderIDs
  <1>6. Numbers(UnresolvedOf(Of(w), "stop")) \in SUBSET (1 .. MaxTries)
    BY <1>5 DEF Numbers
  <1>7. NextAttempt(Of(w), "stop") \in Nat \ {0}
    BY <1>2, AttemptNumbers
  <1>8. \A o \in UnresolvedOf(Of(w), "stop") : o.n \in Nat \ {0}
    BY <1>5, AgentAssumption
  <1> QED BY <1>3, <1>4, <1>6, <1>7, <1>8 DEF PickStop, Numbers

LEMMA ReadAgainInv ==
  ASSUME AgentInv, NEW w \in Callers, ReadAgain(w) PROVE AgentInv'
  <1>1. ~At(w, "idle") /\ ReadsOnly
    BY DEF ReadAgain, At
  <1>2. /\ caller[w] \in Caller /\ CallerGood(caller[w], execution, order, approvals)
        /\ caller[w].step = "again" /\ Known(order, Of(w))
    BY <1>1, AtWork DEF ReadAgain, CallerGood, Carrying, At, Of
  <1>3. CASE Goes(w, "drop") \/ Goes(w, "release")
    <2>1. \A step \in {"drop", "release"} :
            step \in Steps \ Numbered /\ Ready(step, Of(w), execution, order, approvals)
      BY <1>2 DEF Steps, Numbered, Ready
    <2> QED BY <1>1, <1>3, <2>1, ReadsInv
  <1>4. ASSUME NEW lots \in 1 .. managed,
               caller' = [caller EXCEPT ![w].step = "submit_close", ![w].qty = lots]
        PROVE  AgentInv'
    <2> DEFINE c == [caller[w] EXCEPT !.step = "submit_close", !.qty = lots]
    <2>1. caller' = [caller EXCEPT ![w] = c]
      BY <1>4
    <2>2. lots \in Nat
      BY DEF AgentInv, AgentTypeOK
    <2>3. /\ c \in Caller /\ c.step = "submit_close" /\ c.n = caller[w].n
          /\ c.p = caller[w].p /\ c.was = caller[w].was
      BY <1>2, <2>2 DEF Caller, Steps
    <2> HIDE DEF c
    <2>4. CallerGood(c, execution, order, approvals)
      BY <1>2, <2>3 DEF CallerGood, Carrying, Numbered, Of
    <2> QED BY <1>1, <2>1, <2>3, <2>4, ReadsInv
  <1> QED BY <1>3, <1>4 DEF ReadAgain

-----------------------------------------------------------------------------
(* The steps of a request on the ledger.                                   *)

LEMMA SubmitClaimedInv ==
  ASSUME AgentInv, NEW w \in Callers, SubmitClaimed(w) PROVE AgentInv'
  <1> DEFINE o == Entry(Of(w))
  <1>1. ~At(w, "idle") /\ LedgerOnly
    BY DEF SubmitClaimed, At
  <1>2. Of(w) \in Proposals /\ Of(w) \in approvals /\ execution[Of(w)] # "none"
    BY <1>1, AtWork DEF SubmitClaimed, CallerGood, At, Of
  <1>3. o \in OrderIDs /\ IsEntry(o) /\ o.p = Of(w)
    BY <1>2, EntryFacts
  <1>4. \/ ExecuteSucceeds(o, Lots) /\ Goes(w, "mark")
        \/ ExecuteFails(o, Lots) /\ Goes(w, "lookup")
    BY DEF SubmitClaimed
  <1>5. "mark" \in Steps \ Numbered /\ "lookup" \in Steps \ Numbered
    BY DEF Steps, Numbered
  <1>6. Ready("lookup", Of(w), execution, order', approvals)
    BY DEF Ready, Carrying
  <1>7. order'[o].at # "unsent" => Ready("mark", Of(w), execution, order', approvals)
    BY DEF Ready, Known
  <1> HIDE DEF o
  <1>8. LedgerInv' /\ Grows /\ ClaimsOnly(o)
    BY <1>3, <1>4, AgentAssumption, ExecuteSucceedsInv, ExecuteFailsInv DEF AgentInv
  <1>9. EntriesGood
    BY <1>2, <1>3, <1>8, ClaimsOnlyGood
  <1>10. ExecuteSucceeds(o, Lots) => order'[o].at # "unsent"
    BY <1>3, AgentAssumption, ExecuteSucceedsInv DEF AgentInv
  <1> QED BY <1>1, <1>4, <1>5, <1>6, <1>7, <1>8, <1>9, <1>10, LedgerGoes

LEMMA LookUpEntryInv ==
  ASSUME AgentInv, NEW w \in Callers, LookUpEntry(w) PROVE AgentInv'
  <1> DEFINE o == Entry(Of(w))
  <1>1. ~At(w, "idle") /\ LedgerOnly
    BY DEF LookUpEntry, At
  <1>2. o \in OrderIDs
    BY <1>1, AtWork, EntryFacts
  <1>3. \/ LookUpFinds(o) /\ Goes(w, "mark")
        \/ LookUpFails(o) /\ Goes(w, "doubt")
    BY DEF LookUpEntry
  <1>4. "mark" \in Steps \ Numbered /\ "doubt" \in Steps \ Numbered
    BY DEF Steps, Numbered
  <1>5. Ready("doubt", Of(w), execution, order', approvals)
    BY DEF Ready, Carrying
  <1>6. order'[o].at # "unsent" => Ready("mark", Of(w), execution, order', approvals)
    BY DEF Ready, Known
  <1> HIDE DEF o
  <1>7. LedgerInv' /\ Grows /\ ClaimsNone
    BY <1>2, <1>3, LookUpFindsInv, LookUpFailsInv DEF AgentInv
  <1>8. LookUpFinds(o) => order'[o].at # "unsent"
    BY <1>2, LookUpFindsInv DEF AgentInv
  <1> QED BY <1>1, <1>3, <1>4, <1>5, <1>6, <1>7, <1>8, ClaimsNoneGood, LedgerGoes

LEMMA ExitFacts ==
  ASSUME AgentInv, NEW w \in Callers, caller[w].step \in {"stop", "submit_close"},
         NEW kind \in {"stop", "close"}
  PROVE  /\ Exit(Of(w), kind, caller[w].n) \in OrderIDs
         /\ ~IsEntry(Exit(Of(w), kind, caller[w].n))
  <1>1. ~At(w, "idle")
    BY DEF At
  <1>2. Of(w) \in Proposals /\ caller[w].n \in 1 .. MaxTries
    BY <1>1, AtWork, AgentAssumption DEF CallerGood, Numbered, Caller, Of
  <1> QED BY <1>2 DEF Exit, OrderIDs, IsEntry

LEMMA SubmitExitInv ==
  ASSUME AgentInv, NEW w \in Callers, SubmitStop(w) \/ SubmitClose(w)
  PROVE  AgentInv'
  <1>1. ~At(w, "idle") /\ LedgerOnly
    BY DEF SubmitStop, SubmitClose, At
  <1>2. Of(w) \in Proposals /\ Known(order, Of(w))
    BY <1>1, AtWork DEF SubmitStop, SubmitClose, CallerGood, Carrying, At, Of
  <1>3. PICK o \in OrderIDs, qty \in Nat :
          ~IsEntry(o) /\ (ExecuteSucceeds(o, qty) \/ ExecuteFails(o, qty))
    <2>1. caller[w].qty \in Nat
      BY <1>1, AtWork DEF Caller
    <2> QED BY <2>1, ExitFacts DEF SubmitStop, SubmitClose, At
  <1>4. LedgerInv' /\ Grows /\ ClaimsOnly(o)
    BY <1>3, ExecuteSucceedsInv, ExecuteFailsInv DEF AgentInv
  <1>5. EntriesGood
    BY <1>3, <1>4, ClaimsOnlyGood
  <1>6. Known(order', Of(w))
    BY <1>2, <1>4, KnownStays
  <1>7. \/ Ends(w)
        \/ \E step \in {"protected", "unprotected", "closing"} : Goes(w, step)
    BY DEF SubmitStop, SubmitClose
  <1>8. \A step \in {"protected", "unprotected", "closing"} :
          step \in Steps \ Numbered /\ Ready(step, Of(w), execution, order', approvals)
    BY <1>6 DEF Steps, Numbered, Ready
  <1> QED BY <1>1, <1>4, <1>5, <1>7, <1>8, LedgerGoes

LEMMA PickCloseInv ==
  ASSUME AgentInv, NEW w \in Callers, PickClose(w) PROVE AgentInv'
  <1>1. ~At(w, "idle") /\ LedgerOnly
    BY DEF PickClose, At
  <1>2. Of(w) \in Proposals /\ Known(order, Of(w))
    BY <1>1, AtWork DEF PickClose, CallerGood, Carrying, At, Of
  <1>3. \A o \in UnresolvedOf(Of(w), "close") : o \in OrderIDs
    BY DEF UnresolvedOf, OfKind
  <1>4. LedgerInv' /\ Grows /\ ClaimsNone
    BY <1>3, LookUpFindsInv, LookUpFailsInv, UnchangedInv DEF PickClose, AgentInv
  <1>5. Known(order', Of(w))
    BY <1>2, <1>4, KnownStays
  <1>6. NextAttempt(Of(w), "close") \in Nat \ {0}
    BY <1>2, AttemptNumbers
  <1>7. Ends(w) \/ Chooses(w, NextAttempt(Of(w), "close"), "again")
    BY DEF PickClose
  <1>8. CASE Ends(w)
    BY <1>1, <1>4, <1>8, ClaimsNoneGood, LedgerGoes
  <1>9. CASE Chooses(w, NextAttempt(Of(w), "close"), "again")
    <2>1. \E c \in Caller : /\ caller' = [caller EXCEPT ![w] = c]
                            /\ CallerGood(c, execution, order', approvals)
      BY <1>1, <1>5, <1>6, <1>9, ChoosesGood
    <2> QED BY <1>1, <1>4, <2>1, ClaimsNoneGood, LedgerGoes
  <1> QED BY <1>7, <1>8, <1>9

\* The steps of a close after its order: the position is released, its stops
\* are cancelled.
LEMMA CleanupInv ==
  ASSUME AgentInv, NEW w \in Callers, Release(w) \/ DropStops(w) \/ CancelStops(w)
  PROVE  AgentInv'
  <1>1. ~At(w, "idle") /\ LedgerOnly /\ LedgerInv
    BY DEF Release, DropStops, CancelStops, At, AgentInv
  <1>2. Of(w) \in Proposals /\ Known(order, Of(w))
    BY <1>1, AtWork DEF Release, DropStops, CancelStops, CallerGood, Carrying, At, Of
  <1>3. \A o \in UnresolvedOf(Of(w), "stop") :
          o \in OrderIDs /\ ~IsEntry(o) /\ order[o].row # "none"
    BY DEF UnresolvedOf, OfKind, Unresolved, IsEntry
  <1>4. LedgerInv' /\ Grows /\ ClaimsNone
    <2>1. CASE Release(w)
      <3>1. UNCHANGED <<order, sends>> /\ 0 \in Nat
        BY <2>1 DEF Release
      <3>2. CASE SetManaged(0)
        BY <1>1, <3>1, <3>2, SetManagedInv
      <3>3. CASE UNCHANGED positionVars
        BY <1>1, <3>1, <3>3, UnchangedInv DEF exchangeVars
      <3> QED BY <2>1, <3>2, <3>3 DEF Release
    <2>2. CASE DropStops(w)
      <3>1. PICK gone \in SUBSET {o \in UnresolvedOf(Of(w), "stop") : order[o].at = "working"} :
              order' = [o \in OrderIDs |-> IF o \in gone THEN Canceled(o) ELSE order[o]]
        BY <2>2 DEF DropStops
      <3>2. gone \in SUBSET OrderIDs /\ \A o \in gone : ~IsEntry(o) /\ order[o].row # "none"
        BY <1>3
      <3> QED BY <1>1, <2>2, <3>1, <3>2, DropStopsInv DEF DropStops
    <2>3. CASE CancelStops(w)
      <3>1. CASE UNCHANGED exchangeVars
        BY <1>1, <3>1, UnchangedInv
      <3>2. CASE \E o \in UnresolvedOf(Of(w), "stop") :
                     /\ order[o].at = "working"
                     /\ SetRow(o, "done", "ended") /\ UNCHANGED <<caller, sends>>
        <4>1. PICK o \in OrderIDs : /\ order[o].at = "working"
                                    /\ SetRow(o, "done", "ended") /\ UNCHANGED sends
          BY <1>3, <3>2
        <4> QED BY <1>1, <4>1, WorkingEndsInv
      <3> QED BY <2>3, <3>1, <3>2 DEF CancelStops
    <2> QED BY <2>1, <2>2, <2>3
  <1>5. Known(order', Of(w))
    BY <1>2, <1>4, KnownStays
  <1>6. \A step \in {"drop", "save_closed"} :
          step \in Steps \ Numbered /\ Ready(step, Of(w), execution, order', approvals)
    BY <1>5 DEF Steps, Numbered, Ready
  <1>7. \/ Ends(w) \/ UNCHANGED caller
        \/ \E step \in {"drop", "save_closed"} : Goes(w, step)
    BY DEF Release, DropStops, CancelStops
  <1>8. CASE UNCHANGED caller
    BY <1>1, <1>4, <1>8, ClaimsNoneGood, LedgerStepInv DEF LedgerOnly
  <1>9. CASE Ends(w) \/ \E step \in {"drop", "save_closed"} : Goes(w, step)
    BY <1>1, <1>4, <1>6, <1>9, ClaimsNoneGood, LedgerGoes
  <1> QED BY <1>7, <1>8, <1>9

LEMMA ResizeStopInv ==
  ASSUME AgentInv, NEW w \in Callers, ResizeStop(w) PROVE AgentInv'
  <1>1. ~At(w, "idle") /\ LedgerOnly /\ LedgerInv
    BY DEF ResizeStop, At, AgentInv
  <1>2. /\ Of(w) \in Proposals /\ Known(order, Of(w)) /\ caller[w].n \in Nat \ {0}
        /\ caller[w].drop \in SUBSET (1 .. MaxTries)
    BY <1>1, AtWork DEF ResizeStop, CallerGood, Carrying, Numbered, Caller, At, Of
  <1>3. CASE Goes(w, "unprotected") /\ UNCHANGED exchangeVars
    <2>1. LedgerInv' /\ Grows /\ ClaimsNone
      BY <1>1, <1>3, UnchangedInv
    <2>2. Known(order', Of(w))
      BY <1>2, <2>1, KnownStays
    <2>3. /\ "unprotected" \in Steps \ Numbered
          /\ Ready("unprotected", Of(w), execution, order', approvals)
      BY <2>2 DEF Steps, Numbered, Ready
    <2> QED BY <1>1, <1>3, <2>1, <2>3, ClaimsNoneGood, LedgerGoes
  <1>4. ASSUME NEW n \in caller[w].drop, order[Exit(Of(w), "stop", n)].at = "working",
               SetRow(Exit(Of(w), "stop", n), "done", "ended"), UNCHANGED sends,
               ChoosesStop(w, caller[w].n, caller[w].drop \ {n})
        PROVE  AgentInv'
    <2>1. Exit(Of(w), "stop", n) \in OrderIDs
      BY <1>2 DEF Exit, OrderIDs
    <2>2. LedgerInv' /\ Grows /\ ClaimsNone
      BY <1>1, <1>4, <2>1, WorkingEndsInv
    <2>3. Known(order', Of(w))
      BY <1>2, <2>2, KnownStays
    <2>4. caller[w].drop \ {n} \in SUBSET (1 .. MaxTries)
      BY <1>2
    <2>5. \E c \in Caller : /\ caller' = [caller EXCEPT ![w] = c]
                            /\ CallerGood(c, execution, order', approvals)
      BY <1>1, <1>2, <1>4, <2>3, <2>4, ChoosesStopGood
    <2> QED BY <1>1, <2>2, <2>5, ClaimsNoneGood, LedgerGoes
  <1> QED BY <1>3, <1>4 DEF ResizeStop

LEMMA HandlerInv ==
  ASSUME AgentInv, NEW w \in Callers, HandlerNext(w) PROVE AgentInv'
  BY EvaluateRiskInv, RiskCheckInv, SaveRiskInv, DecisionInv, ClaimInv, RecordExecutionInv,
     BlockInv, MarkExecutedInv, MarkUncertainInv, ReconcileInv, FinishInv, LookInv,
     PickStopInv, ResizeStopInv, ReadAgainInv, SubmitClaimedInv, LookUpEntryInv, SubmitExitInv,
     PickCloseInv, CleanupInv
  DEF HandlerNext

-----------------------------------------------------------------------------
(* The exchange and the loops.                                             *)

LEMMA WorldInv ==
  ASSUME AgentInv,
         \/ \E o \in OrderIDs : Fill(o) \/ EndOrder(o) \/ LoopLooksUp(o) \/ LoopCancels(o)
         \/ LoopShrinks
  PROVE  AgentInv'
  <1>1. LedgerInv /\ managed \in Nat
    BY DEF AgentInv, AgentTypeOK
  <1>2. WorldOnly
    BY DEF Fill, EndOrder, LoopLooksUp, LoopCancels, LoopShrinks
  <1>3. LedgerInv' /\ Grows /\ ClaimsNone
    <2>1. ASSUME NEW o \in OrderIDs, Fill(o)
          PROVE  LedgerInv' /\ Grows /\ ClaimsNone
      BY <1>1, <2>1, FillInv
    <2>2. ASSUME NEW o \in OrderIDs, EndOrder(o) \/ LoopCancels(o)
          PROVE  LedgerInv' /\ Grows /\ ClaimsNone
      <3>1. UNCHANGED sends /\ order[o].at = "working"
        BY <2>2 DEF EndOrder, LoopCancels
      <3>2. \E row \in {order[o].row, "done"} : SetRow(o, row, "ended")
        BY <2>2 DEF EndOrder, LoopCancels
      <3> QED BY <1>1, <3>1, <3>2, WorkingEndsInv
    <2>3. ASSUME NEW o \in OrderIDs, LoopLooksUp(o)
          PROVE  LedgerInv' /\ Grows /\ ClaimsNone
      BY <1>1, <2>3, LookUpFindsInv, LookUpFailsInv DEF LoopLooksUp
    <2>4. CASE LoopShrinks
      <3>1. PICK lots \in 0 .. managed - 1 : SetManaged(lots)
        BY <2>4 DEF LoopShrinks
      <3>2. lots \in Nat /\ UNCHANGED <<order, sends>>
        BY <1>1, <2>4 DEF LoopShrinks
      <3> QED BY <1>1, <3>1, <3>2, SetManagedInv
    <2> QED BY <2>1, <2>2, <2>3, <2>4
  <1>4. caller' = caller /\ UNCHANGED <<storeVars, calls, sync, approvals>>
    BY <1>2 DEF WorldOnly
  <1> QED BY <1>3, <1>4, ClaimsNoneGood, LedgerStepInv

LEMMA ExpireInv ==
  ASSUME AgentInv, NEW p \in Proposals, Expire(p) PROVE AgentInv'
  <1>1. Writes(p)
    BY ProposalWrites DEF Expire, Statuses, Carried
  <1>2. UNCHANGED <<exchangeVars, caller, calls, sync>>
    BY DEF Expire
  <1>3. calls' \in 0 .. MaxCalls /\ sync' \in SyncRun
    BY <1>2 DEF AgentInv, AgentTypeOK
  <1>4. SyncInv'
    BY <1>2, UnchangedInv, SyncKeeps DEF AgentInv
  <1> QED BY <1>1, <1>2, <1>3, <1>4, StoreStepInv

\* A step of the loop that only changes what the loop remembers.
LEMMA SyncStepInv ==
  ASSUME AgentInv, UNCHANGED status, SyncOnly, sync' \in SyncRun, SyncInv'
  PROVE  AgentInv'
  <1>1. UNCHANGED <<status, execution, exchangeVars, caller, calls, approvals>>
    BY DEF SyncOnly
  <1>2. LedgerInv'
    BY <1>1, UnchangedInv DEF AgentInv
  <1>3. order' = order
    BY <1>1 DEF exchangeVars
  <1>4. RowsInv' /\ CallersInv'
    BY <1>1, <1>3 DEF AgentInv, RowsInv, CallersInv
  <1>5. AgentTypeOK'
    BY <1>1, <1>2 DEF AgentInv, AgentTypeOK, LedgerInv, LedgerTypes
  <1> QED BY <1>2, <1>4, <1>5 DEF AgentInv

LEMMA SyncNextInv ==
  ASSUME AgentInv, SyncNext PROVE AgentInv'
  <1> DEFINE Safe(gone, todo) ==
               /\ gone \cup todo \subseteq past
               /\ \A p \in todo : Known(order, p)
  <1>1. past \subseteq Proposals /\ sync \in SyncRun /\ Safe(sync.gone, sync.todo)
    BY DEF AgentInv, AgentTypeOK, SyncInv
  <1>2. UNCHANGED exchangeVars /\ UNCHANGED <<order, holder, past>>
    BY DEF SyncNext, SyncLists, SyncReads, SyncSaves, SyncFails, SyncOnly, exchangeVars,
           positionVars
  <1>3. ASSUME NEW step \in {"idle", "read", "save"},
               NEW gone \in SUBSET Proposals, NEW todo \in SUBSET Proposals,
               Safe(gone, todo), sync' = [step |-> step, gone |-> gone, todo |-> todo]
        PROVE  sync' \in SyncRun /\ SyncInv'
    BY <1>2, <1>3 DEF SyncRun, SyncInv
  <1>4. Safe({}, {})
    OBVIOUS
  <1>5. sync' = NoSync => sync' \in SyncRun /\ SyncInv'
    BY <1>3, <1>4 DEF NoSync
  <1>6. CASE SyncLists
    <2>1. Safe(past \ {holder}, {})
      OBVIOUS
    <2>2. past \ {holder} \in SUBSET Proposals
      BY <1>1
    <2>3. sync' \in SyncRun /\ SyncInv'
      BY <1>3, <1>6, <2>1, <2>2 DEF SyncLists
    <2> QED BY <1>6, <2>3, SyncStepInv DEF SyncLists
  <1>7. CASE SyncReads
    <2> DEFINE todo == {p \in sync.gone : status[p] \in Carried}
    <2>1. todo \in SUBSET Proposals
      BY <1>1
    <2>2. Safe({}, todo)
      BY <1>1, <2>1 DEF AgentInv, RowsInv, RowsGood
    <2>3. sync' = NoSync \/ sync' = [step |-> "save", gone |-> {}, todo |-> todo]
      BY <1>7 DEF SyncReads
    <2> HIDE DEF todo
    <2>4. sync' \in SyncRun /\ SyncInv'
      BY <1>3, <1>5, <2>1, <2>2, <2>3
    <2> QED BY <1>7, <2>4, SyncStepInv DEF SyncReads
  <1>8. CASE SyncFails
    BY <1>5, <1>8, SyncStepInv DEF SyncFails
  <1>9. ASSUME NEW p \in Proposals, SyncSaves(p)
        PROVE  AgentInv'
    <2>1. Known(order, p)
      BY <1>1, <1>9 DEF SyncSaves
    <2>2. UNCHANGED <<execution, exchangeVars, caller, calls, approvals>>
      BY <1>9 DEF SyncSaves, SyncOnly
    <2>3. Writes(p)
      BY <1>9, <2>1, <2>2, ProposalWrites DEF SyncSaves, Statuses
    <2>4. sync' = NoSync \/ sync' = [step |-> sync.step, gone |-> sync.gone, todo |-> sync.todo \ {p}]
      BY <1>1, <1>9 DEF SyncSaves, SyncRun
    <2>5. Safe(sync.gone, sync.todo \ {p})
      BY <1>1
    <2>6. /\ sync.step \in {"idle", "read", "save"} /\ sync.gone \in SUBSET Proposals
          /\ sync.todo \ {p} \in SUBSET Proposals
      BY <1>1 DEF SyncRun
    <2>7. sync' \in SyncRun /\ SyncInv'
      BY <1>3, <1>5, <2>4, <2>5, <2>6
    <2>8. calls' \in 0 .. MaxCalls
      BY <2>2 DEF AgentInv, AgentTypeOK
    <2> QED BY <2>2, <2>3, <2>7, <2>8, StoreStepInv
  <1> QED BY <1>6, <1>7, <1>8, <1>9 DEF SyncNext

\* The rows that the process finds: only the proposal that has the position of
\* the leg is executed, and its entry is booked.
LEMMA InitInv ==
  ASSUME AgentInit PROVE AgentInv
  <1>1. /\ status \in [Proposals -> Statuses] /\ execution \in [Proposals -> ExecutionStatuses]
        /\ caller \in [Callers -> Caller]
    BY AgentAssumption, IdleGood DEF AgentInit, Statuses, ExecutionStatuses
  <1>2. BookedEntry \in OrderRow /\ NoOrder \in OrderRow
    BY AgentAssumption DEF BookedEntry, NoOrder, OrderRow
  <1>3. /\ BookedEntry.row = "done" /\ BookedEntry.at = "filled"
        /\ BookedEntry.booked = Lots /\ BookedEntry.filled = Lots
        /\ NoOrder.row = "none" /\ NoOrder.at = "unsent" /\ NoOrder.booked = 0
        /\ NoOrder.filled = 0
    BY DEF BookedEntry, NoOrder
  <1>4. /\ order \in [OrderIDs -> OrderRow]
        /\ \A o \in OrderIDs : order[o] = IF o = Entry(holder) THEN BookedEntry ELSE NoOrder
    BY <1>2 DEF AgentInit
  <1>5. \A p \in Proposals : order[Entry(p)] = IF p = holder THEN BookedEntry ELSE NoOrder
    <2> TAKE p \in Proposals
    <2>1. Entry(p) \in OrderIDs /\ (Entry(p) = Entry(holder) <=> p = holder)
      BY EntryFacts DEF Entry
    <2> QED BY <1>4, <2>1
  <1>6. /\ holder \in Proposals \cup {Nobody} /\ managed \in Nat /\ past \in SUBSET Proposals
        /\ sends \in [Proposals -> Nat] /\ past \subseteq {holder}
        /\ \A p \in Proposals : sends[p] = IF p = holder THEN 1 ELSE 0
    BY AgentAssumption DEF AgentInit
  <1>7. sync \in SyncRun /\ SyncInv
    BY DEF AgentInit, NoSync, SyncRun, SyncInv
  <1>8. LedgerInv
    <2>1. \A o \in OrderIDs : RowGood(order[o])
      BY <1>3, <1>4, AgentAssumption DEF RowGood
    <2>2. \A p \in Proposals : sends[p] = IF order[Entry(p)].at = "unsent" THEN 0 ELSE 1
      BY <1>3, <1>5, <1>6
    <2>3. \A p \in past : order[Entry(p)].booked > 0
      BY <1>3, <1>5, <1>6, AgentAssumption
    <2> QED BY <1>4, <1>6, <2>1, <2>2, <2>3 DEF LedgerInv, LedgerTypes
  <1>9. approvals \in SUBSET Proposals /\ calls \in 0 .. MaxCalls
    BY AgentAssumption DEF AgentInit
  <1>10. AgentTypeOK
    BY <1>1, <1>4, <1>6, <1>7, <1>9 DEF AgentTypeOK
  <1>11. RowsInv
    <2> SUFFICES ASSUME NEW p \in Proposals
                 PROVE  RowsGood(p, status[p], execution[p], order, approvals)
      BY DEF RowsInv
    <2>1. /\ status[p] \in {"none", "awaiting_approval", "approved", "executed"}
          /\ status[p] = "executed" <=> p = holder
          /\ execution[p] = IF p = holder THEN "executed" ELSE "none"
          /\ p \in approvals <=> status[p] \in {"approved", "executed"}
      BY AgentAssumption DEF AgentInit
    <2>2. p = holder => Known(order, p)
      BY <1>3, <1>5 DEF Known
    <2>3. Claimed(order, p) => p = holder
      BY <1>3, <1>5 DEF Claimed
    <2> QED BY <2>1, <2>2, <2>3 DEF RowsGood, Carried
  <1>12. CallersInv
    BY IdleGood DEF AgentInit, CallersInv
  <1> QED BY <1>7, <1>8, <1>10, <1>11, <1>12 DEF AgentInv

LEMMA NextInv ==
  ASSUME AgentInv, [AgentNext]_agentVars PROVE AgentInv'
  <1>1. CASE AgentNext
    BY <1>1, RequestInv, HandlerInv, WorldInv, ExpireInv, SyncNextInv DEF AgentNext, WorldNext
  <1>2. CASE UNCHANGED agentVars
    <2>1. UNCHANGED status /\ SyncOnly /\ sync' = sync
      BY <1>2 DEF agentVars, storeVars, SyncOnly
    <2>2. sync' \in SyncRun /\ SyncInv'
      BY <2>1, UnchangedInv, SyncKeeps DEF AgentInv, AgentTypeOK, SyncOnly
    <2> QED BY <2>1, <2>2, SyncStepInv
  <1> QED BY <1>1, <1>2

LEMMA AgentInvAlways == AgentSpec => []AgentInv
  BY InitInv, NextInv, PTL DEF AgentSpec

-----------------------------------------------------------------------------
(* The properties.                                                         *)

\* The rows, the ledger, the requests and the loop hold only the values that
\* the code of service/agenttrade gives them.
THEOREM AgentTypes == AgentSpec => []AgentTypeOK
  <1>1. AgentInv => AgentTypeOK
    BY DEF AgentInv
  <1> QED BY <1>1, AgentInvAlways, PTL

\* Whatever the requests for a proposal do, together with the loop and after
\* errors, its entry reaches the exchange at most once: Executor.Execute sends
\* only what has no row yet or was never sent.
THEOREM EntryOnce == AgentSpec => []OneEntry
  <1>1. AgentInv => OneEntry
    BY DEF AgentInv, LedgerInv, OneEntry
  <1> QED BY <1>1, AgentInvAlways, PTL

\* An entry goes out only for a proposal that was approved, although a check of
\* the risk writes back the status that it read long before.
THEOREM NothingUnapproved == AgentSpec => []EntryNeedsApproval
  <1>1. AgentInv => EntryNeedsApproval
    BY EntryFacts DEF AgentInv, LedgerInv, LedgerTypes, RowGood, RowsInv, RowsGood, Claimed,
                      EntryNeedsApproval
  <1> QED BY <1>1, AgentInvAlways, PTL

\* An entry order that may have gone out always has an execution row, from
\* which Reconcile goes on after a crash.
THEOREM TradesAreTraced == AgentSpec => []TradeIsTraced
  <1>1. AgentInv => TradeIsTraced
    BY DEF AgentInv, RowsInv, RowsGood, Claimed, TradeIsTraced
  <1> QED BY <1>1, AgentInvAlways, PTL

\* What the rows report as executed, or as closed after that, was accepted by
\* the exchange: an error of the submission is never taken for an answer.
THEOREM ExecutedWasAccepted == AgentSpec => []ExecutedIsReal
  <1>1. AgentInv => ExecutedIsReal
    BY DEF AgentInv, RowsInv, RowsGood, Known, ExecutedIsReal
  <1> QED BY <1>1, AgentInvAlways, PTL
=============================================================================
