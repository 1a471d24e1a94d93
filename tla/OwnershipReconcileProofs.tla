----------------------- MODULE OwnershipReconcileProofs -----------------------
(***************************************************************************)
(* Theorems about any number of goroutines that compare the account with   *)
(* the ledger beside each other and beside any number of trading ones, for *)
(* any owners, legs and orders: they write the ledger through the ledger's *)
(* operations only, and keep what the executor alone keeps.                *)
(*                                                                         *)
(* A step of the whole is a step of the executor, or an observer takes up  *)
(* an order the executor would not have been called for (its row may have  *)
(* become final since it was listed), or only a position row changes, by a *)
(* comparison with the account or by the passing of ten seconds.           *)
(***************************************************************************)
EXTENDS OwnershipReconcile, ExecutionFinalProofs

USE ReconcileAssumption

\* The orders somebody may cancel: Cancelable by its callers, and every order
\* that reduces a position by cancelOrphanMutations.
Revocable == Cancelable \cup {o \in Orders : ~IsOpen(o)}

\* What an observer may rely on about its own variables: there is an owner to
\* visit and a leg to compare, what it cancels reduces a position, and what it
\* read of the account is no debt.
PassShape(p) ==
    /\ p \in Pass
    /\ p.phase # "idle" => p.left # <<>>
    /\ p.phase \in {"account", "opens", "compare"} => p.legs # {}
    /\ p.phase = "cancel" => \A o \in p.todo : ~IsOpen(o)
    /\ \A s \in Slots : p.account[s] >= 0 /\ p.local[s] >= 0

PassInv ==
    /\ pass \in [Observers -> Pass]
    /\ \A ob \in Observers : PassShape(pass[ob])
    /\ restarts \in 0 .. MaxRestarts
    /\ \A s \in Slots : Account(s) >= 0

ReconcileInv ==
    /\ FinalInv(Revocable)
    /\ ExposureInv
    /\ PassInv

-----------------------------------------------------------------------------
\* What the observers and the passing of time do to the executor's variables.
Takes(ob, o) ==
    \/ Become(ob, NewTask("lookup", o, "reconcile"))
    \/ ~IsOpen(o) /\ Become(ob, NewTask("cancel", o, "reconcile"))
    \/ \E row \in Snapshots(o) :
          Become(ob, [NewTask("mark", o, "reconcile") EXCEPT !.answer = row])

ObserverTakes ==
    /\ \E ob \in Observers, o \in Orders : Takes(ob, o)
    /\ LocalOnly

PositionMoves ==
    /\ \E s \in Slots, ow \in Owners :
          Age(s, ow) \/ \E q \in Nat : ReconcileObservedPosition(s, ow, q)
    /\ LedgerOnly /\ UNCHANGED worker

CoreNext == [ExecutionNext]_executionVars \/ ObserverTakes \/ PositionMoves

\* The parts of what an observer remembers.
LEMMA PassParts ==
    ASSUME PassInv, NEW ob \in Observers
    PROVE  /\ PassShape(pass[ob])
           /\ pass[ob].left \in Seq(Owners)
           /\ pass[ob].todo \subseteq Orders
           /\ pass[ob].legs \subseteq Slots
           /\ \A s \in Slots : pass[ob].account[s] \in Nat
           /\ ~Phase(ob, "idle") => Owner(ob) \in Owners
           /\ pass[ob].legs # {} => CurrentLeg(ob) \in pass[ob].legs
<1>1. PassShape(pass[ob])
  BY DEF PassInv
<1>2. /\ pass[ob].left \in Seq(Owners)
      /\ pass[ob].todo \subseteq Orders
      /\ pass[ob].legs \subseteq Slots
      /\ pass[ob].account \in [Slots -> Int]
  BY <1>1 DEF PassShape, Pass, Quantity
<1>3. \A s \in Slots : pass[ob].account[s] \in Nat
  BY <1>1, <1>2 DEF PassShape
<1>4. ~Phase(ob, "idle") => Owner(ob) \in Owners
  BY <1>1, <1>2 DEF PassShape, Phase, Owner
<1>5. pass[ob].legs # {} => CurrentLeg(ob) \in pass[ob].legs
  BY DEF CurrentLeg, First
<1> QED
  BY <1>1, <1>2, <1>3, <1>4, <1>5

LEMMA StepKinds ==
    ASSUME ExecutionInv, PassInv, [ReconcileNext]_reconcileVars
    PROVE  CoreNext
<1>1. CASE UNCHANGED executionVars
  BY <1>1 DEF CoreNext
<1>2. ASSUME NEW ob \in Observers, PassNext(ob)
      PROVE  CoreNext
  <2>1. ASSUME NEW o \in Orders, ReconcileOrder(ob, o)
        PROVE  CoreNext
    <3>1. PICK task \in Inquiries(ob, o) : Become(ob, task)
      BY <2>1 DEF ReconcileOrder
    <3>2. Free(ob) /\ LocalOnly
      BY <2>1 DEF ReconcileOrder
    <3>3. CASE task = Idle
      <4>1. UNCHANGED worker
        BY <3>1, <3>2, <3>3 DEF Become, Free, ExecutionInv, ExecutionTypeOK
      <4> QED
        BY <1>1, <3>2, <4>1 DEF LocalOnly, ledgerVars, executionVars
    <3>4. CASE task # Idle
      <4>1. Takes(ob, o)
        BY <3>1, <3>4 DEF Inquiries, Takes
      <4> QED
        BY <3>2, <4>1 DEF ObserverTakes, CoreNext
    <3> QED
      BY <3>3, <3>4
  <2>2. ASSUME NEW o \in Orders, CancelOrphan(ob, o)
        PROVE  CoreNext
    <3>1. ~IsOpen(o) /\ Become(ob, NewTask("cancel", o, "reconcile")) /\ LocalOnly
      BY <2>2, PassParts DEF CancelOrphan, PassShape, Phase
    <3> QED
      BY <3>1 DEF Takes, ObserverTakes, CoreNext
  <2>3. ASSUME Compare(ob)
        PROVE  CoreNext
    <3> DEFINE s == CurrentLeg(ob)
    <3>1. s \in Slots /\ Owner(ob) \in Owners /\ pass[ob].account[s] \in Nat
      BY <2>3, PassParts DEF Compare, Phase, PassShape
    <3>2. CASE ReconcileObservedPosition(s, Owner(ob), pass[ob].account[s])
      <4>1. LedgerOnly /\ UNCHANGED worker
        BY <2>3 DEF Compare
      <4> HIDE DEF s
      <4> QED
        BY <3>1, <3>2, <4>1 DEF PositionMoves, CoreNext
    <3>3. CASE UNCHANGED ownershipVars
      BY <2>3, <3>3
      DEF Compare, LedgerOnly, ownershipVars, executionVars, CoreNext
    <3> QED
      BY <2>3, <3>2, <3>3 DEF Compare
  <2> QED
    BY <1>1, <1>2, <2>1, <2>2, <2>3
    DEF PassNext, StartPass, ReadManaged, ReadAccount, ReadFails, CheckOpens, ReadRemaining,
        ListOrphans, NextOwner, PassOnly
<1>3. CASE StartNext \/ \E w \in Workers : CallNext(w)
  <2>1. PICK w \in Workers : WorkerNext(w)
    BY <1>3 DEF StartNext, Trade, StartCall, CallNext, WorkerNext
  <2> QED
    BY <2>1 DEF ExecutionNext, CoreNext
<1>4. CASE WorldNext \/ RestartNext
  BY <1>4 DEF WorldNext, RestartNext, ExecutionNext, CoreNext
<1>5. CASE TimeNext
  BY <1>5 DEF TimeNext, PositionMoves, CoreNext
<1> QED
  BY <1>1, <1>2, <1>3, <1>4, <1>5 DEF ReconcileNext, reconcileVars

\* What the two further kinds of step leave alone.
LEMMA TakesQuietly ==
    ASSUME ExecutionInv, ObserverTakes
    PROVE  /\ ExecutionInv'
           /\ UNCHANGED <<orders, positions, exchangeID, exchange, held, sent>>
           /\ \A w \in Workers : At(w, "submit")' => worker'[w] = worker[w]
           /\ \A w \in Workers : \/ worker'[w] = worker[w]
                                 \/ PlaceInv(w, Revocable)'
<1>1. PICK ob \in Observers, o \in Orders : Takes(ob, o)
  BY DEF ObserverTakes
<1>2. UNCHANGED <<orders, positions, exchangeID, exchange, held, sent>>
  BY DEF ObserverTakes, LocalOnly, ledgerVars
<1>3. ob \in Workers
  OBVIOUS
<1>4. \A w \in Workers : w # ob => worker'[w] = worker[w]
  BY <1>1 DEF Takes, Become, ExecutionInv, ExecutionTypeOK
<1>5. ASSUME Become(ob, NewTask("lookup", o, "reconcile"))
      PROVE  TasksSound /\ ~At(ob, "submit")' /\ PlaceInv(ob, Revocable)'
  <2>1. worker'[ob] = NewTask("lookup", o, "reconcile")
    BY <1>3, <1>5, Becoming
  <2>2. TasksSound
    BY <1>3, <1>5, NewTaskIsSound, BecomeKeepsTasks DEF TasksSound, Steps
  <2> QED
    BY <2>1, <2>2 DEF NewTask, At, PlaceInv
<1>6. ASSUME ~IsOpen(o), Become(ob, NewTask("cancel", o, "reconcile"))
      PROVE  TasksSound /\ ~At(ob, "submit")' /\ PlaceInv(ob, Revocable)'
  <2>1. worker'[ob] = NewTask("cancel", o, "reconcile")
    BY <1>3, <1>6, Becoming
  <2>2. TasksSound
    BY <1>3, <1>6, NewTaskIsSound, BecomeKeepsTasks DEF TasksSound, Steps
  <2>3. worker'[ob].order \in Revocable
    BY <1>6, <2>1 DEF NewTask, Revocable
  <2> QED
    BY <2>1, <2>2, <2>3 DEF NewTask, At, PlaceInv, Revocable, IsOpen
<1>7. ASSUME NEW row \in Snapshots(o),
             Become(ob, [NewTask("mark", o, "reconcile") EXCEPT !.answer = row])
      PROVE  TasksSound /\ ~At(ob, "submit")' /\ PlaceInv(ob, Revocable)'
  <2> DEFINE task == [NewTask("mark", o, "reconcile") EXCEPT !.answer = row]
  <2>1. worker'[ob] = task
    BY <1>3, <1>7, Becoming
  <2>2. SoundTask(task)
    <3>1. row \in ExchangeRow /\ row.filled <= Request[o].qty
      BY SnapshotsAreSane DEF ExecutionInv, ExchangeSane
    <3>2. NewTask("mark", o, "reconcile") \in Task /\ NewTask("mark", o, "reconcile").order = o
      BY DEF NewTask, Task, Unknown, ExchangeRow, ExchangeState, Steps
    <3> QED
      BY <3>1, <3>2 DEF SoundTask, Task
  <2>3. TasksSound
    <3> HIDE DEF task
    <3> QED
      BY <1>3, <1>7, <2>2, BecomeKeepsTasks DEF TasksSound, task
  <2>4. Tells(row, exchange'[o])
    BY <1>2, SnapshotsTell
  <2>5. task.step = "mark" /\ task.order = o /\ task.answer = row
    BY DEF NewTask
  <2> HIDE DEF task
  <2> QED
    BY <2>1, <2>3, <2>4, <2>5 DEF At, PlaceInv
<1>8. TasksSound /\ ~At(ob, "submit")' /\ PlaceInv(ob, Revocable)'
  BY <1>1, <1>5, <1>6, <1>7 DEF Takes
<1>9. LedgerInv'
  BY <1>2, KeepPositions DEF ExecutionInv, LedgerInv, TypeOK
<1>10. ExecutionInv'
  BY <1>2, <1>8, <1>9, CountersKept, ExchangeKept, ExecutionParts
<1> QED
  BY <1>2, <1>4, <1>8, <1>10

LEMMA MovesQuietly ==
    ASSUME ExecutionInv, PositionMoves
    PROVE  /\ ExecutionInv'
           /\ UNCHANGED <<orders, exchangeID, exchange, held, sent, worker>>
           /\ \A s \in Slots, ow \in Owners : Holds(ow, s)' => Holds(ow, s)
<1>1. PICK s \in Slots, ow \in Owners :
          Age(s, ow) \/ \E q \in Nat : ReconcileObservedPosition(s, ow, q)
  BY DEF PositionMoves
<1>2. UNCHANGED <<orders, exchangeID, exchange, held, sent, worker>>
  BY <1>1 DEF PositionMoves, LedgerOnly, Age, ReconcileObservedPosition
<1>3. LedgerInv'
  BY <1>1, ObservedStep, AgeStep DEF ExecutionInv
<1>4. ExecutionInv'
  BY <1>2, <1>3, TasksKept, CountersKept, ExchangeKept, ExecutionParts
<1>5. Holds(ow, s) /\ \E row : SetPosition(s, ow, row)
  BY <1>1
  DEF Age, ReconcileObservedPosition, ObserveZero, ObserveQuantity, Holds
<1>6. \A t \in Slots, other \in Owners : Holds(other, t)' => Holds(other, t)
  BY <1>5 DEF SetPosition, Holds, ExecutionInv, LedgerInv, TypeOK
<1> QED
  BY <1>2, <1>4, <1>6

\* An unchanged row and exchange go forward.
LEMMA QuietForward ==
    ASSUME ExecutionInv, UNCHANGED <<orders, exchange>>, NEW p \in Orders,
           Submitting(p)' => Submitting(p)
    PROVE  Forward(p) /\ StatusForward
<1>1. exchange[p].filled \in Nat /\ orders[p].filled \in Nat
  BY DEF ExecutionInv, ExecutionTypeOK, ExchangeRow, LedgerInv, TypeOK, OrderRow
<1> QED
  BY <1>1 DEF Forward, StatusForward, NotYetReserved

\* Every step, of whatever kind, moves rows and exchange forward only.
LEMMA CoreForward ==
    ASSUME NEW C, Cancelable \subseteq C, FinalInv(C), CoreNext, NEW p \in Orders
    PROVE  Forward(p) /\ StatusForward
<1>1. ExecutionInv
  BY DEF FinalInv
<1>2. CASE [ExecutionNext]_executionVars
  BY <1>1, <1>2, StepForward, StatusesGoForward
<1>3. CASE ObserverTakes
  <2>1. Submitting(p)' => Submitting(p)
    BY <1>1, <1>3, TakesQuietly DEF Submitting, At
  <2> QED
    BY <1>1, <1>3, <2>1, TakesQuietly, QuietForward
<1>4. CASE PositionMoves
  <2>1. Submitting(p)' => Submitting(p)
    BY <1>1, <1>4, MovesQuietly DEF Submitting, At
  <2> QED
    BY <1>1, <1>4, <2>1, MovesQuietly, QuietForward
<1> QED
  BY <1>2, <1>3, <1>4 DEF CoreNext

LEMMA RevocableIsEnough ==
    /\ Cancelable \subseteq Revocable
    /\ \A o \in Orders : ~IsOpen(o) => o \in Revocable
BY DEF Revocable

LEMMA CoreFinal ==
    ASSUME FinalInv(Revocable), CoreNext
    PROVE  FinalInv(Revocable)'
<1>1. ExecutionInv /\ SubmissionInv
  BY DEF FinalInv
<1>2. CASE [ExecutionNext]_executionVars
  BY <1>2, FinalStep, RevocableIsEnough
<1>3. ASSUME ObserverTakes \/ PositionMoves
      PROVE  FinalInv(Revocable)'
  <2>1. /\ ExecutionInv' /\ UNCHANGED <<orders, exchange, sent>>
        /\ \A w \in Workers : At(w, "submit")' => worker'[w] = worker[w]
        /\ \A w \in Workers : worker'[w] = worker[w] \/ PlaceInv(w, Revocable)'
    BY <1>1, <1>3, TakesQuietly, MovesQuietly
  <2>2. \A p \in Orders : Forward(p)
    BY <1>3, CoreForward, RevocableIsEnough DEF CoreNext
  <2>3. StatusForward
    BY <2>1 DEF StatusForward, NotYetReserved
  <2>4. SubmissionInv'
    BY <1>1, <2>1, <2>3, QuietStep
  <2>5. ASSUME NEW v \in Workers
        PROVE  PlaceInv(v, Revocable)'
    BY <2>1, <2>2, <2>3, PlaceKept, RevocableIsEnough
  <2>6. \A p \in Orders : RowInv(p, Revocable)'
    BY <2>1, <2>2, RowKept, RevocableIsEnough
  <2> QED
    BY <2>1, <2>4, <2>5, <2>6 DEF FinalInv
<1> QED
  BY <1>2, <1>3 DEF CoreNext

LEMMA CoreExposure ==
    ASSUME FinalInv(Revocable), ExposureInv, CoreNext
    PROVE  ExposureInv'
<1>1. ExecutionInv
  BY DEF FinalInv
<1>2. CASE [ExecutionNext]_executionVars
  BY <1>2, ExposureStep, RevocableIsEnough
<1>3. ASSUME ObserverTakes \/ PositionMoves
      PROVE  ExposureInv'
  <2>1. UNCHANGED <<orders, exchange>>
    BY <1>1, <1>3, TakesQuietly, MovesQuietly
  <2>2. \A p \in Orders : Submitting(p)' => Submitting(p)
    BY <1>1, <1>3, TakesQuietly, MovesQuietly DEF Submitting, At
  <2>3. \A p \in Orders : CanTrade(p)' => CanTrade(p)
    BY <2>1, <2>2 DEF CanTrade, IsOpen
  <2>4. \A s \in Slots, ow \in Owners : Holds(ow, s)' => Holds(ow, s)
    BY <1>1, <1>3, TakesQuietly, MovesQuietly DEF Holds
  <2> QED
    BY <2>3, <2>4, RequestParts DEF ExposureInv, IsOpen
<1> QED
  BY <1>2, <1>3 DEF CoreNext

\* Only a fill, or the operator, changes what the account holds.
LEMMA CoreHoldings ==
    ASSUME ExecutionInv, CoreNext
    PROVE  \/ UNCHANGED held
           \/ \E o \in Orders : FillLot(o)
           \/ \E s \in Slots : ManualTrade(s)
<1>1. ASSUME NEW w \in Workers, WorkerNext(w)
      PROVE  UNCHANGED held
  BY <1>1
  DEF WorkerNext, StartCall, ContinueCall, Execute, Reconcile, Observe, Cancel, Reserve, Submit,
      Await, Fail, Lookup, MarkUnknown, Mark, Book, Finish, SendCancel, MarkCanceled,
      LedgerOnly, LocalOnly
<1>2. CASE ObserverTakes \/ PositionMoves
  BY <1>2, TakesQuietly, MovesQuietly
<1> QED
  BY <1>1, <1>2
  DEF CoreNext, ExecutionNext, executionVars, ExchangeNext, Arrive, Expire, ExchangeOnly, Restart,
      LocalOnly

\* The account never owes: a reducing order fills at most what a leg holds,
\* and so does the operator.
LEMMA CoreAccount ==
    ASSUME ExecutionInv, CoreNext, NEW s \in Slots, Account(s) >= 0
    PROVE  Account(s)' >= 0
<1>1. held \in [Slots -> [traded : Int, manual : Int]]
  BY DEF ExecutionInv, ExecutionTypeOK
<1>2. CASE UNCHANGED held
  BY <1>2 DEF Account, Leg
<1>3. ASSUME NEW o \in Orders, FillLot(o)
      PROVE  Account(s)' >= 0
  BY <1>1, <1>3, RequestParts DEF FillLot, Account, Leg
<1>4. ASSUME NEW t \in Slots, ManualTrade(t)
      PROVE  Account(s)' >= 0
  <2>1. PICK q \in Int : Leg(t) + q >= 0 /\ held' = [held EXCEPT ![t].manual = q]
    BY <1>4, OrderSetsAssumption DEF ManualTrade
  <2> QED
    BY <1>1, <2>1 DEF Account, Leg
<1> QED
  BY <1>2, <1>3, <1>4, CoreHoldings

-----------------------------------------------------------------------------
LEMMA RestShape == PassShape(AtRest)
BY DEF PassShape, AtRest, Pass, NothingRead, Quantity

LEMMA VisitShape ==
    ASSUME NEW ob \in Observers, NEW owners \in Seq(Owners), NEW local \in Quantity,
           \A s \in Slots : local[s] >= 0
    PROVE  PassShape(Visit(ob, owners, local))
<1>1. CASE owners = <<>>
  BY <1>1, RestShape DEF Visit
<1>2. CASE owners # <<>>
  <2> DEFINE listed == Listed(ob, Head(owners))
             new == [phase |-> "orders", left |-> owners, listed |-> listed, todo |-> listed,
                     legs |-> {}, account |-> NothingRead, local |-> local]
  <2>1. Visit(ob, owners, local) = new
    BY <1>2 DEF Visit, AtRest
  <2>2. listed \subseteq Orders
    BY DEF Listed, ActiveOrders
  <2>3. NothingRead \in Quantity /\ \A s \in Slots : NothingRead[s] >= 0
    BY DEF NothingRead, Quantity
  <2> HIDE DEF listed
  <2>4. PassShape(new)
    BY <1>2, <2>2, <2>3 DEF PassShape, Pass
  <2> QED
    BY <2>1, <2>4
<1> QED
  BY <1>1, <1>2

\* What an observer keeps beyond the comparison of an owner's legs.
LEMMA ComparedShape ==
    ASSUME NEW ob \in Observers, PassShape(pass[ob]), ~Phase(ob, "idle"),
           NEW phase \in {"remaining", "orphans"}
    PROVE  PassShape(Compared(ob, phase))
<1> DEFINE p == pass[ob]
<1>1. /\ AtRest \in Pass /\ AtRest.todo = {}
      /\ \A s \in Slots : AtRest.account[s] >= 0 /\ AtRest.local[s] >= 0
  <2>1. AtRest.todo = {}
    BY DEF AtRest
  <2> QED
    BY <2>1, RestShape DEF PassShape
<1>2. /\ p.left \in Seq(Owners) /\ p.local \in Quantity /\ p.left # <<>>
      /\ \A s \in Slots : p.local[s] >= 0
  BY DEF PassShape, Pass, Phase
<1>3. CASE ob \in Sweeps
  <2>1. Compared(ob, phase) = [AtRest EXCEPT !.phase = phase, !.left = p.left]
    BY <1>3 DEF Compared
  <2> HIDE DEF p
  <2> QED
    BY <1>1, <1>2, <2>1 DEF PassShape, Pass
<1>4. CASE ob \notin Sweeps
  <2>1. Compared(ob, phase) = Visit(ob, Tail(p.left), p.local)
    BY <1>4 DEF Compared
  <2>2. Tail(p.left) \in Seq(Owners)
    BY <1>2
  <2> HIDE DEF p
  <2> QED
    BY <1>2, <2>1, <2>2, VisitShape
<1> QED
  BY <1>3, <1>4

\* The pass with which the comparison of a leg begins.
LEMMA ComparingShape ==
    ASSUME NEW p, PassShape(p), p.phase # "idle", p.legs # {}
    PROVE  PassShape(Comparing(p))
<1>1. PICK phase \in {"opens", "compare"} : Comparing(p) = [p EXCEPT !.phase = phase]
  BY DEF Comparing
<1> QED
  BY <1>1 DEF PassShape, Pass

\* The pass a comparison, or the unresolved-open check, leaves.
LEMMA NextLegShape ==
    ASSUME PassInv, NEW ob \in Observers, Phase(ob, "opens") \/ Phase(ob, "compare")
    PROVE  PassShape(NextLeg(ob))
<1> DEFINE rest == pass[ob].legs \ {CurrentLeg(ob)}
           next == [pass[ob] EXCEPT !.legs = rest]
<1>1. PassShape(pass[ob])
  BY PassParts
<1>2. CASE rest = {}
  BY <1>1, <1>2, ComparedShape DEF NextLeg, Phase
<1>3. CASE rest # {}
  <2>1. NextLeg(ob) = Comparing(next)
    BY <1>3 DEF NextLeg
  <2>2. PassShape(next) /\ next.phase # "idle" /\ next.legs # {}
    BY <1>1, <1>3 DEF PassShape, Pass, Phase
  <2> QED
    BY <2>1, <2>2, ComparingShape
<1> QED
  BY <1>2, <1>3

\* What an observer's step leaves of its own variables.
LEMMA ObserverStep ==
    ASSUME PassInv, \A s \in Slots : Account(s) \in Int, NEW ob \in Observers, PassNext(ob)
    PROVE  \E next : PassShape(next) /\ Proceed(ob, next) /\ UNCHANGED restarts
<1> DEFINE p == pass[ob]
<1>1. PassShape(p) /\ p \in Pass
  BY PassParts DEF PassShape
<1>2. Accounts \in Quantity /\ \A s \in Slots : Accounts[s] >= 0
  BY DEF Accounts, Quantity, PassInv
<1>3. NothingRead \in Quantity /\ \A s \in Slots : NothingRead[s] >= 0
  BY DEF NothingRead, Quantity
<1>4. CASE StartPass(ob)
  <2> DEFINE local == IF ob \in Sweeps THEN NothingRead ELSE Accounts
  <2>1. Proceed(ob, Visit(ob, Rounds[ob], local)) /\ UNCHANGED restarts
    BY <1>4 DEF StartPass, PassOnly
  <2>2. local \in Quantity /\ \A s \in Slots : local[s] >= 0
    BY <1>2, <1>3
  <2> HIDE DEF local
  <2>3. PassShape(Visit(ob, Rounds[ob], local))
    BY <2>2, VisitShape
  <2> QED
    BY <2>1, <2>3
<1>5. ASSUME NEW o \in Orders, ReconcileOrder(ob, o) \/ CancelOrphan(ob, o)
      PROVE  \E next : PassShape(next) /\ Proceed(ob, next) /\ UNCHANGED restarts
  <2>1. Proceed(ob, [p EXCEPT !.todo = @ \ {o}]) /\ UNCHANGED restarts
    BY <1>5 DEF ReconcileOrder, CancelOrphan
  <2>2. PassShape([p EXCEPT !.todo = @ \ {o}])
    BY <1>1 DEF PassShape, Pass
  <2> QED
    BY <2>1, <2>2
<1>6. CASE ReadManaged(ob)
  <2> DEFINE legs == ActiveLegs(Owner(ob))
             read == [p EXCEPT !.legs = legs]
  <2>1. Phase(ob, "orders") /\ legs \subseteq Slots /\ UNCHANGED restarts
    BY <1>6 DEF ReadManaged, ActiveLegs, PassOnly
  <2>2. \/ Proceed(ob, Compared(ob, "orphans"))
        \/ Proceed(ob, AtRest)
        \/ legs # {} /\ Proceed(ob, [read EXCEPT !.phase = "account"])
        \/ legs # {} /\ Proceed(ob, Comparing([read EXCEPT !.account = p.local]))
    BY <1>6 DEF ReadManaged
  <2>3. PassShape(Compared(ob, "orphans"))
    BY <1>1, <2>1, ComparedShape DEF Phase
  <2> HIDE DEF legs
  <2>4. legs # {} => PassShape([read EXCEPT !.phase = "account"])
    BY <1>1, <2>1 DEF PassShape, Pass, Phase
  <2>5. legs # {} => PassShape(Comparing([read EXCEPT !.account = p.local]))
    <3> DEFINE begun == [read EXCEPT !.account = p.local]
    <3>1. PassShape(begun) /\ begun.phase # "idle" /\ begun.legs = legs
      BY <1>1, <2>1 DEF PassShape, Pass, Phase
    <3>2. legs # {} => PassShape(Comparing(begun))
      BY <3>1, ComparingShape
    <3> QED
      BY <3>2
  <2> QED
    BY <2>1, <2>2, <2>3, <2>4, <2>5, RestShape
<1>7. CASE ReadAccount(ob)
  <2> DEFINE begun == [p EXCEPT !.account = Accounts]
  <2>1. Phase(ob, "account") /\ UNCHANGED restarts /\ Proceed(ob, Comparing(begun))
    BY <1>7 DEF ReadAccount, PassOnly
  <2>2. PassShape(begun) /\ begun.phase # "idle" /\ begun.legs # {}
    BY <1>1, <1>2, <2>1 DEF PassShape, Pass, Phase
  <2> HIDE DEF begun
  <2> QED
    BY <2>1, <2>2, ComparingShape
<1>8. CASE ReadFails(ob)
  BY <1>8, RestShape DEF ReadFails, PassOnly
<1>9. CASE CheckOpens(ob)
  <2>1. /\ Phase(ob, "opens") /\ UNCHANGED restarts
        /\ Proceed(ob, NextLeg(ob)) \/ Proceed(ob, [p EXCEPT !.phase = "compare"])
    BY <1>9 DEF CheckOpens, PassOnly
  <2>2. PassShape([p EXCEPT !.phase = "compare"])
    BY <1>1, <2>1 DEF PassShape, Pass, Phase
  <2> QED
    BY <2>1, <2>2, NextLegShape
<1>10. CASE Compare(ob)
  <2>1. /\ Phase(ob, "compare") /\ UNCHANGED restarts
        /\ Proceed(ob, NextLeg(ob)) \/ Proceed(ob, AtRest)
    BY <1>10 DEF Compare
  <2> QED
    BY <2>1, NextLegShape, RestShape
<1>11. CASE ReadRemaining(ob)
  <2>1. /\ Phase(ob, "remaining") /\ UNCHANGED restarts
        /\ ActiveLegs(Owner(ob)) \subseteq Slots
        /\ Proceed(ob, [p EXCEPT !.phase = "orphans", !.legs = ActiveLegs(Owner(ob))])
    BY <1>11 DEF ReadRemaining, PassOnly, ActiveLegs
  <2>2. PassShape([p EXCEPT !.phase = "orphans", !.legs = ActiveLegs(Owner(ob))])
    BY <1>1, <2>1 DEF PassShape, Pass, Phase
  <2> QED
    BY <2>1, <2>2
<1>12. CASE ListOrphans(ob)
  <2>1. /\ Phase(ob, "orphans") /\ UNCHANGED restarts
        /\ Proceed(ob, [p EXCEPT !.phase = "cancel", !.todo = Orphans(ob), !.legs = {}])
    BY <1>12 DEF ListOrphans, PassOnly
  <2>2. \A o \in Orphans(ob) : o \in Orders /\ ~IsOpen(o)
    BY DEF Orphans, ActiveOrders
  <2>3. PassShape([p EXCEPT !.phase = "cancel", !.todo = Orphans(ob), !.legs = {}])
    BY <1>1, <2>1, <2>2 DEF PassShape, Pass, Phase
  <2> QED
    BY <2>1, <2>3
<1>13. CASE NextOwner(ob)
  <2>1. /\ p.left \in Seq(Owners) /\ p.left # <<>> /\ p.local \in Quantity
        /\ Proceed(ob, Visit(ob, Tail(p.left), p.local)) /\ UNCHANGED restarts
        /\ \A s \in Slots : p.local[s] >= 0
    BY <1>1, <1>13 DEF NextOwner, PassOnly, PassShape, Pass, Phase
  <2>2. Tail(p.left) \in Seq(Owners)
    BY <2>1
  <2>3. PassShape(Visit(ob, Tail(p.left), p.local))
    BY <2>1, <2>2, VisitShape
  <2> QED
    BY <2>1, <2>3
<1> QED
  BY <1>4, <1>5, <1>6, <1>7, <1>8, <1>9, <1>10, <1>11, <1>12, <1>13 DEF PassNext

LEMMA PassStep ==
    ASSUME PassInv, \A s \in Slots : Account(s) \in Int, [ReconcileNext]_reconcileVars
    PROVE  /\ pass' \in [Observers -> Pass]
           /\ \A ob \in Observers : PassShape(pass'[ob])
           /\ restarts' \in 0 .. MaxRestarts
<1>1. CASE UNCHANGED <<pass, restarts>>
  BY <1>1 DEF PassInv
<1>2. ASSUME NEW ob \in Observers, PassNext(ob)
      PROVE  /\ pass' \in [Observers -> Pass]
             /\ \A other \in Observers : PassShape(pass'[other])
             /\ restarts' \in 0 .. MaxRestarts
  <2>1. PICK next : PassShape(next) /\ Proceed(ob, next) /\ UNCHANGED restarts
    BY <1>2, ObserverStep
  <2>2. next \in Pass
    BY <2>1 DEF PassShape
  <2>3. pass' = [pass EXCEPT ![ob] = next]
    BY <2>1 DEF Proceed
  <2> QED
    BY <2>1, <2>2, <2>3 DEF PassInv
<1>3. CASE RestartNext
  <2>1. AtRest \in Pass
    BY RestShape DEF PassShape
  <2> QED
    BY <1>3, <2>1, RestShape DEF RestartNext, PassInv
<1> QED
  BY <1>1, <1>2, <1>3
  DEF ReconcileNext, reconcileVars, StartNext, CallNext, WorldNext, TimeNext

-----------------------------------------------------------------------------
LEMMA ReconcileStep ==
    ASSUME ReconcileInv, [ReconcileNext]_reconcileVars
    PROVE  ReconcileInv'
<1>1. FinalInv(Revocable) /\ ExposureInv /\ PassInv /\ ExecutionInv
  BY DEF ReconcileInv, FinalInv
<1>2. CoreNext
  BY <1>1, StepKinds
<1>3. FinalInv(Revocable)' /\ ExposureInv'
  BY <1>1, <1>2, CoreFinal, CoreExposure
<1>4. \A s \in Slots : Account(s)' >= 0
  BY <1>1, <1>2, CoreAccount DEF PassInv
<1>5. \A s \in Slots : Account(s) \in Int
  BY <1>1 DEF ExecutionInv, ExecutionTypeOK, Account, Leg
<1>6. /\ pass' \in [Observers -> Pass]
      /\ \A ob \in Observers : PassShape(pass'[ob])
      /\ restarts' \in 0 .. MaxRestarts
  BY <1>1, <1>5, PassStep
<1>7. PassInv'
  BY <1>4, <1>6 DEF PassInv, PassShape, IsOpen
<1> QED
  BY <1>3, <1>7 DEF ReconcileInv

LEMMA ReconcileStart ==
    ASSUME ReconcileInit
    PROVE  ReconcileInv
<1>1. FinalInv(Revocable)
  BY FinalStart DEF ReconcileInit
<1>2. ExposureInv
  BY DEF ReconcileInit, ExecutionInit, OwnershipInit, ExposureInv, CanTrade, Submitting, At, Idle,
         NoOrder, Unknown, Working
<1>3. PassInv
  <2>1. AtRest \in Pass
    BY RestShape DEF PassShape
  <2> QED
    BY <2>1, RestShape DEF ReconcileInit, ExecutionInit, PassInv, Account, Leg
<1> QED
  BY <1>1, <1>2, <1>3 DEF ReconcileInv

\* What the executor relies on, what the observers rely on and the exposure of
\* each leg hold together, for any owners, legs, orders, traders and observers.
THEOREM ReconcileInvariant == ReconcileSpec => []ReconcileInv
<1>1. ReconcileInit => ReconcileInv
  BY ReconcileStart
<1>2. ReconcileInv /\ [ReconcileNext]_reconcileVars => ReconcileInv'
  BY ReconcileStep
<1> QED
  BY <1>1, <1>2, PTL DEF ReconcileSpec

\* The observers and the traders keep their types.
THEOREM ReconcileTypes == ReconcileSpec => []ReconcileTypeOK
<1>1. ReconcileInv => ReconcileTypeOK
  BY DEF ReconcileInv, FinalInv, ExecutionInv, PassInv, PassShape, ReconcileTypeOK
<1> QED
  BY <1>1, ReconcileInvariant, PTL

\* Beside the traders the observers do to the two tables nothing but the ledger's
\* operations.  (Quantities bounds what TLC enumerates; an account may show any
\* quantity.)
THEOREM ReconcileRefinesLedger ==
    ASSUME Quantities = Nat
    PROVE  ReconcileSpec => ImplementsLedger
<1>1. ReconcileInit => OwnershipInit
  BY DEF ReconcileInit, ExecutionInit
<1>2. ReconcileInv /\ [ReconcileNext]_reconcileVars => [OwnershipNext]_ownershipVars
  <2> SUFFICES ASSUME ReconcileInv, [ReconcileNext]_reconcileVars
               PROVE  [OwnershipNext]_ownershipVars
    OBVIOUS
  <2>1. ExecutionInv /\ CoreNext
    BY StepKinds DEF ReconcileInv, FinalInv
  <2>2. CASE [ExecutionNext]_executionVars
    BY <2>1, <2>2, StepImplementsLedger
  <2>3. CASE ObserverTakes
    BY <2>1, <2>3, TakesQuietly DEF ownershipVars
  <2>4. CASE PositionMoves
    <3>1. PICK s \in Slots, ow \in Owners :
              Age(s, ow) \/ \E q \in Nat : ReconcileObservedPosition(s, ow, q)
      BY <2>4 DEF PositionMoves
    <3>2. PositionNext(s, ow)
      BY <3>1 DEF PositionNext
    <3> QED
      BY <3>2 DEF OwnershipNext
  <2> QED
    BY <2>1, <2>2, <2>3, <2>4 DEF CoreNext
<1> QED
  BY <1>1, <1>2, ReconcileInvariant, PTL DEF ReconcileSpec, OwnershipSpec, ImplementsLedger

\* The observers take nothing from what the executor promises: a leg has one owner
\* and one exposure, an id is submitted once, and a final row has ended.
THEOREM LoopKeepsPromises ==
    ReconcileSpec => [](SlotExclusive /\ OneExposure /\ AtMostOneSubmission /\ FinalMeansEnded)
<1>1. ReconcileInv => SlotExclusive
  BY DEF ReconcileInv, FinalInv, ExecutionInv, LedgerInv
<1>2. ReconcileInv => OneExposure
  BY DEF ReconcileInv, ExposureInv, OneExposure, CanTrade
<1>3. ReconcileInv => AtMostOneSubmission
  BY DEF ReconcileInv, FinalInv, SubmissionInv
<1>4. ReconcileInv => FinalMeansEnded
  BY DEF ReconcileInv, FinalInv, RowInv, Settled, FinalMeansEnded
<1> QED
  BY <1>1, <1>2, <1>3, <1>4, ReconcileInvariant, PTL

\* Every lot of an order that nobody cancels is booked when its row is final;
\* the sweeps cancel reducing orders, whose last lots may be lost.
FinalOpensBooked ==
    \A o \in Orders \ Revocable :
        orders[o].status \in DoneStatuses => orders[o].filled = exchange[o].filled

\* So an opening order that no caller cancels never loses a lot to the ledger,
\* with any number of observers running beside its trader.
THEOREM OpensAreBooked == ReconcileSpec => []FinalOpensBooked
<1>1. ReconcileInv => FinalOpensBooked
  BY DEF ReconcileInv, FinalInv, RowInv, Settled, FinalOpensBooked
<1> QED
  BY <1>1, ReconcileInvariant, PTL
=============================================================================
