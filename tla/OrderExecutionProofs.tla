------------------------ MODULE OrderExecutionProofs ------------------------
(***************************************************************************)
(* Theorems about the order executor for any number of goroutines, orders, *)
(* owners and legs: it implements the ledger, so a leg keeps one owner,    *)
(* and it submits each client order id at most once.                       *)
(***************************************************************************)
EXTENDS OrderExecution, FuturesOwnershipProofs

\* The rows and answers of the exchange never exceed the order's quantity,
\* and an order that is still worked lacks something.
SaneRow(o, row) ==
    /\ row \in ExchangeRow
    /\ row.filled <= Request[o].qty
    /\ row.state \in Working => row.filled < Request[o].qty
    /\ row.state \in {"absent", "transit", "REJECTED"} => row.filled = 0

ExchangeSane ==
    /\ \A o \in Orders : SaneRow(o, exchange[o])
    /\ \A w \in Workers :
          worker[w] # Idle =>
              /\ worker[w].answer.filled \in Nat
              /\ worker[w].answer.filled <= Request[worker[w].order].qty

ExecutionInv == ExecutionTypeOK /\ LedgerInv /\ ExchangeSane

\* A goroutine that is not idle has a task.
LEMMA BusyWorker ==
    ASSUME ExecutionTypeOK, NEW w \in Workers, NEW step, At(w, step), step # "idle"
    PROVE  /\ worker[w] \in Task
           /\ worker[w] # Idle
           /\ worker[w].order \in Orders
BY DEF ExecutionTypeOK, At, Idle, Task

\* Every answer the exchange gives of an order is sane.
LEMMA SnapshotsAreSane ==
    ASSUME NEW o \in Orders, SaneRow(o, exchange[o]), NEW row \in Snapshots(o)
    PROVE  /\ row \in ExchangeRow
           /\ row.filled <= Request[o].qty
<1>1. exchange[o] \in ExchangeRow /\ exchange[o].filled \in Nat /\ Request[o].qty \in Nat
  BY RequestParts DEF SaneRow, ExchangeRow
<1>2. CASE row = exchange[o]
  BY <1>1, <1>2 DEF SaneRow
<1>3. ASSUME NEW q \in {n \in 0 .. exchange[o].filled : n < Request[o].qty},
             row = [state |-> IF q = 0 THEN "NEW" ELSE "PARTIALLY_FILLED", filled |-> q]
      PROVE  /\ row \in ExchangeRow
             /\ row.filled <= Request[o].qty
  BY <1>1, <1>3 DEF ExchangeRow, ExchangeState, Working
<1> QED
  BY <1>2, <1>3 DEF Snapshots

LEMMA ReceiptsAreSane ==
    ASSUME NEW o \in Orders, SaneRow(o, exchange[o]), NEW row \in Receipts(o)
    PROVE  /\ row \in ExchangeRow
           /\ row.filled <= Request[o].qty
<1>1. CASE row \in Snapshots(o)
  BY <1>1, SnapshotsAreSane
<1>2. ASSUME NEW r \in Snapshots(o), row = [r EXCEPT !.filled = 0]
      PROVE  /\ row \in ExchangeRow
             /\ row.filled <= Request[o].qty
  BY <1>2, SnapshotsAreSane, RequestParts DEF ExchangeRow
<1> QED
  BY <1>1, <1>2 DEF Receipts

-----------------------------------------------------------------------------
\* A step of a goroutine, of the exchange or of a restart is a ledger
\* operation or leaves the ledger alone.
LEMMA WorkerImplementsLedger ==
    ASSUME ExecutionInv, NEW w \in Workers, WorkerNext(w)
    PROVE  [OwnershipNext]_ownershipVars
<1> DEFINE o == worker[w].order
<1>1. ASSUME NEW p \in Orders, OrderNext(p)
      PROVE  OwnershipNext
  BY <1>1 DEF OwnershipNext
<1>2. ASSUME NEW p \in Orders,
             Execute(w, p) \/ Reconcile(w, p) \/ Observe(w, p) \/ Cancel(w, p)
      PROVE  [OwnershipNext]_ownershipVars
  BY <1>1, <1>2
  DEF Execute, Reconcile, Observe, Cancel, LocalOnly, OrderNext, ledgerVars, ownershipVars
<1>3. CASE Submit(w) \/ Await(w) \/ Lookup(w) \/ SendCancel(w)
  BY <1>3 DEF Submit, Await, Lookup, SendCancel, LocalOnly, ledgerVars, ownershipVars
<1>4. CASE Reserve(w)
  <2>1. o \in Orders
    BY <1>4, BusyWorker DEF Reserve, ExecutionInv
  <2> QED
    BY <1>1, <1>4, <2>1 DEF Reserve, OrderNext
<1>5. ASSUME NEW step, step # "idle", At(w, step),
             NEW status \in LiveStatuses \cup DoneStatuses,
             SetOrderStatus(o, status)
      PROVE  OwnershipNext
  <2>1. o \in Orders
    BY <1>5, BusyWorker DEF ExecutionInv
  <2> QED
    BY <1>1, <1>5, <2>1 DEF OrderNext
<1>6. CASE Fail(w) \/ MarkUnknown(w) \/ MarkCanceled(w)
  BY <1>5, <1>6 DEF Fail, MarkUnknown, MarkCanceled, LiveStatuses, DoneStatuses
<1>7. CASE Mark(w)
  <2>1. o \in Orders
    BY <1>7, BusyWorker DEF Mark, ExecutionInv
  <2> QED
    BY <1>1, <1>7, <2>1 DEF Mark, OrderNext
<1>8. CASE Book(w)
  <2>1. o \in Orders /\ worker[w] # Idle
    BY <1>8, BusyWorker DEF Book, ExecutionInv
  <2>2. worker[w].answer.filled \in 0 .. Request[o].qty
    BY <2>1, RequestParts DEF ExecutionInv, ExchangeSane
  <2>3. worker[w].answer.filled \in Quantities
    BY <2>1, <2>2, FillsAssumption
  <2> QED
    BY <1>1, <1>8, <2>1, <2>3 DEF Book, OrderNext
<1>9. CASE Finish(w)
  <2>1. FinalStatus(worker[w].answer) \in LiveStatuses \cup DoneStatuses
    BY DEF FinalStatus, LiveStatuses, DoneStatuses
  <2> QED
    BY <1>5, <1>9, <2>1 DEF Finish
<1> QED
  BY <1>2, <1>3, <1>4, <1>6, <1>7, <1>8, <1>9 DEF WorkerNext, StartCall, ContinueCall

LEMMA StepImplementsLedger ==
    ASSUME ExecutionInv, [ExecutionNext]_executionVars
    PROVE  [OwnershipNext]_ownershipVars
<1>1. CASE UNCHANGED executionVars
  BY <1>1 DEF executionVars, ownershipVars
<1>2. CASE ExchangeNext
  BY <1>2
  DEF ExchangeNext, Arrive, FillLot, Expire, ExchangeOnly, ManualTrade, ledgerVars, ownershipVars
<1>3. CASE Restart
  BY <1>3 DEF Restart, LocalOnly, ledgerVars, ownershipVars
<1> QED
  BY <1>1, <1>2, <1>3, WorkerImplementsLedger DEF ExecutionNext

-----------------------------------------------------------------------------
\* A goroutine that takes up a task, or goes on with its own, keeps the types.
SoundTask(task) ==
    \/ task = Idle
    \/ /\ task \in Task
       /\ task.answer.filled <= Request[task.order].qty

LEMMA BecomeKeepsTasks ==
    ASSUME ExecutionInv, NEW w \in Workers, NEW task, SoundTask(task), Become(w, task)
    PROVE  /\ worker' \in [Workers -> Task \cup {Idle}]
           /\ \A v \in Workers :
                 worker'[v] # Idle =>
                     /\ worker'[v].answer.filled \in Nat
                     /\ worker'[v].answer.filled <= Request[worker'[v].order].qty
<1>1. task \in Task \cup {Idle}
  BY DEF SoundTask
<1>2. worker' \in [Workers -> Task \cup {Idle}]
  BY <1>1 DEF ExecutionInv, ExecutionTypeOK, Become
<1>3. \A v \in Workers : worker'[v] = IF v = w THEN task ELSE worker[v]
  BY DEF ExecutionInv, ExecutionTypeOK, Become
<1>4. task # Idle => task.answer.filled \in Nat
  BY DEF SoundTask, Task, ExchangeRow
<1> QED
  BY <1>2, <1>3, <1>4 DEF ExecutionInv, ExchangeSane, SoundTask

LEMMA NewTaskIsSound ==
    ASSUME NEW o \in Orders, NEW step \in Steps,
           NEW purpose \in {"submit", "confirm", "reconcile"}
    PROVE  SoundTask(NewTask(step, o, purpose))
BY RequestParts DEF SoundTask, NewTask, Task, Unknown, ExchangeRow, ExchangeState

LEMMA OldTaskIsSound ==
    ASSUME ExecutionInv, NEW w \in Workers, worker[w] # Idle, NEW step \in Steps
    PROVE  SoundTask([worker[w] EXCEPT !.step = step])
BY DEF SoundTask, Task, ExecutionInv, ExecutionTypeOK, ExchangeSane

\* What a task becomes when an answer arrives.
LEMMA AnswerIsSound ==
    ASSUME NEW o \in Orders, NEW task \in Task, task.order = o, NEW row \in ExchangeRow,
           row.filled <= Request[o].qty
    PROVE  SoundTask([task EXCEPT !.step = "mark", !.answer = row])
BY DEF SoundTask, Task, Steps

\* A row of the exchange changes at most for one order, and stays sane.
SaneExchangeStep ==
    /\ exchange' \in [Orders -> ExchangeRow]
    /\ \A o \in Orders : SaneRow(o, exchange'[o])

LEMMA ExchangeStaysSane ==
    ASSUME ExecutionInv, NEW o \in Orders, NEW row, SaneRow(o, row),
           exchange' = [exchange EXCEPT ![o] = row]
    PROVE  SaneExchangeStep
BY DEF ExecutionInv, ExecutionTypeOK, ExchangeSane, SaneExchangeStep, SaneRow

LEMMA ExchangeKept ==
    ASSUME ExecutionInv, UNCHANGED exchange
    PROVE  SaneExchangeStep
BY DEF ExecutionInv, ExecutionTypeOK, ExchangeSane, SaneExchangeStep, SaneRow

\* The parts of ExecutionInv other than the ledger's.
TasksSound ==
    /\ worker' \in [Workers -> Task \cup {Idle}]
    /\ \A w \in Workers :
          worker'[w] # Idle =>
              /\ worker'[w].answer.filled \in Nat
              /\ worker'[w].answer.filled <= Request[worker'[w].order].qty

CountersSound ==
    /\ held' \in [Slots -> [traded : Int, manual : Int]]
    /\ sent' \in [Orders -> Nat]
    /\ exchangeID' \in [Orders -> BOOLEAN]

LEMMA CountersKept ==
    ASSUME ExecutionInv, UNCHANGED <<exchangeID, held, sent>>
    PROVE  CountersSound
BY DEF ExecutionInv, ExecutionTypeOK, CountersSound

LEMMA WorkerTypes ==
    ASSUME ExecutionInv, NEW w \in Workers, WorkerNext(w)
    PROVE  TasksSound /\ CountersSound /\ SaneExchangeStep
<1> DEFINE o == worker[w].order
<1> USE DEF Steps
<1>1. ASSUME NEW task, SoundTask(task), Become(w, task)
      PROVE  TasksSound
  BY <1>1, BecomeKeepsTasks DEF TasksSound
<1>2. SoundTask(Idle)
  BY DEF SoundTask
<1>3. ASSUME NEW step \in Steps, worker[w] # Idle, Goto(w, step)
      PROVE  TasksSound
  BY <1>1, <1>3, OldTaskIsSound DEF Goto
<1>4. ASSUME Done(w)
      PROVE  TasksSound
  BY <1>1, <1>2, <1>4 DEF Done
<1>5. ASSUME NEW step, step # "idle", At(w, step)
      PROVE  /\ o \in Orders /\ worker[w] \in Task /\ worker[w] # Idle
             /\ SaneRow(o, exchange[o])
  BY <1>5, BusyWorker DEF ExecutionInv, ExchangeSane
<1>6. ASSUME NEW p \in Orders, Execute(w, p)
      PROVE  TasksSound /\ CountersSound /\ SaneExchangeStep
  <2>1. SoundTask(NewTask("reserve", p, "submit")) /\ SoundTask(NewTask("lookup", p, "reconcile"))
    BY NewTaskIsSound
  <2> QED
    BY <1>1, <1>6, <2>1, CountersKept, ExchangeKept DEF Execute, LedgerOnly
<1>7. ASSUME NEW p \in Orders, Reconcile(w, p) \/ Cancel(w, p)
      PROVE  TasksSound /\ CountersSound /\ SaneExchangeStep
  <2>1. SoundTask(NewTask("lookup", p, "reconcile")) /\ SoundTask(NewTask("cancel", p, "reconcile"))
    BY NewTaskIsSound
  <2> QED
    BY <1>1, <1>7, <2>1, CountersKept, ExchangeKept DEF Reconcile, Cancel, LocalOnly, ledgerVars
<1>8. ASSUME NEW p \in Orders, Observe(w, p)
      PROVE  TasksSound /\ CountersSound /\ SaneExchangeStep
  <2>1. NewTask("mark", p, "reconcile") \in Task /\ NewTask("mark", p, "reconcile").order = p
    BY DEF NewTask, Task, Unknown, ExchangeRow, ExchangeState
  <2>2. ASSUME NEW row \in Snapshots(p)
        PROVE  SoundTask([NewTask("mark", p, "reconcile") EXCEPT !.answer = row])
    <3>1. row \in ExchangeRow /\ row.filled <= Request[p].qty
      BY SnapshotsAreSane DEF ExecutionInv, ExchangeSane
    <3> QED
      BY <2>1, <3>1 DEF SoundTask, Task
  <2>3. TasksSound
    BY <1>1, <1>8, <2>2 DEF Observe
  <2> QED
    BY <1>8, <2>3, CountersKept, ExchangeKept DEF Observe, LocalOnly, ledgerVars
<1>9. CASE Reserve(w)
  <2>1. SoundTask(NewTask("lookup", o, "reconcile"))
    BY <1>5, <1>9, NewTaskIsSound DEF Reserve
  <2> QED
    BY <1>1, <1>3, <1>5, <1>9, <2>1, CountersKept, ExchangeKept DEF Reserve, LedgerOnly
<1>10. CASE Submit(w)
  <2>1. o \in Orders /\ worker[w] # Idle /\ SaneRow(o, exchange[o])
    BY <1>5, <1>10 DEF Submit
  <2>2. TasksSound
    BY <1>3, <1>10, <2>1 DEF Submit
  <2>3. CountersSound
    BY <1>10, <2>1 DEF Submit, ledgerVars, CountersSound, ExecutionInv, ExecutionTypeOK
  <2>4. SaneExchangeStep
    <3> DEFINE row == [exchange[o] EXCEPT !.state = IF @ = "absent" THEN "transit" ELSE @]
    <3>1. SaneRow(o, row)
      BY <2>1 DEF SaneRow, ExchangeRow, ExchangeState, Working
    <3>2. UNCHANGED exchange \/ exchange' = [exchange EXCEPT ![o] = row]
      BY <1>10 DEF Submit
    <3> QED
      BY <2>1, <3>1, <3>2, ExchangeStaysSane, ExchangeKept
  <2> QED
    BY <2>2, <2>3, <2>4
<1>11. CASE Await(w)
  <2>1. o \in Orders /\ worker[w] \in Task /\ worker[w] # Idle /\ SaneRow(o, exchange[o])
    BY <1>5, <1>11 DEF Await
  <2>2. SoundTask(NewTask("lookup", o, "reconcile"))
    BY <2>1, NewTaskIsSound
  <2>3. \A row \in Receipts(o) : SoundTask([worker[w] EXCEPT !.step = "mark", !.answer = row])
    BY <2>1, ReceiptsAreSane, AnswerIsSound
  <2>4. TasksSound
    BY <1>1, <1>3, <1>11, <2>1, <2>2, <2>3 DEF Await
  <2> QED
    BY <1>11, <2>4, CountersKept, ExchangeKept DEF Await, LocalOnly, ledgerVars
<1>12. CASE Lookup(w)
  <2>1. o \in Orders /\ worker[w] \in Task /\ worker[w] # Idle /\ SaneRow(o, exchange[o])
    BY <1>5, <1>12 DEF Lookup
  <2>2. SoundTask([worker[w] EXCEPT !.step = "mark", !.answer = exchange[o]])
    BY <2>1, AnswerIsSound DEF SaneRow
  <2>3. TasksSound
    BY <1>1, <1>3, <1>12, <2>1, <2>2 DEF Lookup
  <2> QED
    BY <1>12, <2>3, CountersKept, ExchangeKept DEF Lookup, LocalOnly, ledgerVars
<1>13. CASE Fail(w) \/ MarkUnknown(w) \/ MarkCanceled(w)
  BY <1>4, <1>13, CountersKept, ExchangeKept DEF Fail, MarkUnknown, MarkCanceled, LedgerOnly
<1>14. CASE Mark(w)
  <2>1. o \in Orders /\ worker[w] # Idle
    BY <1>5, <1>14 DEF Mark
  <2>2. TasksSound
    BY <1>3, <1>14, <2>1 DEF Mark
  <2>3. CountersSound
    BY <1>14, <2>1 DEF Mark, CountersSound, ExecutionInv, ExecutionTypeOK
  <2> QED
    BY <1>14, <2>2, <2>3, ExchangeKept DEF Mark
<1>15. CASE Book(w)
  BY <1>3, <1>4, <1>5, <1>15, CountersKept, ExchangeKept DEF Book, LedgerOnly
<1>16. CASE Finish(w)
  <2>1. o \in Orders /\ worker[w] # Idle
    BY <1>5, <1>16 DEF Finish
  <2>2. SoundTask(NewTask("lookup", o, "confirm"))
    BY <2>1, NewTaskIsSound
  <2>3. TasksSound
    BY <1>1, <1>3, <1>4, <1>16, <2>1, <2>2 DEF Finish
  <2> QED
    BY <1>16, <2>3, CountersKept, ExchangeKept DEF Finish, LedgerOnly
<1>17. CASE SendCancel(w)
  <2>1. o \in Orders /\ worker[w] # Idle /\ SaneRow(o, exchange[o])
    BY <1>5, <1>17 DEF SendCancel
  <2>2. TasksSound
    BY <1>3, <1>4, <1>17, <2>1 DEF SendCancel
  <2>3. SaneRow(o, [exchange[o] EXCEPT !.state = "CANCELED"])
    BY <2>1 DEF SaneRow, ExchangeRow, ExchangeState, Working, Ended
  <2>4. UNCHANGED exchange \/ exchange' = [exchange EXCEPT ![o] = [exchange[o] EXCEPT !.state = "CANCELED"]]
    BY <1>17 DEF SendCancel
  <2>5. SaneExchangeStep
    BY <2>1, <2>3, <2>4, ExchangeStaysSane, ExchangeKept
  <2> QED
    BY <1>17, <2>2, <2>5, CountersKept DEF SendCancel, ledgerVars
<1> QED
  BY <1>6, <1>7, <1>8, <1>9, <1>10, <1>11, <1>12, <1>13, <1>14, <1>15, <1>16, <1>17
  DEF WorkerNext, StartCall, ContinueCall

LEMMA TasksKept ==
    ASSUME ExecutionInv, UNCHANGED worker
    PROVE  TasksSound
BY DEF ExecutionInv, ExecutionTypeOK, ExchangeSane, TasksSound

LEMMA ExchangeTypes ==
    ASSUME ExecutionInv, NEW o \in Orders, Arrive(o) \/ FillLot(o) \/ Expire(o)
    PROVE  TasksSound /\ CountersSound /\ SaneExchangeStep
<1> USE DEF SaneRow, ExchangeRow, ExchangeState, Working, Ended
<1>1. SaneRow(o, exchange[o]) /\ Request[o].qty \in Nat /\ Request[o].qty > 0
  BY RequestParts DEF ExecutionInv, ExchangeSane
<1>2. TasksSound
  BY TasksKept DEF Arrive, FillLot, Expire, ExchangeOnly
<1> USE DEF ledgerVars
<1>3. CASE Arrive(o)
  <2>1. PICK state \in {"NEW", "REJECTED", "absent"} :
            exchange' = [exchange EXCEPT ![o] = [exchange[o] EXCEPT !.state = state]]
    BY <1>3 DEF Arrive
  <2>2. exchange[o].filled = 0
    BY <1>1, <1>3 DEF Arrive
  <2>3. SaneRow(o, [exchange[o] EXCEPT !.state = state])
    BY <1>1, <2>2
  <2>4. CountersSound
    BY <1>3, CountersKept DEF Arrive, ExchangeOnly
  <2> QED
    BY <1>2, <2>1, <2>3, <2>4, ExchangeStaysSane
<1>4. CASE FillLot(o)
  <2> DEFINE q == exchange[o].filled + 1
             row == [state |-> IF q = Request[o].qty THEN "FILLED" ELSE "PARTIALLY_FILLED",
                     filled |-> q]
  <2>1. SaneRow(o, row)
    BY <1>1, <1>4 DEF FillLot
  <2>2. exchange' = [exchange EXCEPT ![o] = row]
    BY <1>4 DEF FillLot
  <2>3. CountersSound
    BY <1>4, RequestParts DEF FillLot, CountersSound, ExecutionInv, ExecutionTypeOK
  <2> QED
    BY <1>2, <2>1, <2>2, <2>3, ExchangeStaysSane
<1>5. CASE Expire(o)
  <2>1. SaneRow(o, [exchange[o] EXCEPT !.state = "CANCELED"])
    BY <1>1, <1>5 DEF Expire
  <2>2. exchange' = [exchange EXCEPT ![o] = [exchange[o] EXCEPT !.state = "CANCELED"]]
    BY <1>5 DEF Expire
  <2>3. CountersSound
    BY <1>5, CountersKept DEF Expire, ExchangeOnly
  <2> QED
    BY <1>2, <2>1, <2>2, <2>3, ExchangeStaysSane
<1> QED
  BY <1>3, <1>4, <1>5

LEMMA ExecutionParts ==
    ASSUME LedgerInv', TasksSound, CountersSound, SaneExchangeStep
    PROVE  ExecutionInv'
BY DEF ExecutionInv, LedgerInv, ExecutionTypeOK, ExchangeSane, TasksSound, CountersSound,
       SaneExchangeStep, SaneRow

LEMMA ExecutionStep ==
    ASSUME ExecutionInv, [ExecutionNext]_executionVars
    PROVE  ExecutionInv'
<1>1. LedgerInv'
  BY StepImplementsLedger, LedgerStep DEF ExecutionInv
<1>2. TasksSound /\ CountersSound /\ SaneExchangeStep
  <2>1. CASE UNCHANGED executionVars
    BY <2>1, TasksKept, CountersKept, ExchangeKept DEF executionVars
  <2>2. CASE ExchangeNext
    <3>1. ASSUME NEW s \in Slots, ManualTrade(s)
          PROVE  TasksSound /\ CountersSound /\ SaneExchangeStep
      <4>1. PICK q \in Int : held' = [held EXCEPT ![s].manual = q]
        BY <3>1, OrderSetsAssumption DEF ManualTrade
      <4>2. CountersSound
        BY <3>1, <4>1 DEF ManualTrade, CountersSound, ExecutionInv, ExecutionTypeOK, ledgerVars
      <4> QED
        BY <3>1, <4>2, TasksKept, ExchangeKept DEF ManualTrade
    <3> QED
      BY <2>2, <3>1, ExchangeTypes DEF ExchangeNext
  <2>3. CASE Restart
    <3>1. TasksSound
      BY <2>3 DEF Restart, TasksSound
    <3> QED
      BY <2>3, <3>1, CountersKept, ExchangeKept DEF Restart, LocalOnly, ledgerVars
  <2> QED
    BY <2>1, <2>2, <2>3, WorkerTypes DEF ExecutionNext
<1> QED
  BY <1>1, <1>2, ExecutionParts

LEMMA ExecutionStart ==
    ASSUME ExecutionInit
    PROVE  ExecutionInv
<1>1. LedgerInv
  BY LedgerStart DEF ExecutionInit
<1>2. ASSUME NEW o \in Orders
      PROVE  SaneRow(o, Unknown)
  BY RequestParts DEF SaneRow, Unknown, ExchangeRow, ExchangeState, Working
<1> QED
  BY <1>1, <1>2
  DEF ExecutionInit, ExecutionInv, LedgerInv, ExecutionTypeOK, ExchangeSane, SaneRow

\* The types, the ledger's invariant and the bounds of the exchange's answers
\* hold together in every state of the executor.
THEOREM ExecutionInvariant == ExecutionSpec => []ExecutionInv
<1>1. ExecutionInit => ExecutionInv
  BY ExecutionStart
<1>2. ExecutionInv /\ [ExecutionNext]_executionVars => ExecutionInv'
  BY ExecutionStep
<1> QED
  BY <1>1, <1>2, PTL DEF ExecutionSpec

\* The executor does to the two tables nothing but the ledger's operations,
\* for any number of goroutines and orders.
THEOREM ExecutionRefinesLedger == ExecutionSpec => ImplementsLedger
<1>1. ExecutionInit => OwnershipInit
  BY DEF ExecutionInit
<1>2. ExecutionInv /\ [ExecutionNext]_executionVars => [OwnershipNext]_ownershipVars
  BY StepImplementsLedger
<1> QED
  BY <1>1, <1>2, ExecutionInvariant, PTL DEF ExecutionSpec, OwnershipSpec, ImplementsLedger

\* So a leg keeps a single owner whatever the executor's goroutines do.
THEOREM ExecutionKeepsSlotExclusive == ExecutionSpec => []SlotExclusive
BY ExecutionRefinesLedger, SlotIsExclusive DEF ImplementsLedger

-----------------------------------------------------------------------------
\* AtMostOneSubmission is not inductive: what makes it hold is that a row
\* leaves "pending" once and for all before the request is sent, and that the
\* compare-and-swap lets one goroutine through.
NotYetReserved(o) == orders[o].status \in {"none", "pending"}

SubmissionInv ==
    /\ AtMostOneSubmission
    /\ \A o \in Orders : NotYetReserved(o) => sent[o] = 0
    /\ \A w \in Workers :
          At(w, "submit") =>
              /\ sent[worker[w].order] = 0
              /\ ~NotYetReserved(worker[w].order)
              /\ \A v \in Workers :
                    At(v, "submit") /\ worker[v].order = worker[w].order => v = w

\* No step but ClaimOrder and ReserveSubmission touches a row that is not yet
\* reserved without reserving it, and none brings such a status back.
StatusForward ==
    \A o \in Orders : NotYetReserved(o)' => NotYetReserved(o)

LEMMA StatusesGoForward ==
    ASSUME ExecutionInv, [ExecutionNext]_executionVars
    PROVE  StatusForward
<1>1. ASSUME NEW o \in Orders, NEW row, SetOrder(o, row),
             row.status \in {"none", "pending"} => NotYetReserved(o)
      PROVE  StatusForward
  BY <1>1 DEF SetOrder, StatusForward, NotYetReserved, ExecutionInv, LedgerInv, TypeOK
<1>2. CASE UNCHANGED orders
  BY <1>2 DEF StatusForward, NotYetReserved
<1>3. ASSUME NEW o \in Orders, ClaimOrder(o)
      PROVE  StatusForward
  BY <1>1, <1>3 DEF ClaimOrder, ClaimAllowed, Claimed, NotYetReserved
<1>4. orders \in [Orders -> OrderRow]
  BY DEF ExecutionInv, LedgerInv, TypeOK
<1>5. ASSUME NEW o \in Orders, NEW status, status \notin {"none", "pending"},
             SetOrder(o, [orders[o] EXCEPT !.status = status])
      PROVE  StatusForward
  <2>1. [orders[o] EXCEPT !.status = status].status = status
    BY <1>4 DEF OrderRow
  <2> QED
    BY <1>1, <1>5, <2>1
<1>6. ASSUME NEW o \in Orders, NEW q, ApplyFill(o, q)
      PROVE  StatusForward
  <2> DEFINE row == [orders[o] EXCEPT !.filled = q, !.status = StatusAfterFill(o, q)]
  <2>1. row.status = StatusAfterFill(o, q)
    BY <1>4 DEF OrderRow
  <2>2. row.status \in {"none", "pending"} => NotYetReserved(o)
    BY <2>1 DEF StatusAfterFill, NotYetReserved
  <2>3. SetOrder(o, row)
    BY <1>6 DEF ApplyFill
  <2> HIDE DEF row
  <2> QED
    BY <1>1, <2>2, <2>3
<1>7. ASSUME NEW w \in Workers, WorkerNext(w), orders' # orders
      PROVE  StatusForward
  <2>1. ASSUME NEW step, step # "idle", At(w, step)
        PROVE  worker[w].order \in Orders
    BY <2>1, BusyWorker DEF ExecutionInv
  <2>2. CASE \E o \in Orders : Execute(w, o)
    BY <1>3, <1>7, <2>2 DEF Execute, ownershipVars
  <2>3. CASE Reserve(w)
    BY <1>5, <1>7, <2>1, <2>3 DEF Reserve, ReserveSubmission, ownershipVars
  <2>4. CASE Fail(w) \/ MarkUnknown(w) \/ MarkCanceled(w)
    BY <1>5, <2>1, <2>4 DEF Fail, MarkUnknown, MarkCanceled, SetOrderStatus
  <2>5. CASE Mark(w)
    BY <1>5, <2>1, <2>5 DEF Mark, MarkOrderSubmitted
  <2>6. CASE Book(w)
    BY <1>6, <1>7, <2>1, <2>6 DEF Book, ownershipVars
  <2>7. CASE Finish(w)
    <3>1. FinalStatus(worker[w].answer) \notin {"none", "pending"}
      BY DEF FinalStatus
    <3> QED
      BY <1>5, <1>7, <2>1, <2>7, <3>1 DEF Finish, SetOrderStatus, ownershipVars
  <2> QED
    BY <1>7, <2>2, <2>3, <2>4, <2>5, <2>6, <2>7
    DEF WorkerNext, StartCall, ContinueCall, Reconcile, Observe, Cancel, Submit, Await,
        Lookup, SendCancel, LocalOnly, ledgerVars
<1>8. CASE UNCHANGED executionVars \/ ExchangeNext \/ Restart
  BY <1>2, <1>8
  DEF executionVars, ExchangeNext, Arrive, FillLot, Expire, ExchangeOnly, ManualTrade, Restart,
      LocalOnly, ledgerVars
<1> QED
  BY <1>2, <1>7, <1>8 DEF ExecutionNext

\* A step that sends nothing and lets nobody through to the submission.
LEMMA QuietStep ==
    ASSUME ExecutionInv, SubmissionInv, StatusForward, UNCHANGED sent,
           \A w \in Workers : At(w, "submit")' => worker'[w] = worker[w]
    PROVE  SubmissionInv'
<1>1. \A w \in Workers : At(w, "submit") => worker[w].order \in Orders
  BY BusyWorker DEF ExecutionInv
<1> QED
  BY <1>1 DEF SubmissionInv, AtMostOneSubmission, StatusForward, NotYetReserved, At

LEMMA WorkerSubmission ==
    ASSUME ExecutionInv, SubmissionInv, StatusForward, NEW w \in Workers, WorkerNext(w)
    PROVE  SubmissionInv'
<1> DEFINE o == worker[w].order
<1>1. ASSUME NEW v \in Workers, v # w
      PROVE  worker'[v] = worker[v]
  BY <1>1
  DEF WorkerNext, StartCall, ContinueCall, Execute, Reconcile, Observe, Cancel, Reserve, Submit, Await, Fail,
      Lookup, MarkUnknown, Mark, Book, Finish, SendCancel, MarkCanceled,
      Goto, Done, Become, ExecutionInv, ExecutionTypeOK
<1>2. ASSUME NEW task, Become(w, task)
      PROVE  worker'[w] = task
  BY <1>2 DEF Become, ExecutionInv, ExecutionTypeOK
<1>3. ASSUME UNCHANGED sent, worker'[w].step # "submit"
      PROVE  SubmissionInv'
  BY <1>1, <1>3, QuietStep DEF At
<1>4. ASSUME NEW step, step # "idle", At(w, step)
      PROVE  worker[w] \in Task /\ o \in Orders
  BY <1>4, BusyWorker DEF ExecutionInv
<1>5. ASSUME worker[w] \in Task, NEW step, Goto(w, step)
      PROVE  worker'[w].step = step
  BY <1>2, <1>5 DEF Goto, Task
<1>6. ASSUME Done(w)
      PROVE  worker'[w].step # "submit"
  BY <1>2, <1>6 DEF Done, Idle
<1>7. ASSUME NEW step, NEW p, NEW purpose, Become(w, NewTask(step, p, purpose)), step # "submit"
      PROVE  worker'[w].step # "submit"
  BY <1>2, <1>7 DEF NewTask
<1>8. CASE \E p \in Orders : Execute(w, p) \/ Reconcile(w, p) \/ Cancel(w, p)
  BY <1>3, <1>7, <1>8 DEF Execute, Reconcile, Cancel, LedgerOnly, LocalOnly
<1>9. CASE \E p \in Orders : Observe(w, p)
  <2>1. PICK p \in Orders : Observe(w, p)
    BY <1>9
  <2>2. worker'[w].step # "submit"
    BY <1>2, <2>1 DEF Observe, NewTask
  <2> QED
    BY <1>3, <2>1, <2>2 DEF Observe, LocalOnly
<1>10. CASE Fail(w) \/ MarkUnknown(w) \/ MarkCanceled(w)
  BY <1>3, <1>6, <1>10 DEF Fail, MarkUnknown, MarkCanceled, LedgerOnly
<1>11. CASE Await(w)
  <2>1. worker[w] \in Task
    BY <1>4, <1>11 DEF Await
  <2>2. ASSUME NEW row, Become(w, [worker[w] EXCEPT !.step = "mark", !.answer = row])
        PROVE  worker'[w].step # "submit"
    BY <1>2, <2>1, <2>2 DEF Task
  <2>3. worker'[w].step # "submit"
    BY <1>5, <1>7, <1>11, <2>1, <2>2 DEF Await
  <2> QED
    BY <1>3, <1>11, <2>3 DEF Await, LocalOnly
<1>12. CASE Lookup(w)
  <2>1. worker[w] \in Task
    BY <1>4, <1>12 DEF Lookup
  <2>2. ASSUME NEW row, Become(w, [worker[w] EXCEPT !.step = "mark", !.answer = row])
        PROVE  worker'[w].step # "submit"
    BY <1>2, <2>1, <2>2 DEF Task
  <2>3. worker'[w].step # "submit"
    BY <1>5, <1>12, <2>1, <2>2 DEF Lookup
  <2> QED
    BY <1>3, <1>12, <2>3 DEF Lookup, LocalOnly
<1>13. CASE Mark(w) \/ Book(w) \/ Finish(w) \/ SendCancel(w)
  <2>1. worker[w] \in Task
    BY <1>4, <1>13 DEF Mark, Book, Finish, SendCancel
  <2>2. CASE Mark(w)
    BY <1>3, <1>5, <2>1, <2>2 DEF Mark
  <2>3. CASE Book(w)
    BY <1>3, <1>5, <1>6, <2>1, <2>3 DEF Book, LedgerOnly
  <2>4. CASE Finish(w)
    BY <1>3, <1>5, <1>6, <1>7, <2>1, <2>4 DEF Finish, LedgerOnly
  <2>5. CASE SendCancel(w)
    BY <1>3, <1>5, <1>6, <2>1, <2>5 DEF SendCancel
  <2> QED
    BY <1>13, <2>2, <2>3, <2>4, <2>5
<1>14. CASE Reserve(w)
  <2>1. CASE orders[o].status # "pending"
    BY <1>3, <1>7, <1>14, <2>1 DEF Reserve, ReserveSubmission, LedgerOnly
  <2>2. CASE orders[o].status = "pending"
    <3>1. o \in Orders /\ UNCHANGED sent
      BY <1>4, <1>14 DEF Reserve, LedgerOnly
    <3>2. worker'[w] = [worker[w] EXCEPT !.step = "submit"]
      BY <1>2, <1>14, <2>2 DEF Reserve, Goto
    <3>3. worker'[w].order = o
      BY <1>4, <1>14, <3>2 DEF Reserve, Task
    <3>4. ReserveSubmission(o)
      BY <1>14, <2>2 DEF Reserve
    <3>5. orders'[o].status = "submitted"
      BY <3>1, <3>4
      DEF ReserveSubmission, SetOrder, ExecutionInv, LedgerInv, TypeOK, OrderRow
    <3>6. sent[o] = 0 /\ NotYetReserved(o)
      BY <2>2, <3>1 DEF SubmissionInv, NotYetReserved
    <3>7. ASSUME NEW v \in Workers, v # w, At(v, "submit")
          PROVE  worker[v].order \in Orders /\ worker[v].order # o
      BY <3>6, <3>7, BusyWorker DEF SubmissionInv, ExecutionInv
    <3> QED
      BY <1>1, <3>1, <3>3, <3>5, <3>6, <3>7
      DEF SubmissionInv, AtMostOneSubmission, StatusForward, At, NotYetReserved
  <2> QED
    BY <2>1, <2>2
<1>15. CASE Submit(w)
  <2>1. o \in Orders /\ worker'[w].step # "submit"
    <3>1. worker[w] \in Task /\ o \in Orders
      BY <1>4, <1>15 DEF Submit
    <3> QED
      BY <1>5, <1>15, <3>1 DEF Submit
  <2>2. CASE UNCHANGED sent
    BY <1>3, <2>1, <2>2
  <2>3. CASE sent' = [sent EXCEPT ![o] = @ + 1]
    <3>1. sent[o] = 0 /\ ~NotYetReserved(o)
      BY <1>15 DEF Submit, SubmissionInv
    <3>2. /\ sent'[o] = 1
          /\ \A p \in Orders : p # o => sent'[p] = sent[p]
      BY <2>1, <2>3, <3>1 DEF ExecutionInv, ExecutionTypeOK
    <3>3. AtMostOneSubmission'
      BY <3>2 DEF AtMostOneSubmission, SubmissionInv
    <3>4. \A p \in Orders : NotYetReserved(p)' => sent'[p] = 0
      BY <3>1, <3>2 DEF SubmissionInv, StatusForward
    <3>5. ASSUME NEW v \in Workers, At(v, "submit")'
          PROVE  /\ v # w /\ worker'[v] = worker[v] /\ At(v, "submit")
                 /\ worker[v].order \in Orders /\ worker[v].order # o
      <4>1. v # w /\ worker'[v] = worker[v] /\ At(v, "submit")
        BY <1>1, <2>1, <3>5 DEF At
      <4>2. worker[v].order \in Orders
        BY <4>1, BusyWorker DEF ExecutionInv
      <4> QED
        BY <1>15, <4>1, <4>2 DEF Submit, SubmissionInv
    <3>6. \A v \in Workers : At(v, "submit")' =>
              /\ sent'[worker'[v].order] = 0
              /\ orders'[worker'[v].order].status \notin {"none", "pending"}
      BY <3>2, <3>5 DEF SubmissionInv, StatusForward, NotYetReserved
    <3>7. \A v, u \in Workers :
             At(v, "submit")' /\ At(u, "submit")' /\ worker'[u].order = worker'[v].order => u = v
      BY <3>5 DEF SubmissionInv
    <3> QED
      BY <3>3, <3>4, <3>6, <3>7 DEF SubmissionInv, NotYetReserved, At
  <2> QED
    BY <1>15, <2>2, <2>3 DEF Submit
<1> QED
  BY <1>8, <1>9, <1>10, <1>11, <1>12, <1>13, <1>14, <1>15
  DEF WorkerNext, StartCall, ContinueCall

LEMMA SubmissionStep ==
    ASSUME ExecutionInv, SubmissionInv, [ExecutionNext]_executionVars
    PROVE  SubmissionInv'
<1>1. StatusForward
  BY StatusesGoForward
<1>2. CASE UNCHANGED executionVars \/ ExchangeNext
  BY <1>1, <1>2, QuietStep 
  DEF executionVars, ExchangeNext, Arrive, FillLot, Expire, ExchangeOnly, ManualTrade
<1>3. CASE Restart
  <2>1. \A w \in Workers : ~At(w, "submit")'
    BY <1>3 DEF Restart, At, Idle
  <2> QED
    BY <1>1, <1>3, <2>1, QuietStep DEF Restart, LocalOnly
<1> QED
  BY <1>1, <1>2, <1>3, WorkerSubmission DEF ExecutionNext

\* No client order id is ever submitted twice, for any number of goroutines
\* executing and reconciling it and any restarts in between.
THEOREM SubmittedOnce == ExecutionSpec => []AtMostOneSubmission
<1>1. ExecutionInit => SubmissionInv
  BY DEF ExecutionInit, SubmissionInv, AtMostOneSubmission, At, Idle
<1>2. ExecutionInv /\ SubmissionInv /\ [ExecutionNext]_executionVars => SubmissionInv'
  BY SubmissionStep
<1>3. SubmissionInv => AtMostOneSubmission
  BY DEF SubmissionInv
<1> QED
  BY <1>1, <1>2, <1>3, ExecutionInvariant, PTL DEF ExecutionSpec
=============================================================================
