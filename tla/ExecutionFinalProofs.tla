------------------------ MODULE ExecutionFinalProofs ------------------------
(***************************************************************************)
(* What a final row of the order executor means, for any number of         *)
(* goroutines, orders, owners and legs: the order has ended on the         *)
(* exchange, and all it filled is booked; and why a leg is exposed to one  *)
(* strategy at a time.                                                     *)
(***************************************************************************)
EXTENDS OrderExecutionProofs

\* The exchange has told nothing about an order that it has not received.
Unheard == {"absent", "transit"}

Submitting(o) == \E w \in Workers : At(w, "submit") /\ worker[w].order = o

\* An answer is true of the order when it is given, and what it says of an
\* order that has ended stays true.  Only a FILLED may come without quantity.
Tells(answer, row) ==
    /\ answer.state \notin Unheard /\ row.state \notin Unheard
    /\ answer.filled <= row.filled
    /\ answer.state \in Ended => row.state = answer.state
    /\ answer.state \in Ended /\ (answer.state = "FILLED" => answer.filled > 0) =>
          answer.filled = row.filled

\* What a goroutine may rely on at the place it has reached.  C is the set of
\* orders that anybody cancels: Cancelable for the executor by itself, and the
\* reducing orders too when the reconciliation loop runs beside it.
PlaceInv(w, C) ==
    LET o == worker[w].order
        answer == worker[w].answer
    IN  /\ At(w, "submit") => exchange[o].state = "absent"
        /\ At(w, "fail") =>
              /\ exchange[o].state \in {"absent", "REJECTED"}
              /\ ~Submitting(o) /\ ~NotYetReserved(o)
        /\ At(w, "mark") \/ At(w, "book") \/ At(w, "finish") => Tells(answer, exchange[o])
        /\ At(w, "finish") => answer.filled <= orders[o].filled
        /\ At(w, "cancel") \/ At(w, "canceled") => o \in C
        /\ At(w, "canceled") => exchange[o].state = "CANCELED"

\* Nothing of the order is on its way or at work, and what it filled is booked
\* unless Cancel has finalized it.
Settled(o, C) ==
    /\ ~Submitting(o)
    /\ exchange[o].state \in Ended \cup {"absent"}
    /\ \/ o \in C /\ orders[o].status = "canceled"
       \/ orders[o].filled = exchange[o].filled

RowInv(o, C) ==
    /\ NotYetReserved(o) => exchange[o].state = "absent"
    /\ orders[o].filled <= exchange[o].filled
    /\ orders[o].status \in DoneStatuses => Settled(o, C)

FinalInv(C) ==
    /\ ExecutionInv
    /\ SubmissionInv
    /\ \A w \in Workers : PlaceInv(w, C)
    /\ \A o \in Orders : RowInv(o, C)

-----------------------------------------------------------------------------
LEMMA ReceiptsTell ==
    ASSUME ExecutionInv, NEW o \in Orders, NEW row \in Receipts(o)
    PROVE  Tells(row, exchange[o])
<1> DEFINE now == exchange[o]
<1> USE DEF Tells, Unheard, Ended
<1>1. now \in ExchangeRow /\ now.filled \in Nat
  BY DEF ExecutionInv, ExecutionTypeOK, ExchangeRow
<1>2. ASSUME NEW r \in Snapshots(o)
      PROVE  /\ Tells(r, now)
             /\ r \in ExchangeRow
  <2>1. CASE r = now
    BY <1>1, <1>2, <2>1 DEF Snapshots
  <2>2. ASSUME NEW q \in 0 .. now.filled,
               r = [state |-> IF q = 0 THEN "NEW" ELSE "PARTIALLY_FILLED", filled |-> q]
        PROVE  Tells(r, now) /\ r \in ExchangeRow
    BY <1>1, <1>2, <2>2 DEF Snapshots, ExchangeRow, ExchangeState, Working
  <2> QED
    BY <2>1, <2>2 DEF Snapshots
<1>3. CASE row \in Snapshots(o)
  BY <1>2, <1>3
<1>4. ASSUME NEW r \in Snapshots(o), r.state \in {"FILLED", "PARTIALLY_FILLED"},
             row = [r EXCEPT !.filled = 0]
      PROVE  Tells(row, now)
  BY <1>1, <1>2, <1>4 DEF ExchangeRow
<1> QED
  BY <1>3, <1>4 DEF Receipts

LEMMA SnapshotsTell ==
    ASSUME ExecutionInv, NEW o \in Orders, NEW row \in Snapshots(o)
    PROVE  Tells(row, exchange[o])
BY ReceiptsTell DEF Receipts

\* What every step leaves behind: the exchange's record of an ended order, the
\* lots it has reported, and an order nobody has sent.
Forward(o) ==
    /\ exchange[o].state \in Ended => exchange'[o] = exchange[o]
    /\ exchange[o].filled <= exchange'[o].filled
    /\ exchange[o].state \notin Unheard => exchange'[o].state \notin Unheard
    /\ \/ exchange[o].state # "absent" \/ exchange'[o] = exchange[o]
       \/ \E w \in Workers : /\ At(w, "submit") /\ worker[w].order = o
                             /\ ~At(w, "submit")'
    /\ orders[o].filled <= orders'[o].filled
    /\ Submitting(o)' => Submitting(o) \/ orders[o].status = "pending"

LEMMA OtherWorkersWait ==
    ASSUME ExecutionInv, NEW w \in Workers, WorkerNext(w), NEW v \in Workers, v # w
    PROVE  worker'[v] = worker[v]
BY DEF WorkerNext, StartCall, ContinueCall, Execute, Reconcile, Observe, Cancel, Reserve,
       Submit, Await, Fail, Lookup, MarkUnknown, Mark, Book, Finish, SendCancel,
       MarkCanceled, Goto, Done, Become, ExecutionInv, ExecutionTypeOK

LEMMA Becoming ==
    ASSUME ExecutionInv, NEW w \in Workers, NEW task, Become(w, task)
    PROVE  worker'[w] = task
BY DEF Become, ExecutionInv, ExecutionTypeOK

\* The record of one order on the exchange moves forward, the others stay.
LEMMA ExchangeForward ==
    ASSUME ExecutionInv, NEW o \in Orders,
           Arrive(o) \/ FillLot(o) \/ Expire(o), NEW p \in Orders
    PROVE  Forward(p)
<1> USE DEF Working, Ended, Unheard
<1>1. exchange \in [Orders -> ExchangeRow] /\ orders \in [Orders -> OrderRow]
  BY DEF ExecutionInv, ExecutionTypeOK, LedgerInv, TypeOK
<1>2. /\ exchange[p].filled \in Nat /\ orders[p].filled \in Nat
      /\ UNCHANGED <<orders, worker>>
  BY <1>1 DEF ExchangeRow, OrderRow, Arrive, FillLot, Expire, ExchangeOnly, ledgerVars
<1>3. Submitting(p)' => Submitting(p)
  BY <1>2 DEF Submitting, At
<1>4. /\ exchange[p].state \in Ended => exchange'[p] = exchange[p]
      /\ exchange[p].filled <= exchange'[p].filled
      /\ exchange[p].state \notin Unheard => exchange'[p].state \notin Unheard
      /\ exchange[p].state # "absent" \/ exchange'[p] = exchange[p]
  <2>1. CASE p # o
    BY <1>1, <1>2, <2>1 DEF Arrive, FillLot, Expire
  <2>2. CASE p = o
    <3>1. CASE Arrive(o)
      BY <1>1, <1>2, <2>2, <3>1 DEF Arrive, ExchangeRow
    <3>2. CASE FillLot(o)
      BY <1>1, <1>2, <2>2, <3>2 DEF FillLot
    <3>3. CASE Expire(o)
      BY <1>1, <1>2, <2>2, <3>3 DEF Expire, ExchangeRow
    <3> QED
      BY <3>1, <3>2, <3>3
  <2> QED
    BY <2>1, <2>2
<1> QED
  BY <1>2, <1>3, <1>4 DEF Forward

\* A fill is booked as the cumulative quantity, which is never less than before.
LEMMA FilledForward ==
    ASSUME NEW C, Cancelable \subseteq C, FinalInv(C),
           NEW w \in Workers, WorkerNext(w), NEW p \in Orders
    PROVE  orders[p].filled <= orders'[p].filled
<1>1. /\ ExecutionInv
      /\ orders \in [Orders -> OrderRow] /\ orders[p].filled \in Nat
  BY DEF FinalInv, ExecutionInv, LedgerInv, TypeOK, OrderRow
<1>2. ASSUME NEW o \in Orders, NEW status,
             SetOrder(o, [orders[o] EXCEPT !.status = status])
      PROVE  orders[p].filled <= orders'[p].filled
  BY <1>1, <1>2 DEF SetOrder, OrderRow
<1>3. CASE UNCHANGED orders
  BY <1>1, <1>3
<1>4. ASSUME NEW step, step # "idle", At(w, step)
      PROVE  worker[w].order \in Orders
  BY <1>1, <1>4, BusyWorker DEF ExecutionInv
<1>5. CASE \E o \in Orders : Execute(w, o)
  <2>1. PICK o \in Orders : ClaimOrder(o) \/ UNCHANGED orders
    BY <1>5 DEF Execute, ownershipVars
  <2>2. CASE ClaimOrder(o)
    <3>1. orders' = [orders EXCEPT ![o] = [NoOrder EXCEPT !.status = "pending"]]
      BY <2>2 DEF ClaimOrder, SetOrder
    <3>2. CASE p = o
      <4>1. NotYetReserved(o) /\ orders[o].filled = 0
        <5>1. NotYetReserved(o)
          BY <2>2 DEF ClaimOrder, ClaimAllowed, Claimed, NotYetReserved
        <5>2. exchange[o].filled = 0 /\ orders[o].filled <= exchange[o].filled
          BY <5>1 DEF FinalInv, RowInv, ExecutionInv, ExchangeSane, SaneRow
        <5> QED
          BY <1>1, <3>2, <5>1, <5>2
      <4> QED
        BY <1>1, <3>1, <3>2, <4>1 DEF NoOrder
    <3> QED
      BY <1>1, <3>1, <3>2
  <2> QED
    BY <1>3, <2>1, <2>2
<1>6. CASE Reserve(w)
  BY <1>2, <1>3, <1>4, <1>6 DEF Reserve, ReserveSubmission, ownershipVars
<1>7. CASE Fail(w) \/ MarkUnknown(w) \/ MarkCanceled(w)
  BY <1>2, <1>4, <1>7 DEF Fail, MarkUnknown, MarkCanceled, SetOrderStatus
<1>8. CASE Mark(w)
  BY <1>2, <1>4, <1>8 DEF Mark, MarkOrderSubmitted
<1>9. CASE Book(w)
  <2> DEFINE o == worker[w].order
             q == worker[w].answer.filled
  <2>1. o \in Orders
    BY <1>4, <1>9 DEF Book
  <2>2. CASE ApplyFill(o, q)
    <3>1. orders[o].filled <= q
          /\ orders' = [orders EXCEPT ![o] = [orders[o] EXCEPT !.filled = q, !.status = StatusAfterFill(o, q)]]
      BY <1>1, <2>1, <2>2 DEF ApplyFill, FillAllowed, SetOrder
    <3> QED
      BY <1>1, <2>1, <3>1 DEF OrderRow
  <2> QED
    BY <1>3, <1>9, <2>2 DEF Book, ownershipVars
<1>10. CASE Finish(w)
  BY <1>2, <1>3, <1>4, <1>10 DEF Finish, SetOrderStatus, ownershipVars
<1> QED
  BY <1>3, <1>5, <1>6, <1>7, <1>8, <1>9, <1>10
  DEF WorkerNext, StartCall, ContinueCall, Reconcile, Observe, Cancel, Submit, Await,
      Lookup, SendCancel, LocalOnly, ledgerVars

\* Only Reserve takes a goroutine to the submission, from a pending row.
LEMMA SubmittersForward ==
    ASSUME ExecutionInv, NEW w \in Workers, WorkerNext(w), NEW p \in Orders, Submitting(p)'
    PROVE  Submitting(p) \/ orders[p].status = "pending"
<1>1. PICK v \in Workers : At(v, "submit")' /\ worker'[v].order = p
  BY DEF Submitting
<1>2. CASE v # w
  BY <1>1, <1>2, OtherWorkersWait DEF Submitting, At
<1>3. CASE v = w
  <2> DEFINE o == worker[w].order
  <2>1. ASSUME NEW task, task.step # "submit", Become(w, task)
        PROVE  FALSE
    BY <1>1, <1>3, <2>1, Becoming DEF At
  <2>2. ASSUME NEW step, step # "submit", Goto(w, step), worker[w] \in Task
        PROVE  FALSE
    BY <2>1, <2>2 DEF Goto, Task
  <2>3. ~Done(w)
    BY <2>1 DEF Done, Idle
  <2>4. \A step, q, purpose : step # "submit" => ~Become(w, NewTask(step, q, purpose))
    BY <2>1 DEF NewTask
  <2>5. ASSUME NEW step, step # "idle", At(w, step)
        PROVE  worker[w] \in Task /\ o \in Orders
    BY <2>5, BusyWorker DEF ExecutionInv
  <2>6. \A task \in Task : \A row : ~Become(w, [task EXCEPT !.step = "mark", !.answer = row])
    BY <2>1 DEF Task
  <2>7. CASE Reserve(w)
    <3>1. orders[o].status = "pending"
      BY <2>4, <2>7 DEF Reserve, ReserveSubmission
    <3>2. worker'[w].order = o
      BY <2>5, <2>7, <3>1, Becoming DEF Reserve, Goto, Task
    <3> QED
      BY <1>1, <1>3, <3>1, <3>2
  <2>8. CASE \E q \in Orders : Execute(w, q) \/ Reconcile(w, q) \/ Cancel(w, q)
    BY <2>4, <2>8 DEF Execute, Reconcile, Cancel
  <2>9. CASE \E q \in Orders : Observe(w, q)
    <3>1. PICK q \in Orders : \E row : Become(w, [NewTask("mark", q, "reconcile") EXCEPT !.answer = row])
      BY <2>9 DEF Observe
    <3> QED
      BY <2>1, <3>1 DEF NewTask
  <2>10. CASE Fail(w) \/ MarkUnknown(w) \/ MarkCanceled(w)
    BY <2>3, <2>10 DEF Fail, MarkUnknown, MarkCanceled
  <2>11. CASE Submit(w)
    BY <2>2, <2>5, <2>11 DEF Submit
  <2>12. CASE Await(w)
    BY <2>2, <2>4, <2>5, <2>6, <2>12 DEF Await
  <2>13. CASE Lookup(w)
    BY <2>2, <2>5, <2>6, <2>13 DEF Lookup
  <2>14. CASE Mark(w)
    BY <2>2, <2>5, <2>14 DEF Mark
  <2>15. CASE Book(w)
    BY <2>2, <2>3, <2>5, <2>15 DEF Book
  <2>16. CASE Finish(w)
    BY <2>2, <2>3, <2>4, <2>5, <2>16 DEF Finish
  <2>17. CASE SendCancel(w)
    BY <2>2, <2>3, <2>5, <2>17 DEF SendCancel
  <2> QED
    BY <2>7, <2>8, <2>9, <2>10, <2>11, <2>12, <2>13, <2>14, <2>15, <2>16, <2>17
    DEF WorkerNext, StartCall, ContinueCall
<1> QED
  BY <1>2, <1>3

LEMMA WorkerForward ==
    ASSUME NEW C, Cancelable \subseteq C, FinalInv(C),
           NEW w \in Workers, WorkerNext(w), NEW p \in Orders
    PROVE  Forward(p)
<1> DEFINE o == worker[w].order
<1> USE DEF Working, Ended, Unheard
<1>1. /\ ExecutionInv
      /\ exchange \in [Orders -> ExchangeRow]
      /\ exchange[p].filled \in Nat
  BY DEF FinalInv, ExecutionInv, ExecutionTypeOK, ExchangeRow
<1>2. /\ orders[p].filled <= orders'[p].filled
      /\ Submitting(p)' => Submitting(p) \/ orders[p].status = "pending"
  BY <1>1, FilledForward, SubmittersForward
<1>3. CASE UNCHANGED exchange
  BY <1>1, <1>2, <1>3 DEF Forward
<1>4. CASE Submit(w) /\ exchange' # exchange
  <2>1. /\ At(w, "submit") /\ o \in Orders /\ worker[w] \in Task
        /\ Goto(w, "await")
        /\ exchange' = [exchange EXCEPT ![o].state = IF @ = "absent" THEN "transit" ELSE @]
    BY <1>1, <1>4, BusyWorker DEF Submit, ExecutionInv
  <2>2. ~At(w, "submit")'
    BY <1>1, <2>1, Becoming DEF Goto, Task, At
  <2> QED
    BY <1>1, <1>2, <2>1, <2>2 DEF Forward, ExchangeRow
<1>5. CASE SendCancel(w) /\ exchange' # exchange
  <2>1. /\ o \in Orders /\ exchange[o].state \in Working
        /\ exchange' = [exchange EXCEPT ![o].state = "CANCELED"]
    BY <1>1, <1>5, BusyWorker DEF SendCancel, ExecutionInv
  <2> QED
    BY <1>1, <1>2, <2>1 DEF Forward, ExchangeRow
<1> QED
  BY <1>3, <1>4, <1>5
  DEF WorkerNext, StartCall, ContinueCall, Execute, Reconcile, Observe, Cancel, Reserve,
      Await, Fail, Lookup, MarkUnknown, Mark, Book, Finish, MarkCanceled,
      LedgerOnly, LocalOnly

LEMMA StepForward ==
    ASSUME NEW C, Cancelable \subseteq C, FinalInv(C), [ExecutionNext]_executionVars, NEW p \in Orders
    PROVE  Forward(p)
<1>1. /\ ExecutionInv
      /\ exchange[p].filled \in Nat /\ orders[p].filled \in Nat
  BY DEF FinalInv, ExecutionInv, ExecutionTypeOK, ExchangeRow, LedgerInv, TypeOK, OrderRow
<1>2. CASE UNCHANGED <<orders, exchange, worker>>
  BY <1>1, <1>2 DEF Forward, Submitting, At
<1>3. CASE Restart
  BY <1>1, <1>3 DEF Restart, LocalOnly, ledgerVars, Forward, Submitting, At, Idle
<1>4. CASE ExchangeNext
  BY <1>1, <1>2, <1>4, ExchangeForward DEF ExchangeNext, ManualTrade, ledgerVars
<1> QED
  BY <1>2, <1>3, <1>4, WorkerForward DEF ExecutionNext, executionVars

-----------------------------------------------------------------------------
\* What a goroutine relies on stays true while the others work.
LEMMA PlaceKept ==
    ASSUME NEW C, Cancelable \subseteq C, FinalInv(C), ExecutionInv', StatusForward,
           \A p \in Orders : Forward(p),
           NEW v \in Workers, worker'[v] = worker[v]
    PROVE  PlaceInv(v, C)'
<1> DEFINE o == worker[v].order
<1> USE DEF Unheard, Ended
<1>1. CASE worker[v] = Idle
  BY <1>1 DEF PlaceInv, At, Idle
<1>2. CASE worker[v] # Idle
  <2>1. /\ worker[v] \in Task /\ o \in Orders /\ PlaceInv(v, C) /\ Forward(o)
        /\ exchange[o].filled \in Nat /\ orders[o].filled \in Nat
        /\ worker[v].answer.filled \in Nat
        /\ exchange'[o].filled \in Nat /\ orders'[o].filled \in Nat
    BY <1>2
    DEF FinalInv, ExecutionInv, ExecutionTypeOK, Task, ExchangeRow, LedgerInv, TypeOK, OrderRow
  <2>2. At(v, "submit") => exchange'[o] = exchange[o]
    <3>1. ASSUME At(v, "submit"), NEW w \in Workers, At(w, "submit"), worker[w].order = o,
                 ~At(w, "submit")'
          PROVE  FALSE
      BY <3>1 DEF FinalInv, SubmissionInv, At
    <3> QED
      BY <2>1, <3>1 DEF Forward, PlaceInv
  <2>3. At(v, "fail") =>
            /\ exchange'[o] = exchange[o]
            /\ ~Submitting(o)' /\ ~NotYetReserved(o)'
    BY <2>1 DEF Forward, PlaceInv, Submitting, StatusForward, NotYetReserved
  <2>4. ASSUME At(v, "mark") \/ At(v, "book") \/ At(v, "finish")
        PROVE  Tells(worker[v].answer, exchange'[o])
    BY <2>1, <2>4 DEF PlaceInv, Tells, Forward
  <2>5. At(v, "finish") => worker[v].answer.filled <= orders'[o].filled
    BY <2>1 DEF PlaceInv, Forward
  <2>6. At(v, "canceled") => exchange'[o].state = "CANCELED"
    BY <2>1 DEF PlaceInv, Forward
  <2> QED
    BY <2>1, <2>2, <2>3, <2>4, <2>5, <2>6 DEF PlaceInv, At
<1> QED
  BY <1>1, <1>2

\* What the goroutine relies on at the place a step of its own takes it to.
LEMMA PlaceReached ==
    ASSUME NEW C, Cancelable \subseteq C, FinalInv(C), ExecutionInv', StatusForward,
           \A p \in Orders : Forward(p),
           NEW w \in Workers, WorkerNext(w)
    PROVE  PlaceInv(w, C)'
<1> DEFINE o == worker[w].order
           task == worker[w]
<1> USE DEF Unheard, Ended
<1>1. ExecutionInv
  BY DEF FinalInv
<1>2. ASSUME NEW step, step # "idle", At(w, step)
      PROVE  /\ task \in Task /\ o \in Orders /\ PlaceInv(w, C) /\ Forward(o) /\ RowInv(o, C)
             /\ exchange[o] \in ExchangeRow /\ exchange[o].filled \in Nat
             /\ orders[o].filled \in Nat /\ task.answer.filled \in Nat
  BY <1>1, <1>2, BusyWorker
  DEF FinalInv, ExecutionInv, ExecutionTypeOK, ExchangeRow, Task, LedgerInv, TypeOK, OrderRow
<1>3. ASSUME worker'[w].step \in {"idle", "reserve", "await", "lookup", "unknown"}
      PROVE  PlaceInv(w, C)'
  BY <1>3 DEF PlaceInv, At
<1>4. ASSUME Done(w)
      PROVE  PlaceInv(w, C)'
  BY <1>1, <1>3, <1>4, Becoming DEF Done, Idle
<1>5. ASSUME NEW step \in {"await", "unknown"}, Goto(w, step), task \in Task
      PROVE  PlaceInv(w, C)'
  BY <1>1, <1>3, <1>5, Becoming DEF Goto, Task
<1>6. ASSUME NEW step \in {"reserve", "lookup"}, NEW p, NEW purpose,
             Become(w, NewTask(step, p, purpose))
      PROVE  PlaceInv(w, C)'
  BY <1>1, <1>3, <1>6, Becoming DEF NewTask
<1>7. ASSUME NEW p \in Orders, NEW new \in Task, new.order = p, NEW row, Tells(row, exchange[p]),
             row \in ExchangeRow, UNCHANGED exchange,
             Become(w, [new EXCEPT !.step = "mark", !.answer = row])
      PROVE  PlaceInv(w, C)'
  <2>1. /\ worker'[w].step = "mark"
        /\ worker'[w].order = p
        /\ worker'[w].answer = row
    BY <1>1, <1>7, Becoming DEF Task
  <2> QED
    BY <1>7, <2>1 DEF PlaceInv, At
<1>8. CASE \E p \in Orders : Execute(w, p)
  <2>1. PICK p \in Orders : \/ Become(w, NewTask("reserve", p, "submit"))
                            \/ Become(w, NewTask("lookup", p, "reconcile"))
    BY <1>8 DEF Execute
  <2> QED
    BY <1>6, <2>1
<1>9. CASE \E p \in Orders : Reconcile(w, p)
  BY <1>6, <1>9 DEF Reconcile
<1>10. CASE \E p \in Orders : Cancel(w, p)
  <2>1. PICK p \in Cancelable : Become(w, NewTask("cancel", p, "reconcile"))
    BY <1>10 DEF Cancel
  <2>2. worker'[w].step = "cancel" /\ worker'[w].order = p
    BY <1>1, <2>1, Becoming DEF NewTask
  <2> QED
    BY <2>1, <2>2 DEF PlaceInv, At
<1>11. CASE \E p \in Orders : Observe(w, p)
  <2>1. PICK p \in Orders : Observe(w, p)
    BY <1>11
  <2>2. PICK row \in Snapshots(p) :
            /\ Become(w, [NewTask("mark", p, "reconcile") EXCEPT !.answer = row])
            /\ UNCHANGED exchange
    BY <2>1 DEF Observe, LocalOnly
  <2>3. Tells(row, exchange[p])
    BY <1>1, <2>2, SnapshotsTell
  <2>4. worker'[w].step = "mark" /\ worker'[w].order = p /\ worker'[w].answer = row
    BY <1>1, <2>2, Becoming DEF NewTask
  <2> QED
    BY <2>2, <2>3, <2>4 DEF PlaceInv, At
<1>12. CASE Fail(w) \/ MarkUnknown(w) \/ MarkCanceled(w)
  BY <1>4, <1>12 DEF Fail, MarkUnknown, MarkCanceled
<1>13. CASE Reserve(w)
  <2>1. CASE orders[o].status # "pending"
    BY <1>6, <1>13, <2>1 DEF Reserve, ReserveSubmission
  <2>2. CASE orders[o].status = "pending"
    <3>1. task \in Task /\ RowInv(o, C) /\ Goto(w, "submit") /\ UNCHANGED exchange
      BY <1>2, <1>13, <2>2 DEF Reserve, LedgerOnly
    <3>2. worker'[w].step = "submit" /\ worker'[w].order = o
      BY <1>1, <3>1, Becoming DEF Goto, Task
    <3> QED
      BY <2>2, <3>1, <3>2 DEF PlaceInv, RowInv, NotYetReserved, At
  <2> QED
    BY <2>1, <2>2
<1>14. CASE Submit(w)
  <2>1. task \in Task /\ o \in Orders /\ PlaceInv(w, C) /\ Forward(o) /\ At(w, "submit")
    BY <1>2, <1>14 DEF Submit
  <2>2. PICK p \in Orders : p = o
    BY <2>1
  <2>3. CASE Goto(w, "await")
    BY <1>5, <2>1, <2>3
  <2>4. CASE Goto(w, "fail") /\ UNCHANGED exchange
    <3>1. worker'[w].step = "fail" /\ worker'[w].order = o
      BY <1>1, <2>1, <2>4, Becoming DEF Goto, Task
    <3>2. exchange'[o].state = "absent"
      BY <2>1, <2>4 DEF PlaceInv
    <3>3. ~NotYetReserved(p)'
      BY <2>1, <2>2 DEF FinalInv, SubmissionInv, StatusForward
    <3>4. ~Submitting(p)'
      <4>1. ASSUME NEW v \in Workers, At(v, "submit")', worker'[v].order = p
            PROVE  FALSE
        <5>1. v # w
          BY <3>1, <4>1 DEF At
        <5>2. At(v, "submit") /\ worker[v].order = o
          BY <1>1, <2>2, <4>1, <5>1, OtherWorkersWait DEF At
        <5> QED
          BY <2>1, <5>1, <5>2 DEF FinalInv, SubmissionInv
      <4> QED
        BY <4>1 DEF Submitting
    <3> QED
      BY <2>2, <3>1, <3>2, <3>3, <3>4 DEF PlaceInv, At
  <2> QED
    BY <1>14, <2>3, <2>4 DEF Submit
<1>15. CASE Await(w)
  <2>1. task \in Task /\ o \in Orders /\ RowInv(o, C) /\ Forward(o) /\ UNCHANGED exchange
    BY <1>2, <1>15 DEF Await, LocalOnly
  <2>2. PICK p \in Orders : p = o
    BY <2>1
  <2>3. ASSUME NEW row \in Receipts(o),
               Become(w, [worker[w] EXCEPT !.step = "mark", !.answer = row])
        PROVE  PlaceInv(w, C)'
    <3>1. Tells(row, exchange[o]) /\ row \in ExchangeRow
      BY <1>1, <2>1, ReceiptsTell, ReceiptsAreSane DEF ExecutionInv, ExchangeSane
    <3> QED
      BY <1>7, <2>1, <2>3, <3>1
  <2>4. CASE exchange[o].state = "REJECTED" /\ Goto(w, "fail")
    <3>1. worker'[w].step = "fail" /\ worker'[w].order = o
      BY <1>1, <2>1, <2>4, Becoming DEF Goto, Task
    <3>2. ~NotYetReserved(p) /\ ~NotYetReserved(p)'
      BY <2>1, <2>4, <2>2 DEF RowInv, StatusForward
    <3>3. ~Submitting(p)
      BY <2>4, <2>2 DEF FinalInv, PlaceInv, Submitting
    <3>4. ~Submitting(p)'
      BY <2>1, <2>2, <3>2, <3>3 DEF Forward, NotYetReserved
    <3> QED
      BY <2>1, <2>4, <2>2, <3>1, <3>2, <3>4 DEF PlaceInv, At
  <2>5. CASE Become(w, NewTask("lookup", o, "reconcile"))
    BY <1>6, <2>5
  <2> QED
    BY <1>15, <2>3, <2>4, <2>5 DEF Await
<1>16. CASE Lookup(w)
  <2>1. task \in Task /\ o \in Orders /\ exchange[o] \in ExchangeRow /\ UNCHANGED exchange
    BY <1>2, <1>16 DEF Lookup, LocalOnly
  <2>2. CASE Goto(w, "unknown")
    BY <1>5, <2>1, <2>2
  <2>3. CASE /\ exchange[o].state \notin {"absent", "transit"}
             /\ Become(w, [worker[w] EXCEPT !.step = "mark", !.answer = exchange[o]])
    <3>1. Tells(exchange[o], exchange[o])
      BY <2>1, <2>3 DEF Tells, ExchangeRow
    <3> QED
      BY <1>7, <2>1, <2>3, <3>1
  <2> QED
    BY <1>16, <2>2, <2>3 DEF Lookup
<1>17. CASE Mark(w)
  <2>1. /\ task \in Task /\ o \in Orders /\ PlaceInv(w, C) /\ Forward(o)
        /\ Goto(w, IF task.answer.filled > 0 THEN "book" ELSE "finish")
        /\ UNCHANGED exchange /\ At(w, "mark")
        /\ orders[o].filled \in Nat /\ task.answer.filled \in Nat
    BY <1>2, <1>17 DEF Mark
  <2>2. orders'[o].filled \in Nat
    BY <2>1 DEF ExecutionInv, LedgerInv, TypeOK, OrderRow
  <2>3. /\ worker'[w].step = IF task.answer.filled > 0 THEN "book" ELSE "finish"
        /\ worker'[w].order = o /\ worker'[w].answer = task.answer
    BY <1>1, <2>1, Becoming DEF Goto, Task
  <2> QED
    BY <2>1, <2>2, <2>3 DEF PlaceInv, At
<1>18. CASE Book(w)
  <2>1. /\ task \in Task /\ o \in Orders /\ PlaceInv(w, C)
        /\ UNCHANGED exchange /\ At(w, "book") /\ task.answer.filled \in Nat
    BY <1>2, <1>18 DEF Book, LedgerOnly
  <2>2. CASE Done(w)
    BY <1>4, <2>2
  <2>3. CASE ApplyFill(o, task.answer.filled) /\ Goto(w, "finish")
    <3>1. orders'[o].filled = task.answer.filled
      BY <1>1, <2>1, <2>3 DEF ApplyFill, SetOrder, ExecutionInv, LedgerInv, TypeOK, OrderRow
    <3>2. /\ worker'[w].step = "finish"
          /\ worker'[w].order = o /\ worker'[w].answer = task.answer
      BY <1>1, <2>1, <2>3, Becoming DEF Goto, Task
    <3> QED
      BY <2>1, <3>1, <3>2 DEF PlaceInv, At
  <2> QED
    BY <1>18, <2>2, <2>3 DEF Book
<1>19. CASE Finish(w)
  BY <1>2, <1>4, <1>5, <1>6, <1>19 DEF Finish
<1>20. CASE SendCancel(w)
  <2>1. task \in Task /\ o \in Orders /\ PlaceInv(w, C) /\ At(w, "cancel")
    BY <1>2, <1>20 DEF SendCancel
  <2>2. CASE Done(w)
    BY <1>4, <2>2
  <2>3. CASE exchange' = [exchange EXCEPT ![o].state = "CANCELED"] /\ Goto(w, "canceled")
    <3>1. worker'[w].step = "canceled" /\ worker'[w].order = o
      BY <1>1, <2>1, <2>3, Becoming DEF Goto, Task
    <3>2. exchange'[o].state = "CANCELED"
      BY <1>1, <2>1, <2>3 DEF ExecutionInv, ExecutionTypeOK, ExchangeRow
    <3> QED
      BY <2>1, <3>1, <3>2 DEF PlaceInv, At
  <2> QED
    BY <1>20, <2>2, <2>3 DEF SendCancel
<1> QED
  BY <1>8, <1>9, <1>10, <1>11, <1>12, <1>13, <1>14, <1>15, <1>16, <1>17, <1>18, <1>19, <1>20
  DEF WorkerNext, StartCall, ContinueCall

\* A row that no step writes agrees with the exchange as before.
LEMMA RowKept ==
    ASSUME NEW C, Cancelable \subseteq C, FinalInv(C), ExecutionInv',
           NEW p \in Orders, Forward(p), orders'[p] = orders[p]
    PROVE  RowInv(p, C)'
<1> USE DEF Unheard, Ended
<1>1. /\ RowInv(p, C)
      /\ exchange[p].filled \in Nat /\ orders[p].filled \in Nat /\ exchange'[p].filled \in Nat
  BY DEF FinalInv, ExecutionInv, ExecutionTypeOK, ExchangeRow, LedgerInv, TypeOK, OrderRow
<1>2. exchange[p].state = "absent" /\ ~Submitting(p) => exchange'[p] = exchange[p]
  BY DEF Forward, Submitting
<1>3. NotYetReserved(p) => ~Submitting(p)
  BY DEF FinalInv, SubmissionInv, Submitting
<1>4. NotYetReserved(p)' => exchange'[p].state = "absent"
  BY <1>1, <1>2, <1>3 DEF RowInv, NotYetReserved
<1>5. orders'[p].filled <= exchange'[p].filled
  BY <1>1 DEF RowInv, Forward
<1>6. ASSUME orders[p].status \in DoneStatuses
      PROVE  Settled(p, C)'
  <2>1. Settled(p, C) /\ ~Submitting(p)'
    BY <1>1, <1>6 DEF RowInv, Settled, Forward, DoneStatuses
  <2>2. exchange'[p] = exchange[p]
    BY <1>2, <2>1 DEF Settled, Forward
  <2> QED
    BY <2>1, <2>2 DEF Settled
<1> QED
  BY <1>4, <1>5, <1>6 DEF RowInv

\* The answers that make a row final.
LEMMA FinalAnswers ==
    ASSUME NEW answer, FinalStatus(answer) \in DoneStatuses
    PROVE  /\ answer.state \in Ended
           /\ answer.state = "FILLED" => answer.filled # 0
<1>1. FinalStatus(answer) \notin {"reconcile_required", "partially_filled", "submitted"}
  BY DEF DoneStatuses
<1>2. ~(answer.state \in {"FILLED", "PARTIALLY_FILLED"} /\ answer.filled = 0)
  BY <1>1 DEF FinalStatus
<1>3. answer.state # "PARTIALLY_FILLED"
  <2>1. ASSUME answer.state = "PARTIALLY_FILLED"
        PROVE  FinalStatus(answer) = "partially_filled"
    BY <1>2, <2>1, Zenon DEF FinalStatus
  <2> QED
    BY <1>1, <2>1
<1>4. answer.state \in Ended
  <2>1. ASSUME answer.state # "FILLED", answer.state # "CANCELED", answer.state # "REJECTED"
        PROVE  FinalStatus(answer) = "submitted"
    BY <1>2, <1>3, <2>1, Zenon DEF FinalStatus
  <2> QED
    BY <1>1, <2>1 DEF Ended
<1> QED
  BY <1>2, <1>4

\* A row that a goroutine writes agrees with the exchange when it is final.
LEMMA RowWritten ==
    ASSUME NEW C, Cancelable \subseteq C, FinalInv(C), ExecutionInv', StatusForward,
           \A p \in Orders : Forward(p),
           NEW w \in Workers, WorkerNext(w), NEW p \in Orders, orders'[p] # orders[p]
    PROVE  RowInv(p, C)'
<1> DEFINE o == worker[w].order
           answer == worker[w].answer
<1> USE DEF Unheard, Ended, Working
<1>1. /\ ExecutionInv
      /\ orders \in [Orders -> OrderRow]
      /\ Forward(p) /\ RowInv(p, C) /\ SaneRow(p, exchange[p])
      /\ exchange[p].filled \in Nat /\ orders[p].filled \in Nat
      /\ Request[p].qty \in Nat /\ Request[p].qty > 0
  BY RequestParts
  DEF FinalInv, ExecutionInv, ExchangeSane, ExecutionTypeOK, ExchangeRow, LedgerInv, TypeOK, OrderRow
<1>2. ASSUME NEW q \in Orders, NEW row, SetOrder(q, row)
      PROVE  q = p /\ orders'[p] = row
  BY <1>1, <1>2 DEF SetOrder
<1>3. ASSUME NEW status, SetOrderStatus(o, status), o \in Orders
      PROVE  o = p /\ orders'[p].status = status /\ orders'[p].filled = orders[p].filled
  BY <1>1, <1>2, <1>3 DEF SetOrderStatus, OrderRow
<1>4. ASSUME NEW step, step # "idle", At(w, step)
      PROVE  /\ worker[w] \in Task /\ o \in Orders /\ PlaceInv(w, C)
             /\ answer.filled \in Nat
  BY <1>1, <1>4, BusyWorker DEF FinalInv, ExecutionInv, Task, ExchangeRow
<1>5. ASSUME exchange'[p] = exchange[p], orders'[p].filled = orders[p].filled,
             ~NotYetReserved(p)', orders'[p].status \notin DoneStatuses
      PROVE  RowInv(p, C)'
  BY <1>1, <1>5 DEF RowInv
<1>6. CASE \E q \in Orders : Execute(w, q)
  <2>1. PICK q \in Orders : ClaimOrder(q) /\ UNCHANGED exchange
    BY <1>6 DEF Execute, ownershipVars, LedgerOnly
  <2>2. q = p /\ orders'[p] = [NoOrder EXCEPT !.status = "pending"]
    BY <1>2, <2>1 DEF ClaimOrder
  <2>3. exchange[p].state = "absent"
    BY <1>1, <2>1, <2>2 DEF ClaimOrder, ClaimAllowed, Claimed, RowInv, NotYetReserved
  <2> QED
    BY <1>1, <2>1, <2>2, <2>3 DEF RowInv, NoOrder, DoneStatuses
<1>7. CASE Reserve(w)
  <2>1. /\ o \in Orders /\ UNCHANGED exchange
        /\ SetOrder(o, [orders[o] EXCEPT !.status = "submitted"])
    BY <1>4, <1>7 DEF Reserve, ReserveSubmission, LedgerOnly, ownershipVars
  <2>2. orders'[p].status = "submitted" /\ orders'[p].filled = orders[p].filled
    BY <1>1, <1>2, <2>1 DEF OrderRow
  <2> QED
    BY <1>5, <2>1, <2>2 DEF NotYetReserved, DoneStatuses
<1>8. CASE Mark(w)
  <2>1. /\ o \in Orders /\ UNCHANGED exchange
        /\ SetOrder(o, [orders[o] EXCEPT !.status = "submitted"])
    BY <1>4, <1>8 DEF Mark, MarkOrderSubmitted
  <2>2. orders'[p].status = "submitted" /\ orders'[p].filled = orders[p].filled
    BY <1>1, <1>2, <2>1 DEF OrderRow
  <2> QED
    BY <1>5, <2>1, <2>2 DEF NotYetReserved, DoneStatuses
<1>9. CASE Fail(w)
  <2>1. o = p /\ orders'[p].status = "failed" /\ orders'[p].filled = orders[p].filled
        /\ PlaceInv(w, C) /\ UNCHANGED exchange /\ At(w, "fail")
    BY <1>3, <1>4, <1>9 DEF Fail, LedgerOnly
  <2>2. exchange[p].filled = 0 /\ ~Submitting(p)'
    BY <1>1, <2>1 DEF PlaceInv, SaneRow, Forward, NotYetReserved
  <2> QED
    BY <1>1, <2>1, <2>2 DEF RowInv, Settled, PlaceInv, NotYetReserved
<1>10. CASE MarkUnknown(w)
  BY <1>3, <1>4, <1>5, <1>10 DEF MarkUnknown, LedgerOnly, NotYetReserved, DoneStatuses
<1>11. CASE MarkCanceled(w)
  <2>1. o = p /\ orders'[p].status = "canceled" /\ orders'[p].filled = orders[p].filled
        /\ PlaceInv(w, C) /\ UNCHANGED exchange /\ At(w, "canceled")
    BY <1>3, <1>4, <1>11 DEF MarkCanceled, LedgerOnly
  <2>2. exchange[p].state = "CANCELED" /\ ~NotYetReserved(p) /\ ~Submitting(p)
    BY <1>1, <2>1 DEF PlaceInv, RowInv, FinalInv, Submitting
  <2>3. ~Submitting(p)'
    BY <1>1, <2>2 DEF Forward, NotYetReserved
  <2> QED
    BY <1>1, <2>1, <2>2, <2>3 DEF RowInv, Settled, PlaceInv, NotYetReserved
<1>12. ASSUME o = p, Tells(answer, exchange[p])
       PROVE  ~NotYetReserved(p) /\ ~NotYetReserved(p)' /\ ~Submitting(p)'
  <2>1. ~NotYetReserved(p) /\ ~Submitting(p)
    BY <1>1, <1>12 DEF Tells, RowInv, FinalInv, PlaceInv, Submitting
  <2> QED
    BY <1>1, <2>1 DEF StatusForward, Forward, NotYetReserved
<1>13. CASE Book(w)
  <2> DEFINE q == answer.filled
  <2>1. /\ ApplyFill(o, q) /\ UNCHANGED exchange
        /\ o \in Orders /\ q \in Nat /\ Tells(answer, exchange[o])
    BY <1>4, <1>13 DEF Book, LedgerOnly, ownershipVars, PlaceInv
  <2>2. o = p /\ orders'[p] = [orders[o] EXCEPT !.filled = q, !.status = StatusAfterFill(o, q)]
    BY <1>2, <2>1 DEF ApplyFill
  <2>3. /\ orders'[p].filled = q /\ orders'[p].status = StatusAfterFill(p, q)
        /\ orders[p].filled <= q /\ q <= exchange[p].filled
    BY <1>1, <2>1, <2>2 DEF OrderRow, ApplyFill, FillAllowed, Tells
  <2>4. ~NotYetReserved(p)' /\ ~Submitting(p)'
    BY <1>12, <2>1, <2>2
  <2>5. CASE q >= Request[p].qty
    <3>1. exchange[p].filled = q /\ exchange[p].state \in Ended
      BY <1>1, <2>1, <2>2, <2>3, <2>5 DEF SaneRow, ExchangeRow, ExchangeState
    <3> QED
      BY <1>1, <2>1, <2>3, <2>4, <3>1 DEF RowInv, Settled
  <2>6. CASE q < Request[p].qty /\ q > 0
    BY <1>1, <2>1, <2>3, <2>4, <2>6 DEF RowInv, StatusAfterFill, DoneStatuses
  <2>7. CASE q = 0
    <3>1. orders'[p].filled = orders[p].filled /\ orders'[p].status = orders[p].status
      BY <1>1, <2>1, <2>3, <2>7 DEF StatusAfterFill
    <3> QED
      BY <1>1, <2>1, <2>4, <3>1 DEF RowInv, Settled
  <2> QED
    BY <1>1, <2>1, <2>5, <2>6, <2>7
<1>14. CASE Finish(w)
  <2>1. /\ o = p /\ UNCHANGED exchange
        /\ orders'[p].status = FinalStatus(answer)
        /\ orders'[p].filled = orders[p].filled
        /\ Tells(answer, exchange[p]) /\ answer.filled <= orders[p].filled
        /\ answer.filled \in Nat
    BY <1>3, <1>4, <1>14 DEF Finish, LedgerOnly, ownershipVars, PlaceInv
  <2>2. ~NotYetReserved(p)' /\ ~Submitting(p)'
    BY <1>12, <2>1
  <2>3. ASSUME FinalStatus(answer) \in DoneStatuses
        PROVE  answer.state \in Ended /\ (answer.state = "FILLED" => answer.filled > 0)
    BY <2>1, <2>3, FinalAnswers
  <2>4. FinalStatus(answer) \in DoneStatuses =>
            /\ exchange[p].state \in Ended
            /\ orders[p].filled = exchange[p].filled
    BY <1>1, <2>1, <2>3 DEF Tells, RowInv
  <2> QED
    BY <1>1, <2>1, <2>2, <2>4 DEF RowInv, Settled
<1> QED
  BY <1>6, <1>7, <1>8, <1>9, <1>10, <1>11, <1>13, <1>14
  DEF WorkerNext, StartCall, ContinueCall, Reconcile, Observe, Cancel, Submit, Await,
      Lookup, SendCancel, LocalOnly, ledgerVars

LEMMA FinalStep ==
    ASSUME NEW C, Cancelable \subseteq C, FinalInv(C), [ExecutionNext]_executionVars
    PROVE  FinalInv(C)'
<1>1. ExecutionInv' /\ SubmissionInv' /\ StatusForward
  BY ExecutionStep, SubmissionStep, StatusesGoForward DEF FinalInv
<1>2. \A p \in Orders : Forward(p)
  BY StepForward
<1>3. ASSUME NEW v \in Workers
      PROVE  PlaceInv(v, C)'
  <2>1. CASE worker'[v] = worker[v]
    BY <1>1, <1>2, <2>1, PlaceKept
  <2>2. CASE WorkerNext(v)
    BY <1>1, <1>2, <2>2, PlaceReached
  <2>3. CASE Restart
    BY <2>3 DEF Restart, PlaceInv, At, Idle
  <2>4. ExecutionInv
    BY DEF FinalInv
  <2> QED
    BY <2>1, <2>2, <2>3, <2>4, OtherWorkersWait
    DEF ExecutionNext, executionVars, ExchangeNext, Arrive, FillLot, Expire, ExchangeOnly, ManualTrade
<1>4. ASSUME NEW p \in Orders
      PROVE  RowInv(p, C)'
  <2>1. CASE orders'[p] = orders[p]
    BY <1>1, <1>2, <2>1, RowKept
  <2>2. ASSUME NEW w \in Workers, WorkerNext(w), orders'[p] # orders[p]
        PROVE  RowInv(p, C)'
    BY <1>1, <1>2, <2>2, RowWritten
  <2> QED
    BY <2>1, <2>2
    DEF ExecutionNext, executionVars, ExchangeNext, Arrive, FillLot, Expire, ExchangeOnly,
        ManualTrade, Restart, LocalOnly, ledgerVars
<1> QED
  BY <1>1, <1>3, <1>4 DEF FinalInv

LEMMA FinalStart ==
    ASSUME NEW C, ExecutionInit
    PROVE  FinalInv(C)
<1>1. ExecutionInv
  BY ExecutionStart
<1>2. SubmissionInv
  BY DEF ExecutionInit, SubmissionInv, AtMostOneSubmission, At, Idle
<1>3. \A w \in Workers : PlaceInv(w, C)
  BY DEF ExecutionInit, PlaceInv, At, Idle
<1>4. \A o \in Orders : RowInv(o, C)
  BY DEF ExecutionInit, OwnershipInit, NoOrder, Unknown, RowInv, DoneStatuses
<1> QED
  BY <1>1, <1>2, <1>3, <1>4 DEF FinalInv

\* FinalInv is inductive: the place of each goroutine, what its answer still
\* says of the exchange, and the agreement of every row with the exchange.
THEOREM FinalInvariant == ExecutionSpec => []FinalInv(Cancelable)
<1>1. ExecutionInit => FinalInv(Cancelable)
  BY FinalStart
<1>2. FinalInv(Cancelable) /\ [ExecutionNext]_executionVars => FinalInv(Cancelable)'
  BY FinalStep
<1> QED
  BY <1>1, <1>2, PTL DEF ExecutionSpec

\* Nothing the ledger has stopped watching can still trade, whatever answers
\* are lost, late or sparse, for any number of goroutines and restarts.
THEOREM FinalHasEnded == ExecutionSpec => []FinalMeansEnded
<1>1. FinalInv(Cancelable) => FinalMeansEnded
  BY DEF FinalInv, RowInv, Settled, FinalMeansEnded
<1> QED
  BY <1>1, FinalInvariant, PTL

\* A final row has booked every lot, except that of an order Cancel finalized.
THEOREM FinalIsBooked == ExecutionSpec => []FinalMeansBooked
<1>1. FinalInv(Cancelable) => FinalMeansBooked
  BY DEF FinalInv, RowInv, Settled, FinalMeansBooked, DoneStatuses
<1> QED
  BY <1>1, FinalInvariant, PTL

-----------------------------------------------------------------------------
\* OneExposure is not inductive: an order that is only claimed, or whose
\* request a goroutine is about to send, must count as exposed already.
CanTrade(o) ==
    /\ IsOpen(o)
    /\ \/ orders[o].status = "pending"
       \/ Submitting(o)
       \/ exchange[o].state \in Working \cup {"transit"}

ExposureInv ==
    \A o \in Orders :
        CanTrade(o) =>
            /\ \A p \in Orders \ {o} :
                  IsOpen(p) /\ Request[p].slot = Request[o].slot => ~CanTrade(p)
            /\ \A ow \in Owners \ {Request[o].owner} : ~Holds(ow, Request[o].slot)

\* An order that can trade still blocks its leg in the ledger.
LEMMA CanTradeIsLive ==
    ASSUME NEW C, Cancelable \subseteq C, FinalInv(C), NEW o \in Orders, CanTrade(o)
    PROVE  Live(o)
<1>1. RowInv(o, C) /\ orders[o] \in OrderRow
  BY DEF FinalInv, ExecutionInv, LedgerInv, TypeOK
<1>2. Submitting(o) => ~NotYetReserved(o)
  BY DEF FinalInv, SubmissionInv, Submitting
<1>3. CASE orders[o].status = "pending"
  BY <1>3 DEF Live, LiveStatuses
<1>4. CASE Submitting(o)
  BY <1>1, <1>2, <1>4 DEF RowInv, Settled, NotYetReserved, Live, OrderRow, LiveStatuses, DoneStatuses
<1>5. CASE exchange[o].state \in Working \cup {"transit"}
  BY <1>1, <1>5
  DEF RowInv, Settled, NotYetReserved, Live, OrderRow, LiveStatuses, DoneStatuses, Working, Ended
<1> QED
  BY <1>3, <1>4, <1>5 DEF CanTrade

\* A row comes into being by ClaimOrder only.
LEMMA NewRowIsClaimed ==
    ASSUME ExecutionInv, [ExecutionNext]_executionVars, NEW p \in Orders,
           ~Claimed(p), orders'[p] # orders[p]
    PROVE  ClaimOrder(p)
<1>1. ASSUME NEW q \in Orders, NEW row, SetOrder(q, row)
      PROVE  q = p
  BY <1>1 DEF SetOrder, ExecutionInv, LedgerInv, TypeOK
<1>2. ASSUME NEW w \in Workers, NEW step, step # "idle", At(w, step)
      PROVE  worker[w].order \in Orders
  BY <1>2, BusyWorker DEF ExecutionInv
<1>3. ASSUME NEW w \in Workers, WorkerNext(w)
      PROVE  ClaimOrder(p)
  <2>1. CASE \E q \in Orders : Execute(w, q)
    <3>1. PICK q \in Orders : ClaimOrder(q)
      BY <2>1 DEF Execute, ownershipVars
    <3> QED
      BY <1>1, <3>1 DEF ClaimOrder
  <2>2. CASE Reserve(w)
    BY <1>1, <1>2, <2>2 DEF Reserve, ReserveSubmission, Claimed, ownershipVars
  <2>3. CASE Fail(w) \/ MarkUnknown(w) \/ MarkCanceled(w)
    BY <1>1, <1>2, <2>3 DEF Fail, MarkUnknown, MarkCanceled, SetOrderStatus
  <2>4. CASE Mark(w)
    BY <1>1, <1>2, <2>4 DEF Mark, MarkOrderSubmitted
  <2>5. CASE Book(w)
    BY <1>1, <1>2, <2>5 DEF Book, ApplyFill, FillAllowed, ownershipVars
  <2>6. CASE Finish(w)
    BY <1>1, <1>2, <2>6 DEF Finish, SetOrderStatus, ownershipVars
  <2> QED
    BY <1>3, <2>1, <2>2, <2>3, <2>4, <2>5, <2>6
    DEF WorkerNext, StartCall, ContinueCall, Reconcile, Observe, Cancel, Submit, Await,
        Lookup, SendCancel, LocalOnly, ledgerVars
<1> QED
  BY <1>3
  DEF ExecutionNext, executionVars, ExchangeNext, Arrive, FillLot, Expire, ExchangeOnly,
      ManualTrade, Restart, LocalOnly, ledgerVars

LEMMA TradingBegins ==
    ASSUME NEW C, Cancelable \subseteq C, FinalInv(C), [ExecutionNext]_executionVars, NEW p \in Orders,
           CanTrade(p)', ~CanTrade(p)
    PROVE  ClaimOrder(p)
<1>1. /\ ExecutionInv /\ Forward(p) /\ IsOpen(p)
      /\ NotYetReserved(p)' => NotYetReserved(p)
      /\ exchange[p].state \in ExchangeState
  BY StepForward, StatusesGoForward
  DEF FinalInv, CanTrade, IsOpen, StatusForward, ExecutionInv, ExecutionTypeOK, ExchangeRow
<1>2. ~Submitting(p) /\ orders[p].status # "pending"
      /\ exchange[p].state \notin Working \cup {"transit"}
  BY <1>1 DEF CanTrade
<1>3. ~Submitting(p)'
  BY <1>1, <1>2 DEF Forward
<1>4. exchange'[p] = exchange[p]
  BY <1>1, <1>2 DEF Forward, Submitting, ExchangeState
<1>5. orders'[p].status = "pending"
  BY <1>2, <1>3, <1>4 DEF CanTrade
<1>6. orders[p].status = "none"
  BY <1>1, <1>2, <1>5 DEF NotYetReserved
<1> QED
  BY <1>1, <1>5, <1>6, NewRowIsClaimed DEF Claimed

\* A leg gets a holder when an opening fill is booked and nothing else of the
\* leg is unresolved.
LEMMA HoldingBegins ==
    ASSUME ExecutionInv, [ExecutionNext]_executionVars, NEW s \in Slots, NEW ow \in Owners,
           Holds(ow, s)', ~Holds(ow, s)
    PROVE  \E p \in Orders : IsOpen(p) /\ Request[p].owner = ow /\ SlotAvailable(s, p)
<1>1. positions \in [Slots -> [Owners -> PositionRow]] /\ positions' # positions
  BY DEF ExecutionInv, LedgerInv, TypeOK, Holds
<1>2. PICK w \in Workers : Book(w) /\ positions' # positions
  BY <1>1
  DEF ExecutionNext, executionVars, WorkerNext, StartCall, ContinueCall, Execute, Reconcile,
      Observe, Cancel, Reserve, Submit, Await, Fail, Lookup, MarkUnknown, Mark, Finish,
      SendCancel, MarkCanceled, ClaimOrder, ReserveSubmission, SetOrderStatus,
      MarkOrderSubmitted, ExchangeNext, Arrive, FillLot, Expire, ExchangeOnly, ManualTrade,
      Restart, LocalOnly, ledgerVars, ownershipVars
<1> DEFINE p == worker[w].order
           q == worker[w].answer.filled
<1>3. p \in Orders /\ ApplyFill(p, q)
  BY <1>2, BusyWorker DEF Book, ExecutionInv, ownershipVars
<1>4. /\ FillAllowed(p, q) /\ q # orders[p].filled
      /\ SetPosition(Request[p].slot, Request[p].owner, PositionAfterFill(p, q - orders[p].filled))
  BY <1>2, <1>3 DEF ApplyFill
<1>5. Request[p].slot = s /\ Request[p].owner = ow
  <2>1. Request[p].slot \in Slots /\ Request[p].owner \in Owners
    BY <1>3, RequestParts
  <2> QED
    BY <1>1, <1>4, <2>1 DEF SetPosition, Holds
<1>6. q \in Nat /\ orders[p].filled \in Nat
  BY <1>2, <1>3, BusyWorker
  DEF Book, ExecutionInv, ExecutionTypeOK, ExchangeSane, LedgerInv, TypeOK, OrderRow
<1> QED
  BY <1>3, <1>4, <1>5, <1>6 DEF FillAllowed

LEMMA ExposureStep ==
    ASSUME NEW C, Cancelable \subseteq C, FinalInv(C), ExposureInv, [ExecutionNext]_executionVars
    PROVE  ExposureInv'
<1>1. ExecutionInv
  BY DEF FinalInv
<1>2. SUFFICES ASSUME NEW o \in Orders, CanTrade(o)'
               PROVE  /\ \A p \in Orders \ {o} :
                            IsOpen(p) /\ Request[p].slot = Request[o].slot => ~CanTrade(p)'
                      /\ \A ow \in Owners \ {Request[o].owner} : ~Holds(ow, Request[o].slot)'
  BY DEF ExposureInv, IsOpen
<1> DEFINE s == Request[o].slot
<1>3. IsOpen(o) /\ s \in Slots
  BY <1>2, RequestParts DEF CanTrade, IsOpen
<1>4. CASE CanTrade(o)
  <2>1. Live(o)
    BY <1>4, CanTradeIsLive
  <2>2. ASSUME NEW p \in Orders \ {o}
        PROVE  ~SlotAvailable(s, p)
    BY <1>3, <2>1 DEF SlotAvailable
  <2>3. ASSUME NEW p \in Orders \ {o}, IsOpen(p), Request[p].slot = s, CanTrade(p)'
        PROVE  FALSE
    <3>1. ~CanTrade(p)
      BY <1>4, <2>3 DEF ExposureInv
    <3>2. ClaimOrder(p)
      BY <2>3, <3>1, TradingBegins
    <3> QED
      BY <2>2, <2>3, <3>2 DEF ClaimOrder, ClaimAllowed
  <2>4. ASSUME NEW ow \in Owners \ {Request[o].owner}, Holds(ow, s)'
        PROVE  FALSE
    <3>1. ~Holds(ow, s)
      BY <1>4, <2>4 DEF ExposureInv
    <3>2. PICK p \in Orders : Request[p].owner = ow /\ SlotAvailable(s, p)
      BY <1>1, <1>3, <2>4, <3>1, HoldingBegins
    <3> QED
      BY <2>2, <2>4, <3>2
  <2> QED
    BY <2>3, <2>4
<1>5. CASE ~CanTrade(o)
  <2>1. ClaimOrder(o)
    BY <1>2, <1>5, TradingBegins
  <2>2. SlotAvailable(s, o) /\ UNCHANGED positions
    BY <1>3, <2>1 DEF ClaimOrder, ClaimAllowed
  <2>3. ASSUME NEW p \in Orders \ {o}, IsOpen(p), Request[p].slot = s, CanTrade(p)'
        PROVE  FALSE
    <3>1. ~CanTrade(p)
      BY <2>2, <2>3, CanTradeIsLive DEF SlotAvailable
    <3>2. ClaimOrder(p)
      BY <2>3, <3>1, TradingBegins
    <3>3. orders'[p] = orders[p]
      BY <1>1, <2>1, <2>3 DEF ClaimOrder, SetOrder, ExecutionInv, LedgerInv, TypeOK
    <3>4. orders'[p].status = "pending" /\ ~Claimed(p)
      BY <1>1, <3>2
      DEF ClaimOrder, ClaimAllowed, SetOrder, NoOrder, ExecutionInv, LedgerInv, TypeOK
    <3> QED
      BY <3>3, <3>4 DEF Claimed
  <2>4. ASSUME NEW ow \in Owners, Holds(ow, s)'
        PROVE  FALSE
    <3>1. Holds(ow, s)
      BY <2>2, <2>4 DEF Holds
    <3>2. positions[s][ow].qty > 0
      BY <1>1, <1>3, <3>1 DEF ExecutionInv, LedgerInv, OpenMeansQuantity, Holds
    <3> QED
      BY <2>2, <3>1, <3>2 DEF SlotAvailable
  <2> QED
    BY <2>3, <2>4
<1> QED
  BY <1>4, <1>5

\* A leg is exposed to one strategy at a time on the exchange, for any number
\* of strategies, orders and goroutines.
THEOREM LegHasOneExposure == ExecutionSpec => []OneExposure
<1>1. ExecutionInit => ExposureInv
  BY DEF ExecutionInit, OwnershipInit, ExposureInv, CanTrade, Submitting, At, Idle, NoOrder,
         Unknown, Working
<1>2. FinalInv(Cancelable) /\ ExposureInv /\ [ExecutionNext]_executionVars => ExposureInv'
  BY ExposureStep
<1>3. ExposureInv => OneExposure
  BY DEF ExposureInv, OneExposure, CanTrade
<1> QED
  BY <1>1, <1>2, <1>3, FinalInvariant, PTL DEF ExecutionSpec

\* The executor keeps its types, for all orders, goroutines and quantities.
THEOREM ExecutionTypes == ExecutionSpec => []ExecutionTypeOK
<1>1. ExecutionInv => ExecutionTypeOK
  BY DEF ExecutionInv
<1> QED
  BY <1>1, ExecutionInvariant, PTL
=============================================================================
