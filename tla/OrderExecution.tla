--------------------------- MODULE OrderExecution ---------------------------
(***************************************************************************)
(* The order executor of service/futuresownership/execution.go over the    *)
(* ledger and the exchange.  Workers are goroutines that run Execute,      *)
(* Reconcile, ApplyObservedExchange or Cancel for one client order id;     *)
(* each call to the ledger or to the exchange is a step, so the answer a   *)
(* worker holds may be out of date when it writes it down.  A restart of   *)
(* the process loses the workers and keeps the ledger.                     *)
(*                                                                         *)
(* The exchange is external: an order it received is worked, filled one    *)
(* lot at a time, and ends FILLED, CANCELED (which stands for EXPIRED too) *)
(* or REJECTED.  In Hedge Mode an order that reduces a leg fills at most   *)
(* what the leg holds.                                                     *)
(***************************************************************************)
EXTENDS FuturesOwnership

CONSTANTS Workers,
          Market,       \* orders of type MARKET
          Repeated,     \* ids a caller derives from its own record, so that it
                        \* may execute the same id again after a restart
          Cancelable,   \* orders some caller of Cancel may choose
          ManualLots    \* net quantities the operator may trade by hand in a leg

ASSUME OrderSetsAssumption ==
    /\ Market \subseteq Orders
    /\ Repeated \subseteq Orders
    /\ Cancelable \subseteq Orders
    /\ ManualLots \subseteq Int

ASSUME FillsAssumption == \A o \in Orders : 0 .. Request[o].qty \subseteq Quantities

VARIABLES exchangeID,   \* exchange_order_id of the order row is known
          exchange,     \* the exchange's own record of each order
          held,         \* what the account holds in each leg, by origin: what
                        \* the strategies' orders made of it, and what the
                        \* operator bought (sold, if negative) by hand
          sent,         \* how many requests to create the order were issued
          worker        \* what each goroutine is doing

ledgerVars == <<orders, positions, exchangeID>>
executionVars == <<orders, positions, exchangeID, exchange, held, sent, worker>>

\* absent: the exchange knows no such order; transit: a request is on its way.
Working == {"NEW", "PARTIALLY_FILLED"}
Ended == {"FILLED", "CANCELED", "REJECTED"}
ExchangeState == {"absent", "transit"} \cup Working \cup Ended
ExchangeRow == [state : ExchangeState, filled : Nat]

Unknown == [state |-> "absent", filled |-> 0]

\* A task is at a step of an order, holds the answer it last received, and
\* remembers why it looks the order up: to finish its own submission, to
\* confirm a market order's quantity, or to reconcile.
Steps == {"reserve", "submit", "await", "fail", "lookup", "unknown",
          "mark", "book", "finish", "cancel", "canceled"}
Task == [step : Steps,
         order : Orders,
         answer : ExchangeRow,
         purpose : {"submit", "confirm", "reconcile"}]
Idle == [step |-> "idle"]

ExecutionTypeOK ==
    /\ TypeOK
    /\ exchangeID \in [Orders -> BOOLEAN]
    /\ exchange \in [Orders -> ExchangeRow]
    /\ held \in [Slots -> [traded : Int, manual : Int]]
    /\ sent \in [Orders -> Nat]
    /\ worker \in [Workers -> Task \cup {Idle}]

ExecutionInit ==
    /\ OwnershipInit
    /\ exchangeID = [o \in Orders |-> FALSE]
    /\ exchange = [o \in Orders |-> Unknown]
    /\ held = [s \in Slots |-> [traded |-> 0, manual |-> 0]]
    /\ sent = [o \in Orders |-> 0]
    /\ worker = [w \in Workers |-> Idle]

-----------------------------------------------------------------------------
At(w, step) == worker[w].step = step
Become(w, task) == worker' = [worker EXCEPT ![w] = task]
Goto(w, step) == Become(w, [worker[w] EXCEPT !.step = step])
Done(w) == Become(w, Idle)

NewTask(step, o, purpose) ==
    [step |-> step, order |-> o, answer |-> Unknown, purpose |-> purpose]

\* A ledger operation of this worker; the exchange is not involved.
LedgerOnly == UNCHANGED <<exchangeID, exchange, held, sent>>

\* A step that only learns or decides something.
LocalOnly == UNCHANGED <<ledgerVars, exchange, held, sent>>

\* Execute claims the order.  If the row is there already and is no longer
\* pending, it is only reconciled.
Execute(w, o) ==
    /\ At(w, "idle")
    /\ \/ /\ ClaimOrder(o)
          /\ Become(w, NewTask("reserve", o, "submit"))
       \/ /\ o \in Repeated /\ Claimed(o)
          /\ Become(w, IF orders[o].status = "pending"
                       THEN NewTask("reserve", o, "submit")
                       ELSE NewTask("lookup", o, "reconcile"))
          /\ UNCHANGED ownershipVars
    /\ LedgerOnly

\* The winner of the compare-and-swap submits, everybody else looks up.
Reserve(w) ==
    LET o == worker[w].order IN
    /\ At(w, "reserve")
    /\ \/ ReserveSubmission(o) /\ Goto(w, "submit")
       \/ /\ orders[o].status # "pending"
          /\ Become(w, NewTask("lookup", o, "reconcile"))
          /\ UNCHANGED ownershipVars
    /\ LedgerOnly

\* Broker.Submit sends the request, unless the request budget defers it.
Submit(w) ==
    LET o == worker[w].order IN
    /\ At(w, "submit")
    /\ \/ /\ Goto(w, "fail")
          /\ UNCHANGED <<exchange, sent>>
       \/ /\ Goto(w, "await")
          /\ sent' = [sent EXCEPT ![o] = @ + 1]
          /\ exchange' = [exchange EXCEPT ![o].state = IF @ = "absent" THEN "transit" ELSE @]
    /\ UNCHANGED <<ledgerVars, held>>

\* What the exchange may have said of an order so far: its present record,
\* or an earlier one.
Snapshots(o) ==
    LET row == exchange[o] IN
    IF row.state \in {"absent", "transit"} THEN {}
    ELSE {row} \cup
         (IF row.state = "REJECTED" THEN {}
          ELSE {[state |-> IF q = 0 THEN "NEW" ELSE "PARTIALLY_FILLED", filled |-> q] :
                    q \in {n \in 0 .. row.filled : n < Request[o].qty}})

\* A receipt of the submission may report an execution without its quantity.
Receipts(o) ==
    Snapshots(o) \cup
    {[row EXCEPT !.filled = 0] :
        row \in {r \in Snapshots(o) : r.state \in {"FILLED", "PARTIALLY_FILLED"}}}

\* Mistake: every error of the submission counts as a refusal.
AwaitErrorIsRefusal(w) ==
    LET o == worker[w].order IN
    /\ At(w, "await")
    /\ \/ \E row \in Receipts(o) :
             Become(w, [worker[w] EXCEPT !.step = "mark", !.answer = row])
       \/ Goto(w, "fail")
    /\ LocalOnly

\* The submission is answered by a receipt, refused by a definite API error,
\* or ends in an error that says nothing about what happened.
Await(w) ==
    LET o == worker[w].order IN
    /\ At(w, "await")
    /\ \/ \E row \in Receipts(o) :
             Become(w, [worker[w] EXCEPT !.step = "mark", !.answer = row])
       \/ exchange[o].state = "REJECTED" /\ Goto(w, "fail")
       \/ Become(w, NewTask("lookup", o, "reconcile"))
    /\ LocalOnly

\* The order was certainly not accepted.
Fail(w) ==
    /\ At(w, "fail")
    /\ SetOrderStatus(worker[w].order, "failed")
    /\ Done(w)
    /\ LedgerOnly

-----------------------------------------------------------------------------
\* Reconcile is called for an order that its caller listed as live, or by a
\* caller that derives the id from its own record and asks whatever the status.
Reconcile(w, o) ==
    /\ At(w, "idle")
    /\ Live(o) \/ (o \in Repeated /\ Claimed(o))
    /\ Become(w, NewTask("lookup", o, "reconcile"))
    /\ LocalOnly

\* The order's row in the user-data mirror, which may lag the exchange.
Observe(w, o) ==
    /\ At(w, "idle")
    /\ Live(o)
    /\ \E row \in Snapshots(o) :
          Become(w, [NewTask("mark", o, "reconcile") EXCEPT !.answer = row])
    /\ LocalOnly

\* Broker.Lookup answers with the present record, or fails: also when the
\* exchange has no such order, which the caller cannot tell from an outage.
Lookup(w) ==
    LET o == worker[w].order IN
    /\ At(w, "lookup")
    /\ \/ /\ exchange[o].state \notin {"absent", "transit"}
          /\ Become(w, [worker[w] EXCEPT !.step = "mark", !.answer = exchange[o]])
       \/ Goto(w, "unknown")
    /\ LocalOnly

MarkUnknown(w) ==
    /\ At(w, "unknown")
    /\ SetOrderStatus(worker[w].order, "reconcile_required")
    /\ Done(w)
    /\ LedgerOnly

\* applyExchange, first step: every answer carries the exchange order id.
Mark(w) ==
    LET o == worker[w].order IN
    /\ At(w, "mark")
    /\ MarkOrderSubmitted(o)
    /\ exchangeID' = [exchangeID EXCEPT ![o] = TRUE]
    /\ Goto(w, IF worker[w].answer.filled > 0 THEN "book" ELSE "finish")
    /\ UNCHANGED <<exchange, held, sent>>

\* Mistake: the order is written and the position left to a later statement.
BookOrderOnly(w) ==
    LET o == worker[w].order
        q == worker[w].answer.filled IN
    /\ At(w, "book")
    /\ \/ /\ FillAllowed(o, q)
          /\ SetOrder(o, [orders[o] EXCEPT !.filled = q, !.status = StatusAfterFill(o, q)])
          /\ UNCHANGED positions
          /\ Goto(w, "finish")
       \/ ~FillAllowed(o, q) /\ Done(w) /\ UNCHANGED ownershipVars
    /\ LedgerOnly

\* Second step: book the cumulative fill; an error ends the call here.
Book(w) ==
    LET o == worker[w].order
        q == worker[w].answer.filled IN
    /\ At(w, "book")
    /\ \/ ApplyFill(o, q) /\ Goto(w, "finish")
       \/ ~FillAllowed(o, q) /\ Done(w) /\ UNCHANGED ownershipVars
    /\ LedgerOnly

\* Mistakes: a FILLED without a quantity is final; the answer's own word is kept.
FinalStatusUnconfirmed(answer) ==
    CASE answer.state = "FILLED"              -> "filled"
      [] answer.state = "PARTIALLY_FILLED"    -> "partially_filled"
      [] answer.state = "CANCELED"            -> "canceled"
      [] answer.state = "REJECTED"            -> "failed"
      [] OTHER                                -> "submitted"

FinalStatusVerbatim(answer) == answer.state

\* The status the answer stands for, if it stands for one.
FinalStatus(answer) ==
    IF answer.state \in {"FILLED", "PARTIALLY_FILLED"} /\ answer.filled = 0
    THEN "reconcile_required"
    ELSE CASE answer.state = "FILLED"           -> "filled"
           [] answer.state = "PARTIALLY_FILLED" -> "partially_filled"
           [] answer.state = "CANCELED"         -> "canceled"
           [] answer.state = "REJECTED"         -> "failed"
           [] OTHER                             -> "submitted"

\* Last step.  A NEW order keeps the status it has.  The submission of a
\* market order then goes on until its quantity is known.
Finish(w) ==
    LET o == worker[w].order
        answer == worker[w].answer IN
    /\ At(w, "finish")
    /\ IF answer.state = "NEW"
       THEN UNCHANGED ownershipVars
       ELSE SetOrderStatus(o, FinalStatus(answer))
    /\ IF answer.filled = 0 /\ worker[w].purpose = "submit" /\ o \in Market
       THEN Become(w, NewTask("lookup", o, "confirm"))
       ELSE IF answer.filled = 0 /\ worker[w].purpose = "confirm"
       THEN Goto(w, "unknown")
       ELSE Done(w)
    /\ LedgerOnly

-----------------------------------------------------------------------------
\* Cancel is called with a row that was live and had an exchange order id.
Cancel(w, o) ==
    /\ At(w, "idle")
    /\ o \in Cancelable
    /\ Live(o) /\ exchangeID[o]
    /\ Become(w, NewTask("cancel", o, "reconcile"))
    /\ LocalOnly

\* Broker.Cancel: the exchange cancels an order it still works, and the answer
\* may be lost; or it refuses, or is not reached.
SendCancel(w) ==
    LET o == worker[w].order IN
    /\ At(w, "cancel")
    /\ \/ /\ exchange[o].state \in Working
          /\ exchange' = [exchange EXCEPT ![o].state = "CANCELED"]
          /\ Goto(w, "canceled") \/ Done(w)
       \/ Done(w) /\ UNCHANGED exchange
    /\ UNCHANGED <<ledgerVars, held, sent>>

MarkCanceled(w) ==
    /\ At(w, "canceled")
    /\ SetOrderStatus(worker[w].order, "canceled")
    /\ Done(w)
    /\ LedgerOnly

\* The process stops and is started again.
Restart ==
    /\ worker' = [w \in Workers |-> Idle]
    /\ LocalOnly

-----------------------------------------------------------------------------
ExchangeOnly == UNCHANGED <<ledgerVars, held, sent, worker>>

\* A request in transit arrives, or is lost.
Arrive(o) ==
    /\ exchange[o].state = "transit"
    /\ \E state \in {"NEW", "REJECTED", "absent"} :
          exchange' = [exchange EXCEPT ![o].state = state]
    /\ ExchangeOnly

\* What the strategies' orders have made of a leg, and its quantity on the
\* account, which is all the exchange reports.
Leg(s) == held[s].traded
Account(s) == Leg(s) + held[s].manual

\* One more lot of a working order is filled.
FillLot(o) ==
    LET q == exchange[o].filled + 1 IN
    /\ exchange[o].state \in Working
    /\ IsOpen(o) \/ Account(Request[o].slot) > 0
    /\ exchange' = [exchange EXCEPT ![o] =
          [state |-> IF q = Request[o].qty THEN "FILLED" ELSE "PARTIALLY_FILLED",
           filled |-> q]]
    /\ held' = [held EXCEPT ![Request[o].slot].traded = IF IsOpen(o) THEN @ + 1 ELSE @ - 1]
    /\ UNCHANGED <<ledgerVars, sent, worker>>

\* The exchange, or the operator on its site, ends a working order.
Expire(o) ==
    /\ exchange[o].state \in Working
    /\ exchange' = [exchange EXCEPT ![o].state = "CANCELED"]
    /\ ExchangeOnly

\* The operator trades the same leg by hand.
ManualTrade(s) ==
    /\ \E q \in ManualLots \ {held[s].manual} :
          /\ Leg(s) + q >= 0
          /\ held' = [held EXCEPT ![s].manual = q]
    /\ UNCHANGED <<ledgerVars, exchange, sent, worker>>

-----------------------------------------------------------------------------
StartCall(w) ==
    \E o \in Orders : Reconcile(w, o) \/ Execute(w, o) \/ Observe(w, o) \/ Cancel(w, o)

ContinueCall(w) ==
    \/ Reserve(w) \/ Submit(w) \/ Await(w) \/ Fail(w)
    \/ Lookup(w) \/ MarkUnknown(w) \/ Mark(w) \/ Book(w) \/ Finish(w)
    \/ SendCancel(w) \/ MarkCanceled(w)

WorkerNext(w) == StartCall(w) \/ ContinueCall(w)

ExchangeNext ==
    \/ \E o \in Orders : Arrive(o) \/ FillLot(o) \/ Expire(o)
    \/ \E s \in Slots : ManualTrade(s)

ExecutionNext == (\E w \in Workers : WorkerNext(w)) \/ ExchangeNext \/ Restart

ExecutionSpec == ExecutionInit /\ [][ExecutionNext]_executionVars

-----------------------------------------------------------------------------
\* A client order id is submitted to the exchange at most once, however often
\* its caller executes it, and whatever other workers and restarts do between
\* the claim and the request.
AtMostOneSubmission == \A o \in Orders : sent[o] <= 1

\* An order whose row is final has ended on the exchange, or never reached it:
\* nothing the ledger has stopped watching can still trade.
FinalMeansEnded ==
    \A o \in Orders :
        orders[o].status \in DoneStatuses =>
            exchange[o].state \in Ended \cup {"absent"}

\* Once the row of an order is final every lot it filled has been booked,
\* whatever out-of-date answers and sparse receipts were applied before and
\* wherever a restart cut an apply short.  CanceledKeepsFills says the same of
\* the orders the program cancels itself.
FinalMeansBooked ==
    \A o \in Orders :
        orders[o].status \in (IF o \in Cancelable THEN {"filled", "failed"}
                             ELSE DoneStatuses) =>
            orders[o].filled = exchange[o].filled

\* An order the program cancels keeps what it had filled: "never finalize the
\* ownership order before the cumulative fill is known; otherwise a restart
\* would permanently skip it" (execution.go:278).  Cancel does not ask.
CanceledKeepsFills ==
    \A o \in Cancelable :
        orders[o].status = "canceled" => orders[o].filled = exchange[o].filled

\* An order that was never sent and is known not to have been stays failed:
\* "Binance definitely did not receive this mutation; do not enter the
\* uncertain-submit lookup/reconcile path" (execution.go:203).  agent_trade
\* looks its order up after any error, and an unanswered lookup revives it.
DeferredStaysFailed ==
    [][\A o \in Orders :
          orders[o].status = "failed" /\ sent[o] = 0 =>
              orders'[o].status = "failed"]_executionVars

\* On the exchange a leg is exposed to one strategy at a time: two opening
\* orders never work in it together, and none works in it while another owner
\* manages a position there.
OneExposure ==
    \A o \in Orders :
        IsOpen(o) /\ exchange[o].state \in Working \cup {"transit"} =>
            /\ \A p \in Orders \ {o} :
                  IsOpen(p) /\ Request[p].slot = Request[o].slot =>
                      exchange[p].state \notin Working \cup {"transit"}
            /\ \A ow \in Owners \ {Request[o].owner} : ~Holds(ow, Request[o].slot)

\* Whatever the executor does to the two tables is one of the ledger's
\* operations, so that what is proved of the ledger holds here.
ImplementsLedger == OwnershipSpec
=============================================================================
