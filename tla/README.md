# TLA+ verification of go_binance_futures

This directory holds TLA+ specifications of the trading core of
go_binance_futures, the TLC configurations that check them, and TLAPS proofs.
Paths such as `service/futuresownership/service.go` are relative to the
repository.

## 1. The system

The program is one Go process with a MySQL or SQLite database. It trades
Binance USDT futures in Hedge Mode (a leg is a symbol with a position side) and
serves a web interface. Several strategies, called owners, trade on the same
account, and so does the operator, by hand, on the exchange's own site.

| Component | State | Operations | Interacts with |
| --- | --- | --- | --- |
| ownership ledger, `service/futuresownership/service.go` | tables `futures_managed_orders`, `futures_managed_positions` | ClaimOrder, ReserveSubmission, MarkOrderSubmitted, SetOrderStatus, ApplyFill, ReconcilePosition, ReconcileObservedPosition | called by all below; one mutex, one transaction each |
| order executor, `execution.go` | none between calls | Execute, Reconcile, ApplyObservedExchange, Cancel | ledger; exchange over REST |
| reconciliation, `reconcile.go` | locals of a round | ReconcileAll, ReconcileOwner, cancelOrphanMutations | ledger, executor, account read; a minute ticker, the start of the process, a web request |
| manual claim, `manual_claim.go` | audit table | ManualClaimPosition | account read, ledger; a web request |
| trade loop, `feature/ownership.go`, `feature/feature.go` | the mirror's tables | order reconciliation, comparison of account and ledger, timeout cancels, exits, protections, every two seconds | ledger, executor, account read, user-data mirror |
| agent trade, `service/agenttrade` | table of proposals and executions | CreateFromTask, EvaluateRisk, Approve, Reject, Execute, Reconcile, Close, EnsureProtection, Expire, SyncClosed | executor; web requests, the minute ticker |
| user-data mirror, `feature/feature_userdata.go` | tables of orders and positions, generation, dirty flag | websocket events, REST snapshots | trade loop |
| lead account, `service/leadaccount` | stream generation, mirror, guard, supervisor | Run, Seed, ApplyEvent, Invalidate, RecordFault, Pause, ExecuteOpen | executor of account `lead`, exchange stream |
| alert pipeline, `service/alertpipeline` | incident map, queue | Emit, process, flushIncident, triage | agent tasks, notifications |
| agent runtime, `agent/*` | task table, checkpoints, limiter | submit, run, checkpoint, cancel, resume | models, tools |
| request budget, `service/binanceapiusage` | weight window | reserve, defer | every REST call |

The rest (indicators, backtest, market data, reports, web layer, spot) computes
or transports; `PROJECT.json` lists every component with its status.

### What is hard

* **Interleaving.** Traders (a loop every two seconds, web requests, agent
  tasks) and the reconciliation loop call the executor at the same time. A call
  is a sequence of ledger operations and exchange requests; only a single ledger
  operation is atomic. Several goroutines compare the account with the ledger: the
  minute's sweep, the same sweep from the web page, and the trade loop.
* **Lost, late and sparse answers.** A submission can be lost before or after
  it reached the exchange; an answer can be applied after a newer one; a receipt
  can say FILLED without a quantity.
* **Crashes.** Everything but the tables is lost at any step.
* **Stale evidence.** The account is read before the ledger is compared with it;
  web handlers read a row, call out, and write the whole row back.
* **Reconnects.** A user stream loses its connection while events, a snapshot and
  a handler of the connection before are still under way.
* **The operator** trades the same legs, and the exchange reports one quantity.

### What makes each component correct

* Ledger: a leg has one owner; a managed quantity never grows except by a booked
  opening fill or an operator's claim of an unmanaged leg.
* Executor: an order is submitted once; a row is final only when the exchange is
  done with the order and everything it filled is booked; a leg is exposed to
  one strategy at a time.
* Reconciliation: it releases a leg eventually when it is flat, settles every order
  that ended, adopts nothing, and should not let go of a leg that is held (it does,
  see `stale_shrink` in section 4).
* Agent trade: the entry of a proposal is sent at most once and only when
  approved; what was sent can be recovered after a crash; what is reported as
  executed was accepted; a position has one stop and one close at work.
* Lead account: the mirror serves only while its connection does and never moves
  back; an open is sent only if no pause, hold or stream fault was reported since its
  check; a temporary fault should clear with fresh evidence (it does not, see
  `lead_fault`); no call is stuck in the adapter's mutex.
* Alert pipeline: one task per incident in its cooldown; nothing admitted is
  dropped silently.

## 2. Modules

| Module | Models | Extends |
| --- | --- | --- |
| `SlotOwnership` | abstract: who holds each slot; acquire and release | |
| `FuturesOwnership` | the ledger, callers arbitrary | |
| `OrderExecution` | the executor's calls, the exchange, the operator, restarts | FuturesOwnership |
| `OwnershipReconcile` | the goroutines that compare account and ledger, beside traders | OrderExecution |
| `AgentTrade` | trade proposals: web requests, the sync of closed proposals, ledger loop | |
| `LeadMirror` | the lead account's user stream and mirror | |
| `LeadSupervisor` | supervisor, guard and opening path around the mirror | LeadMirror |
| `FuturesOwnershipProofs`, `OrderExecutionProofs`, `ExecutionFinalProofs` | theorems about ledger and executor | |
| `OwnershipReconcileProofs` | theorems about the reconciliation | |
| `AgentTradeProofs`, `AgentExitsProofs` | theorems about proposals | |
| `LeadMirrorProofs`, `LeadSupervisorProofs` | theorems about the lead account | |
| `MCOwnership`, `MCExecution`, `MCReconcile`, `MCAgent`, `MCLead` | instances for TLC | |

`FuturesOwnership` implements `SlotOwnership` (refinement mapping `SlotHolder`).
`OrderExecution` and `OwnershipReconcile` implement `FuturesOwnership`
(`ImplementsLedger`): whatever the executor does to the tables is one ledger
operation, so what is proved of the ledger with arbitrary callers holds for the
program. `LeadSupervisor` composes with `LeadMirror` step by step: the stream's
callbacks (`CallReady`, `CallFault`, `StreamReturns`) are joined with what the
supervisor does in them. `AgentTrade` uses the executor one call at a time and
states of it only what `OrderExecution` shows.

### FuturesOwnership

`orders[o]` is the row of client order id `o` (status, filled quantity), `none`
when there is no row; what the id asks for (owner, leg, intent, quantity) is the
constant `Request`, because the row never changes it. `positions[s][ow]` is the
newest position row of owner `ow` in slot `s`. Each operation is one action: it
runs under `mutationMu`, in a transaction when it writes both tables, or is one
UPDATE. ApplyFill reads the row and writes it whole while `updateOrder` takes no
lock; an UPDATE between the two is overwritten, status included, which equals the
UPDATE happening just before ApplyFill (only `last_reconciled_at` could differ).
The compare-and-swap of ReconcileObservedPosition cannot fail inside one process
because the row is loaded under the same mutex; the program runs as one process.
`aged` stands for "last_reconciled_at is at least ten seconds old" and the action
`Age` lets that time pass at any moment.

### OrderExecution

Each worker is a goroutine inside a call; `step` is the place in the call and
`answer` what the exchange last told it, so a worker can write down an answer
that is out of date. `Execute` (claim), `Reserve`, `Submit`, `Await`, `Lookup`,
`Mark`, `Book`, `Finish`, `MarkUnknown`, `Fail`, `Cancel`, `SendCancel` and
`MarkCanceled` are the steps between two calls to ledger or exchange. The
exchange is external: orders in transit arrive, are rejected or are lost; working
orders fill lot by lot, end, or are cancelled; EXPIRED is folded into CANCELED.
`Receipts` are the answers to a submission, including a FILLED without quantity
(the code has a branch for it); lookups answer with the present record or fail.
The mirror (`Observe`) may return any earlier record. `Restart` drops all workers.
`ManualTrade` is the operator. `held` is what the account holds in a leg by origin: `traded`,
the balance of what the strategies' orders filled (`Leg`), and `manual`, what the
operator bought or, if negative, sold; the exchange shows their sum (`Account`).

### OwnershipReconcile

An *observer* is a goroutine that compares the account with the ledger. There are
two kinds, and any number of both run beside each other and beside the traders:

* A *sweep* is `reconcile.go`: the minute's ticker (main.go:443), the start of the
  process (main.go:246) and the web endpoint (`controllers/agent_trade.go:252`) run
  it. For each owner it looks up the listed orders, reads the managed legs and the
  account, compares leg by leg and cancels orphaned reducing orders. An error ends
  the round for the owners left.
* A *trade loop* is syncStrategyExitPositions (`feature/ownership.go:34-157`), every
  two seconds. It has read the account before it begins (`local`) and reads it again
  if a leg shows less than is managed (`Covered`). It looks orders up, from the
  mirror if it can, and asks for unresolved opens for `auto_strategy` alone (`AutoStrategy`,
  `Listed`); the legs of `new_coin_rush` and `funding_rate` are compared without that
  question. It passes over a position that is gone, and cancels nothing.

`pass[ob]` holds the locals of one observer: the owners left, the orders listed, the
managed legs still to compare, the account quantities. Every action is one call to
the database or the exchange; the executor calls of an observer are made by the
worker of the same name, and the trade loop trades between its rounds (`StartNext`).
The check for unresolved opens reads the rows of listed opening orders one after the
other; here `CheckOpens` reads them in one step, only for a leg the account shows as flat
(for any other the answer is not used), and the statuses move between the check and the
comparison as they do in the code. Legs are compared in an arbitrary fixed order. That
`funding_rate` skips rows of another source (ownership.go:56) is left out, and the
quantities a trade loop begins with are those of the account at that moment, so they
age only until they are compared; a mirror that lags already then is left out.

### AgentTrade

`status[p]` and `execution[p]` are the proposal row and the execution row;
`order` the managed orders of a proposal (one entry, numbered stops and closes);
`holder`, `managed`, `past` the position rows of the leg. Quantities are lots: an
order has the quantity its row was claimed for (`asked`), the one it was sent with
(`size`), what it filled and what of that is booked, so an entry can be booked in
parts and open a position that was closed once more (`Book`). What the account
holds is left open: no read of it is sure to be fresh, and lots of the operator may be
among it. A caller is a web request; its `step` names the next read or write of
the handler, `was` is the status in the row it read (it writes the whole row
back), `then` what follows a passed risk check, `n` the attempt it chose, `qty` its lots,
`drop` the stops it has to cancel before: `PickStop` and `ResizeStop` take a working stop
of the same quantity again and cancel, one by one, those of another, or give up.
CreateFromTask, the risk endpoint, Approve, Reject, Execute, Reconcile and Close
start a request; `Abandon` ends one anywhere, which is an error of the database, a
cancelled context or a crash. Every read and every write is a step of its own;
only Execute and Reconcile read proposal and execution row together. A call of
the executor is one step with the outcomes `OrderExecution` allows. Time to live,
kill switch, risk formulas and account reads may have any outcome. `Loop...` is the
minute's reconciliation and `Sync...` SyncClosedManagedProposals, list by list and
row by row. All proposals are for the same leg, the case in which they interfere. The
process starts with proposals in any status of `Stored`, an executed one with its position.

### LeadMirror and LeadSupervisor

`socket[g]` is the websocket of generation `g` with the events on the way, the
flags `connected` and `early` its handler closes over, and the handler that runs.
`stream.step` is the place in LeadUserStream.runGeneration: listen key, dial, the two REST
reads of the seed, the installation, the flag, the look at the early events. The
contents of the account are a version per part; `evidence` is what the mirror
compares an event's time with. `adapter` is the execution adapter (its mutex and
`pendingReconcile`), `guard` the runtime guard, `opener` the call of ExecuteOpen in
the mutex, `supervisor` the call of Run with its recovery proof. Handlers of a
closed connection may finish later. `Permits` is every refusal of checkOpenLocked before it
reads: the hold, the emergency latch (`guard.latched`, set by LatchLeadEmergencyPause at
any moment without the mutex, never reset), LeadDurableOpenGate, and the guard. The gates
of `riskRunState` are open, as in the tests' fixtures, and `Simulated` says whether the
adapter is such a fixture: in any other LeadDurableOpenGate refuses, and no production code
opens the gates, so in a production build ExecuteOpen refuses.

## 3. Runs

| Run | Question | Bounds |
| --- | --- | --- |
| `ledger` | can arbitrary callers break the ledger? | 2 owners, 1 leg, 3 orders of 2 lots (both open, one also closes), quantities 0..2 |
| `execution` | do two goroutines, lost messages and restarts break the executor? | 2 workers, 2 owners, 3 orders (a opens and closes 2 lots, b opens 1), one order repeated, one cancelable; unlimited restarts |
| `cancel` | violation: Cancel loses a fill | as `execution` |
| `deferred` | violation: an order that was never sent becomes unresolved again | as `execution`, 1 worker |
| `reconcile` | is every ended order settled and a flat leg released, with nothing done but ledger operations? (safety and liveness) | 2 owners of which one opens and closes (1 lot each), the sweep (visiting the other owner first) and the trade loop, which also trades; the operator sells and buys back; 1 restart |
| `stale_shrink` | violation: a stale account quantity shrinks a position | 1 opening order of 2 lots, the sweep and the trade loop |
| `manual_lots` | violation: reducing orders together exceed the position | open, close, stop loss of 1 lot, the operator buys 1 lot |
| `lead` | do reconnects, late events, faults, opens and pauses break mirror or guard? (safety and liveness) | 1 holding with 1 change, 1 order, 1 open, 6 connections, 2 mishaps, 2 calls of Run |
| `lead_fault` | violation: the fault of a lost connection is never cleared | as `lead`, 3 connections, 1 mishap, 1 call of Run |
| `agent` | do racing requests, the loop and errors break a proposal? | 1 proposal of 2 lots, 2 requests at a time and 3 in a run, 2 stops, 2 closes |
| `agent_stop` | violation: a dead stop counts as protection | as `agent`, 1 request at a time |
| `agent_sync` | violation: a proposal is closed while its position is open again | as `agent_stop` |

One leg is enough: every query of the service filters on the leg. Two lots give
partial fills, the only distinction the code draws between quantities besides
equality and zero. Two workers give every race between two calls; the code never
relates three. Three orders of `execution` let a leg be opened again after a close.
`MaxRestarts` is the only counter bound of these runs; the safety of restarts is in
`execution`, where they are unbounded.

`reconcile`: in the passing run the trading owner is not `auto_strategy`, so the trade
loop compares its leg without looking at its orders: the sweep alone has to settle
them, and the loop's comparisons are as careless as the code allows. The runs
`stale_shrink` and `manual_lots` have the other kind, the loop that looks up and asks
first, to show that the loss does not depend on the missing question. The sweep
visits first an owner that has nothing, so that going on to the next owner matters.
A sweep by the web page has the steps of the minute's; the theorems have any number.

`lead`: an order has three changes, a holding one, so events of two parts can
overtake the snapshot. A behaviour is either `Eventful` (the account changes while
the stream connects; all mishaps are used up) or `Faulty` (the account is quiet;
calls fail, connections break, an order is opened), because events and opens meet
only in the stream's faults, which both kinds have or can have. Six connections
are more than two mishaps and the account's four changes can use between two
installed snapshots of a run. `agent`: three requests cover create or
approve, execute, and a third that reconciles, protects or closes beside the second;
two attempts let a stop be replaced once. The two requests are interchangeable
and the run checks safety only, so the symmetry is sound. The theorems of section 5
have none of these bounds.

Deadlock is checked in the runs of the ledger, executor and reconciliation (a
restart or the ticker can always happen). In the runs of lead account and agent trade
it is not: the bounds on connections, calls of Run and requests make a behaviour stop.

Fairness. Reconciliation (`FairReconcileSpec`): the minute's ticker and its calls go on
(weak fairness on its steps and on its executor calls), time passes, and its read of the
account, or its lookup of an order the exchange knows, does not fail for ever when it is
tried for ever (strong fairness). `loopRun` restarts the sweep every minute and its HTTP
calls have timeouts. Nothing is assumed of traders, of the trade loop, which the
operator may switch off, of web requests, fills or the operator. Lead account
(`LeadFairness`): the goroutines of stream, opener, supervisor and handlers run on (weak
fairness: their requests have timeouts), and a waiter of the adapter's mutex is not
passed over for ever (strong fairness: a Go mutex hands itself to a waiter after a
millisecond). Nothing is assumed of the exchange, of callers of ExecuteOpen or of the
operator; failures are bounded by `MaxMishaps`, so `StreamRecovers` says that the stream
recovers once failures cease.

Every property of a passing run has a mutant: a plausible mistake, defined next
to the operation it would replace (comment "Mistake:"), with which TLC finds the
property violated.

## 4. Findings

* `cancel`: Executor.Cancel makes a row final without asking what it filled. The lots
  it filled meanwhile belong to nobody, and the leg's other lots may be released by
  the next zeros.
* `deferred`: agent_trade looks its order up after every error, also after one that
  means the order was never sent; the unanswered lookup turns the failed row into
  an unresolved one, which blocks the leg and which nothing can settle.
* `stale_shrink`: a fill booked between the account read and the comparison is
  shrunk away; the compare-and-swap that is meant to prevent it compares with a
  row loaded in the same call. In the run the sweep has read the account and the trade
  loop books the fill. A closing fill that the snapshot already contains can be
  subtracted twice in the same way, and a leg can be released: the two zeros may be
  those of two observers that read the account at the same early moment, and neither
  the ten seconds nor the check for unresolved opens (of listed orders, and not at all
  in `feature/ownership.go:42-70`) excludes that lots were filled since. The same
  invariant, `LegsStayManaged`, speaks of both, and no property claims that a release
  is true.
* `manual_lots`: a close and a stop loss together sell what the operator bought.
* `agent_stop`: a stop the exchange has ended still counts as protection while its
  row does not say so, and the proposal is reported as protected.
* `lead_fault`: the fault of a lost connection is meant to be transient, and only an
  open's check with fresh evidence clears it; but that check is refused while any fault
  is recorded. Until the process ends no open passes.
* `agent_sync`: the sync closes a proposal whose position is open again, because the
  rest of its entry was booked between the sync's list and its save.

The quotes are in `PROJECT.json`. Weaker observations, which the models contain and
no run calls a violation because the code promises nothing else:

* `stream.go:153-156` against `188-194`: a handler that has read `connected` as false
  may raise the flag after the stream looked at it, and its event is lost.
  `AtMostOneOverlooked` shows that it is one event per connection at most.
* `executor.go:154-158` against `management.go:32` (leadaccount): the emergency latch is
  set beside the adapter's mutex and looked at once, by the first check. An open that
  has passed it is still sent. The README of the program calls the latch a one-way
  process-local stop (README.EN.md:155) and does not say that it waits for an open
  under way, as PauseOpens does, so `SubmitsUndisturbed` excludes the latch.
* `execution.go:250` (futuresownership): an opening order that never reached the exchange
  and was looked up stays unresolved for ever. Its leg is blocked for new orders, and
  the fill of another opening order that works there already is not booked
  meanwhile: `EndedOrdersSettle` has this exception (`OtherOpenUnresolved`).
* `executor.go:123-131` (leadaccount): a recovery proof serves the whole call of Run, also
  for a snapshot seeded much later than the recovery.
* `agenttrade/service.go:145`: the risk endpoint evaluates a proposal of any status and
  writes `awaiting_approval` or `risk_rejected` over it. The entry is still sent
  once: the execution row remembers.
* `agenttrade/lifecycle.go:145`: a close trusts one account read; an account that shows
  no position yet releases the managed one.
* `agenttrade/service.go:416`: a market entry can be accepted and not yet filled when
  its proposal is protected; without a position no stop is placed until somebody
  asks again.

## 5. Proofs

The theorems hold for every value of the constants that satisfies the named
assumptions; the runs of section 3 check the same formulas on small instances.

**Ledger** (`FuturesOwnershipProofs`; `RequestAssumption`, `QuantitiesAssumption`,
`NobodyAssumption`). `LedgerInvariant`: types, "a row is open exactly while it holds a
quantity" (`OpenRowsHoldQuantity`), and slot exclusivity (`SlotIsExclusive`).
Exclusivity is not inductive alone: ensureSlotAvailable tests the quantity of the
other rows while an opening fill tests the status of its own, so it needs the
equivalence of the two. `SlotRefinement`: each ledger step changes one row
(`LedgerStep`), which is an acquire, a release or a stutter of the slot's holder
(`HolderStep`). `ManualIncreaseIsNeverAdopted`: the growth property.

**Executor** (`OrderExecutionProofs`, `ExecutionFinalProofs`; also
`OrderSetsAssumption`, `FillsAssumption`). `ExecutionInvariant`: types, and answers and
records that never exceed the order. `ExecutionRefinesLedger`: every step is a
ledger step or leaves the tables, so `ExecutionKeepsSlotExclusive` follows.
`SubmittedOnce`: a row leaves `pending` once and for all before its request is sent, and
one goroutine gets through (`SubmissionInv`). `FinalInvariant` adds what a goroutine may
rely on at each place (`PlaceInv`): where a submission is about to be sent the
exchange knows nothing; an answer, once true, bounds what the exchange says later,
and fixes it if the order had ended (`Tells`); at the last step the answer is booked.
With it a row that becomes final agrees with the exchange, and none that is final
can be disturbed, as no step moves an ended order or sends a second request:
`FinalHasEnded`, `FinalIsBooked`. `LegHasOneExposure` counts an order as exposed from
its claim on (`CanTrade`): such an order is live in the ledger, hence blocks every
other claim and every first fill of the leg.

**Proposals** (`AgentTradeProofs`; `AgentAssumption`). `AgentInv` has five parts:
`AgentTypeOK`; `LedgerInv` (a row that was never reserved stands for nothing on the
exchange, an entry was sent once exactly if the exchange knows it, positions come from
booked entries); `RowsInv` (an approved row was approved; a claimed entry was approved
and has an execution row; an executed one is known to the exchange); `CallersInv` (the
same for the stale row each request holds, at each of its steps); `SyncInv` (what the
sync listed had a position, hence an entry known to the exchange). Without `CallersInv`
a write of an old row could forge an approval. It gives `AgentTypes`, `EntryOnce`,
`NothingUnapproved`, `TradesAreTraced`, `ExecutedWasAccepted`. `AgentExitsProofs` adds
that stops are numbered in order, that all before one with a row are dead, that all
before the one a request has chosen are dead but for those it is about to cancel
(`ChosenInv`, with the resize of lifecycle.go:112-117), and that of two closes one is
dead, which gives `OneExitAtWork`.

**Lead account** (`LeadMirrorProofs`, `LeadSupervisorProofs`; `PartsDisjoint`,
`MirrorBounds`, `RunsBound`). `MirrorInv` ties readiness to the place of the stream and
to its connection, and is proved for the mirror alone (`MirrorTypes`,
`MirrorReadyServed`, `MirrorMovesForward`) and again for the composition, whose steps are
mirror steps or leave the mirror (`LeadReadyServed`, `LeadMirrorMovesForward`). `LeadInv`
adds who holds the mutex at which step, that a hold is never without its fault, and
that between its evidence and its submission an open finds no fault recorded but a rate
limit: `LeadTypes`, `LeadHoldIsReported`, `LeadReleasedByOwnProof`, `LeadSubmitsUndisturbed`.
The last one does not speak of the emergency latch (section 4).

`AtMostOneOverlooked` (`MirrorOverlooksOne`, `LeadOverlooksOne`) speaks of the moment
when all events are handled, so its invariant `CatchUpInv` says for every moment what
is still due. `Delivers`: the last change of a part is the account's present version
and is queued or in the handler, in order. `DialledInv`: the handler applies nothing
before Connect. `CaughtInv`: until the stream looks at the early events, every part
read is current, or a change of it is coming, or an early one has been noticed;
afterwards at most one part is neither held nor coming, that of the event whose
handler has read `connected` as false and not yet raised the flag. One handler runs
per connection, hence one part.

**Reconciliation** (`OwnershipReconcileProofs`; also `ReconcileAssumption`), for any number
of sweeps and trade loops beside each other. A step of the whole is a step of the
executor, or an observer takes up an order the executor would not have been called for
(its row may have become final since it was listed), or a comparison or ten seconds
change one position row (`CoreNext`). A comparison only shrinks or releases, which
disturbs neither what a goroutine relies on nor the exposure of a leg. So
`ReconcileInvariant` carries over what was proved of the executor: `FinalInv` and
`ExposureInv` with, as the orders somebody may cancel, also every reducing one, because
cancelOrphanMutations cancels those (the parameter of `FinalInv`). It gives
`ReconcileTypes`, `LoopKeepsPromises`, `OpensAreBooked` (`FinalMeansBooked` for the orders
nobody cancels; for the others the sweep loses lots like every caller of Cancel,
section 4) and `ReconcileRefinesLedger`, which assumes `Quantities = Nat`: the set bounds
what TLC enumerates, and an account may show any quantity.

That a released leg is empty is not among the theorems, because it is not so.

Only model-checked: liveness (`EndedOrdersSettle`, `FlatLegsAreReleased`,
`OpenEventuallyReturns`, `StreamRecovers`), which is outside the prover's reach because
fairness speaks of ENABLED. Every safety property of a passing run is a theorem.

## 6. Not modelled

In the modelled components: prices and entry prices; formatting and parsing of
quantities (a quantity is a number of lots, `qtyEpsilon` absorbs rounding);
validation of requests and of the account binding; the lead account's rows in the
ledger, which share its code under another account id and never meet the main
account's; database errors in the executor, which end a call like a failed request;
`SuspendPosition`, which has no caller; the take profit of a proposal, whose errors
are only a warning; ExecuteManagedClose, credentials and management handlers of
the lead account; the reads of the manual claim handler, which only refuse.

The user-data mirror of the main account appears as answers that may lag
(`Observe`). Its own rule, a snapshot wins unless a row is newer than its start
less two seconds, depends on two clocks and accepts the wrong order within the
tolerance, so there is no property to state. Other callers that release at once
(ReconcilePosition from a proposal's close, lifecycle.go:147, and from the
funding-rate page, `controllers/eatRate.go:382`) and the operator's claim are
operations of `FuturesOwnership`, whose callers are arbitrary, and not steps of
`OwnershipReconcile`.

Not modelled at all: the alert pipeline (it drops what it cannot take, neither
trades nor persists), the opportunity pipeline and the agent runtime (they reach
trading only through CreateFromTask, which `AgentTrade` has), the request budget's
weight window (wall clock counting; a deferred submission is an outcome of
`Submit`), transport, indicators, backtest, reports, spot trading, notifications and
the web layer. `PROJECT.json` lists each with its reason.

## 7. Plan

Done, in this order: ledger, executor, reconciliation; agent trade proposals; lead
account; the proofs of section 5. What a later extension could add: the alert pipeline's
cooldown and queue, the conditional take profit of proposals, and instances of the
reconciliation with two trading owners or with a sweep from the web page beside the
minute's (the theorems hold for any number of owners and observers).
