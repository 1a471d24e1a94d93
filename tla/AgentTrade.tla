------------------------------ MODULE AgentTrade ------------------------------
(***************************************************************************)
(* The trade proposals of service/agenttrade: what the web handlers do to  *)
(* a proposal and its execution row, step by step, and beside them the     *)
(* reconciliation of the ownership ledger and the exchange.  All proposals *)
(* are for one leg, symbol and side; quantities are counted in lots.  What *)
(* the account holds of the leg is left open: it may hold lots of the      *)
(* operator, and no read of it is sure to be fresh.                        *)
(*                                                                         *)
(* A handler reads a row, calls out and writes the whole row back, so      *)
(* every read and every write is a step of its own.  A call of the managed *)
(* order executor is one step here: OrderExecution has its inner steps.    *)
(***************************************************************************)
EXTENDS Naturals, FiniteSets

CONSTANTS Proposals,
          Callers,      \* concurrent web requests
          Stored,       \* statuses a proposal may have when the run begins
          Lots,         \* the quantity of an entry
          MaxTries,     \* bound: stops, and closes, of one proposal
          MaxCalls,     \* bound: how many requests a run serves
          Nobody

ASSUME AgentAssumption ==
    /\ Nobody \notin Proposals
    /\ Stored \subseteq {"none", "awaiting_approval", "approved", "executed"}
    /\ Lots \in Nat \ {0}
    /\ MaxTries \in Nat \ {0} /\ MaxCalls \in Nat

VARIABLES status,       \* the proposal row
          execution,    \* the execution row
          order,        \* managed orders: their row, and what the exchange did
          holder,       \* the proposal named by the open position of the leg
          managed,      \* its lots
          past,         \* the proposals that have a position row
          caller,       \* what each request is doing
          calls,
          sync,         \* SyncClosedManagedProposals
          approvals,    \* history: the proposals that were approved
          sends         \* history: how often an entry was accepted

storeVars == <<status, execution>>
positionVars == <<holder, managed, past>>
exchangeVars == <<order, positionVars, sends>>
agentVars == <<storeVars, exchangeVars, caller, calls, sync, approvals>>

Statuses == {"none", "risk_rejected", "awaiting_approval", "approved", "rejected",
             "executing", "executed", "execution_uncertain", "protection_failed",
             "closed", "expired"}

ExecutionStatuses == {"none", "executing", "executed", "execution_failed", "execution_uncertain"}

\* Between broker submission and closure no decision is taken any more.
Decided == {"executed", "executing", "execution_uncertain", "protection_failed", "closed"}
Carried == {"executed", "protection_failed"}

OrderIDs == [p : Proposals, kind : {"entry"}, n : {1}]
            \cup [p : Proposals, kind : {"stop", "close"}, n : 1 .. MaxTries]

Entry(p) == [p |-> p, kind |-> "entry", n |-> 1]
Exit(p, kind, n) == [p |-> p, kind |-> kind, n |-> n]

\* row, asked and booked are in the ledger, the last two as requested and filled
\* quantity; at, size and filled are what became of the order on the exchange.
OrderRow == [row : {"none", "pending", "live", "done"},
             asked : Nat, booked : Nat,
             at : {"unsent", "working", "filled", "ended"},
             size : Nat, filled : Nat]

NoOrder == [row |-> "none", asked |-> 0, booked |-> 0, at |-> "unsent", size |-> 0, filled |-> 0]

Steps == {"idle", "evaluate", "check", "pass", "fail", "approve", "reject",
          "claim", "reload", "record", "block", "blocked", "submit",
          "lookup", "mark", "marked", "doubt", "doubted", "reconcile",
          "protect", "pick_stop", "resize", "stop", "protected", "unprotected",
          "close", "quantity", "pick_close", "again", "submit_close", "closing",
          "release", "drop", "cleanup", "save_closed"}

\* then: what follows a passed risk check; was: the status in the row that the
\* check began with; n: the attempt chosen; qty: its lots; drop: the stops to
\* cancel before.
Caller == [step : Steps, p : Proposals \cup {Nobody},
           then : {"nothing", "approve", "claim"},
           was : Statuses, n : 0 .. MaxTries,
           qty : Nat, drop : SUBSET (1 .. MaxTries)]

Working(step, p) ==
    [step |-> step, p |-> p, then |-> "nothing", was |-> "none",
     n |-> 0, qty |-> 0, drop |-> {}]
Idle == Working("idle", Nobody)

SyncRun == [step : {"idle", "read", "save"}, gone : SUBSET Proposals, todo : SUBSET Proposals]
NoSync == [step |-> "idle", gone |-> {}, todo |-> {}]

AgentTypeOK ==
    /\ status \in [Proposals -> Statuses]
    /\ execution \in [Proposals -> ExecutionStatuses]
    /\ order \in [OrderIDs -> OrderRow]
    /\ holder \in Proposals \cup {Nobody}
    /\ past \in SUBSET Proposals
    /\ managed \in Nat
    /\ caller \in [Callers -> Caller]
    /\ calls \in 0 .. MaxCalls
    /\ sync \in SyncRun
    /\ approvals \in SUBSET Proposals
    /\ sends \in [Proposals -> Nat]

BookedEntry == [row |-> "done", asked |-> Lots, booked |-> Lots,
                at |-> "filled", size |-> Lots, filled |-> Lots]

\* The process starts on the rows it finds: no call is under way, and a proposal
\* that is executed has the position of the leg.
AgentInit ==
    /\ status \in [Proposals -> Stored]
    /\ holder \in Proposals \cup {Nobody}
    /\ \A p \in Proposals : status[p] = "executed" <=> p = holder
    /\ execution = [p \in Proposals |-> IF p = holder THEN "executed" ELSE "none"]
    /\ order = [o \in OrderIDs |-> IF o = Entry(holder) THEN BookedEntry ELSE NoOrder]
    /\ managed = IF holder = Nobody THEN 0 ELSE Lots
    /\ past = {holder} \ {Nobody}
    /\ caller = [w \in Callers |-> Idle]
    /\ calls = 0
    /\ sync = NoSync
    /\ approvals = {p \in Proposals : status[p] \in {"approved", "executed"}}
    /\ sends = [p \in Proposals |-> IF p = holder THEN 1 ELSE 0]

-----------------------------------------------------------------------------
\* The managed orders, as service/futuresownership treats them.
Unresolved(o) == order[o].row \in {"pending", "live"}
IsEntry(o) == o.kind = "entry"
OfKind(p, kind) == {o \in OrderIDs : o.p = p /\ o.kind = kind}

SlotFree(o) ==
    /\ holder = Nobody
    /\ \A e \in OrderIDs \ {o} : IsEntry(e) => ~Unresolved(e)

Claimable(o, qty) ==
    CASE o.kind = "entry" -> SlotFree(o)
      [] o.kind = "stop" -> holder # Nobody /\ qty <= managed
      [] o.kind = "close" ->
            /\ holder # Nobody /\ qty <= managed
            /\ \A c \in OrderIDs : c.kind = "close" => ~Unresolved(c)

SetManaged(lots) ==
    /\ managed' = lots
    /\ holder' = IF lots = 0 THEN Nobody ELSE holder
    /\ UNCHANGED past

\* Lots that the ledger did not know of: an entry adds them to the position that
\* is open or, if the slot is free, opens one; an exit takes them away.
Book(o, lots) ==
    \/ /\ IsEntry(o) /\ holder # Nobody
       /\ managed' = managed + lots /\ UNCHANGED <<holder, past>>
    \/ /\ IsEntry(o) /\ SlotFree(o)
       /\ holder' = o.p /\ managed' = lots /\ past' = past \cup {o.p}
    \/ /\ ~IsEntry(o) /\ holder # Nobody
       /\ SetManaged(IF lots < managed THEN managed - lots ELSE 0)

RowFor(at) == IF at = "working" THEN "live" ELSE "done"

\* applyExchange: the answer of the exchange enters the ledger, its fills as far
\* as they are not booked.
Apply(o) ==
    /\ IF order[o].filled > order[o].booked
       THEN Book(o, order[o].filled - order[o].booked) ELSE UNCHANGED positionVars
    /\ order' = [order EXCEPT ![o].row = RowFor(order[o].at), ![o].booked = order[o].filled]

SetRow(o, row, at) ==
    /\ order' = [order EXCEPT ![o].row = row, ![o].at = at]
    /\ UNCHANGED positionVars

\* Executor.Reconcile finds the order and books it, or returns an error: the
\* order is not found, the call fails, or the fill cannot be booked.
LookUpFinds(o) ==
    /\ order[o].row # "none" /\ order[o].at # "unsent"
    /\ Apply(o)
    /\ UNCHANGED sends

LookUpFails(o) ==
    /\ IF order[o].row = "none" THEN UNCHANGED <<order, positionVars>>
       ELSE SetRow(o, "live", order[o].at)
    /\ UNCHANGED sends

\* Nothing was sent for the order so far and this call may send it, with its own
\* quantity even if the row was claimed for another.
MaySend(o, qty) ==
    \/ order[o].row = "none" /\ Claimable(o, qty)
    \/ order[o].row = "pending"

Sent(o, qty, row, at, lots) ==
    order' = [order EXCEPT ![o] =
                [row |-> row, asked |-> IF @.row = "none" THEN qty ELSE @.asked, booked |-> lots,
                 at |-> at, size |-> qty, filled |-> lots]]

CountSend(o) ==
    sends' = IF IsEntry(o) THEN [sends EXCEPT ![o.p] = @ + 1] ELSE sends

\* Executor.Execute succeeds: a stop is accepted, a market order is filled, or a
\* part of it, and booked, or an order sent before is found in whatever state.
ExecuteSucceeds(o, qty) ==
    \/ /\ MaySend(o, qty) /\ o.kind = "stop"
       /\ Sent(o, qty, "live", "working", 0)
       /\ UNCHANGED <<positionVars, sends>>
    \/ /\ MaySend(o, qty) /\ o.kind # "stop"
       /\ \E lots \in 1 .. qty, at \in {"working", "filled", "ended"} :
             /\ at = "filled" <=> lots = qty
             /\ Book(o, lots) /\ Sent(o, qty, RowFor(at), at, lots)
       /\ CountSend(o)
    \/ order[o].row \in {"live", "done"} /\ LookUpFinds(o)

\* It returns an error: the order is not claimed, or not reserved, it is
\* refused or deferred, it is lost on the way, or it is accepted and neither
\* answer nor fill is seen in time.
ExecuteFails(o, qty) ==
    \/ order[o].row = "none" /\ UNCHANGED exchangeVars
    \/ /\ MaySend(o, qty)
       /\ \E row \in {"pending", "done", "live"} : Sent(o, qty, row, "unsent", 0)
       /\ UNCHANGED <<positionVars, sends>>
    \/ /\ MaySend(o, qty)
       /\ Sent(o, qty, "live", "working", 0)
       /\ CountSend(o) /\ UNCHANGED positionVars
    \/ order[o].row \in {"live", "done"} /\ LookUpFails(o)

-----------------------------------------------------------------------------
At(w, step) == caller[w].step = step
Of(w) == caller[w].p

Goes(w, step) == caller' = [caller EXCEPT ![w] = Working(step, Of(w))]
Keeps(w, step) == caller' = [caller EXCEPT ![w].step = step]
Ends(w) == caller' = [caller EXCEPT ![w] = Idle]

SaveProposal(w, value) == status' = [status EXCEPT ![Of(w)] = value]
SaveExecution(w, value) == execution' = [execution EXCEPT ![Of(w)] = value]

\* The error of this write is ignored.
TrySaveExecution(w, value) == SaveExecution(w, value) \/ UNCHANGED execution

StoreOnly == UNCHANGED <<exchangeVars, calls, sync>>
ReadsOnly == UNCHANGED <<storeVars, approvals>> /\ StoreOnly
LedgerOnly == UNCHANGED <<storeVars, calls, sync, approvals>>

Begin(w, p, step) ==
    /\ At(w, "idle") /\ calls < MaxCalls
    /\ calls' = calls + 1
    /\ caller' = [caller EXCEPT ![w] = Working(step, p)]
    /\ UNCHANGED <<exchangeVars, execution, sync, approvals>>

\* A request that has the proposal evaluated before it goes on.
BeginEvaluation(w, p, then) ==
    /\ At(w, "idle") /\ calls < MaxCalls
    /\ calls' = calls + 1
    /\ caller' = [caller EXCEPT ![w] = [Working("evaluate", p) EXCEPT !.then = then]]
    /\ UNCHANGED <<exchangeVars, execution, sync, approvals>>

\* CreateFromTask saves the proposal as rejected and has it evaluated.
CreateFromTask(w, p) ==
    /\ status[p] = "none"
    /\ BeginEvaluation(w, p, "nothing")
    /\ status' = [status EXCEPT ![p] = "risk_rejected"]

\* The Risk handler evaluates a proposal of any status.
Risk(w, p) ==
    /\ status[p] # "none"
    /\ BeginEvaluation(w, p, "nothing") /\ UNCHANGED status

Approve(w, p) ==
    /\ status[p] \notin Decided \cup {"none", "approved"}
    /\ BeginEvaluation(w, p, "approve") /\ UNCHANGED status

Reject(w, p) ==
    /\ status[p] \notin Decided \cup {"none", "rejected"}
    /\ Begin(w, p, "reject") /\ UNCHANGED status

Execute(w, p) ==
    /\ \/ /\ status[p] = "approved"
          /\ BeginEvaluation(w, p, "claim")
       \/ /\ status[p] \in {"executing", "execution_uncertain"}
          /\ Begin(w, p, "reconcile")
       \/ /\ status[p] \in Carried /\ execution[p] # "none"
          /\ Begin(w, p, "protect")
    /\ UNCHANGED status

ReconcileRequest(w, p) ==
    status[p] # "none" /\ Begin(w, p, "reconcile") /\ UNCHANGED status

Close(w, p) ==
    status[p] \in Carried /\ Begin(w, p, "close") /\ UNCHANGED status

-----------------------------------------------------------------------------
\* EvaluateRisk: read, check, write back.  Whether a proposal's time to live
\* is over is left open at each look.
EvaluateRisk(w) ==
    /\ At(w, "evaluate")
    /\ \/ SaveProposal(w, "expired") /\ Ends(w)
       \/ /\ caller' = [caller EXCEPT ![w].step = "check", ![w].was = status[Of(w)]]
          /\ UNCHANGED status
    /\ UNCHANGED <<execution, approvals>> /\ StoreOnly

\* The check looks at prices, limits and account reads, which may be old: what
\* it finds is left open.
RiskCheck(w) ==
    /\ At(w, "check")
    /\ Keeps(w, "pass") \/ Goes(w, "fail")
    /\ ReadsOnly

\* Mistake: what passes the check needs no approval.
EvaluatedApproves(w) == "approved"

Evaluated(w) ==
    IF caller[w].was = "approved" THEN "approved" ELSE "awaiting_approval"

\* Approve goes on with a proposal that awaits it, Execute with one that is
\* still approved.
GoesOn(w) ==
    \/ caller[w].then = "approve" /\ Evaluated(w) = "awaiting_approval"
    \/ caller[w].then = "claim" /\ Evaluated(w) = "approved"

SaveRisk(w) ==
    /\ \/ /\ At(w, "pass")
          /\ SaveProposal(w, Evaluated(w))
          /\ IF GoesOn(w) THEN Goes(w, caller[w].then) ELSE Ends(w)
       \/ /\ At(w, "fail")
          /\ SaveProposal(w, "risk_rejected") /\ Ends(w)
    /\ UNCHANGED <<execution, approvals>> /\ StoreOnly

SaveApproval(w) ==
    /\ At(w, "approve")
    /\ SaveProposal(w, "approved") /\ Ends(w)
    /\ approvals' = approvals \cup {Of(w)}
    /\ UNCHANGED execution /\ StoreOnly

SaveRejection(w) ==
    /\ At(w, "reject")
    /\ SaveProposal(w, "rejected") /\ Ends(w)
    /\ UNCHANGED <<execution, approvals>> /\ StoreOnly

-----------------------------------------------------------------------------
\* Execute goes on: the compare-and-swap, the execution row, the kill switch
\* and the submission.
Claim(w) ==
    /\ At(w, "claim")
    /\ IF status[Of(w)] = "approved"
       THEN SaveProposal(w, "executing") /\ Goes(w, "record")
       ELSE UNCHANGED status /\ Goes(w, "reload")
    /\ UNCHANGED <<execution, approvals>> /\ StoreOnly

Reload(w) ==
    /\ At(w, "reload")
    /\ IF status[Of(w)] \in {"executed", "executing", "execution_uncertain"}
       THEN Goes(w, "reconcile") ELSE Ends(w)
    /\ ReadsOnly

\* Mistake: the order goes out before its execution row is written.
SubmitUnrecorded(w) ==
    /\ At(w, "record")
    /\ Goes(w, "submit") /\ ReadsOnly

\* What the kill switch says after this write is left open.
RecordExecution(w) ==
    /\ At(w, "record")
    /\ SaveExecution(w, "executing")
    /\ Goes(w, "submit") \/ Goes(w, "block")
    /\ UNCHANGED <<status, approvals>> /\ StoreOnly

\* Mistake: the proposal row is given the status of the execution row.
BlockTakesStatus(w) ==
    \/ /\ At(w, "block")
       /\ TrySaveExecution(w, "execution_failed") /\ Goes(w, "blocked")
       /\ UNCHANGED <<status, approvals>> /\ StoreOnly
    \/ /\ At(w, "blocked")
       /\ SaveProposal(w, "execution_failed") /\ Ends(w)
       /\ UNCHANGED <<execution, approvals>> /\ StoreOnly

\* The switch is off: both rows say so, and approval is needed again.
Block(w) ==
    \/ /\ At(w, "block")
       /\ TrySaveExecution(w, "execution_failed") /\ Goes(w, "blocked")
       /\ UNCHANGED <<status, approvals>> /\ StoreOnly
    \/ /\ At(w, "blocked")
       /\ SaveProposal(w, "risk_rejected") /\ Ends(w)
       /\ UNCHANGED <<execution, approvals>> /\ StoreOnly

\* Mistake: an order whose row exists already is sent once more.
SubmitAnew(w) ==
    /\ At(w, "submit")
    /\ \/ ExecuteSucceeds(Entry(Of(w)), Lots) /\ Goes(w, "mark")
       \/ ExecuteFails(Entry(Of(w)), Lots) /\ Goes(w, "lookup")
       \/ /\ Sent(Entry(Of(w)), Lots, "live", "working", 0) /\ UNCHANGED positionVars
          /\ CountSend(Entry(Of(w))) /\ Goes(w, "lookup")
    /\ LedgerOnly

SubmitClaimed(w) ==
    /\ At(w, "submit")
    /\ \/ ExecuteSucceeds(Entry(Of(w)), Lots) /\ Goes(w, "mark")
       \/ ExecuteFails(Entry(Of(w)), Lots) /\ Goes(w, "lookup")
    /\ LedgerOnly

\* Mistake: an error of the lookup is taken for an answer.
LookUpTrusted(w) ==
    /\ At(w, "lookup")
    /\ LookUpFinds(Entry(Of(w))) \/ LookUpFails(Entry(Of(w)))
    /\ Goes(w, "mark")
    /\ LedgerOnly

\* After an error, and in Reconcile: is the order known under its client id?
LookUpEntry(w) ==
    /\ At(w, "lookup")
    /\ \/ LookUpFinds(Entry(Of(w))) /\ Goes(w, "mark")
       \/ LookUpFails(Entry(Of(w))) /\ Goes(w, "doubt")
    /\ LedgerOnly

MarkExecuted(w) ==
    \/ /\ At(w, "mark")
       /\ SaveExecution(w, "executed") /\ Goes(w, "marked")
       /\ UNCHANGED <<status, approvals>> /\ StoreOnly
    \/ /\ At(w, "marked")
       /\ SaveProposal(w, "executed") /\ Goes(w, "protect")
       /\ UNCHANGED <<execution, approvals>> /\ StoreOnly

MarkUncertain(w) ==
    \/ /\ At(w, "doubt")
       /\ TrySaveExecution(w, "execution_uncertain") /\ Goes(w, "doubted")
       /\ UNCHANGED <<status, approvals>> /\ StoreOnly
    \/ /\ At(w, "doubted")
       /\ SaveProposal(w, "execution_uncertain") /\ Ends(w)
       /\ UNCHANGED <<execution, approvals>> /\ StoreOnly

\* Reconcile reads both rows; it adopts a claimed proposal that has no
\* execution row yet.
Reconcile(w) ==
    /\ At(w, "reconcile")
    /\ LET p == Of(w) IN
       \/ /\ execution[p] = "none" /\ status[p] = "executing"
          /\ TrySaveExecution(w, "execution_uncertain") /\ Goes(w, "lookup")
       \/ /\ execution[p] = "none" /\ status[p] # "executing"
          /\ Ends(w) /\ UNCHANGED execution
       \/ /\ execution[p] # "none"
          /\ CASE execution[p] = "executed" \/ status[p] \in Carried -> Goes(w, "protect")
               [] execution[p] # "executed" /\ status[p] = "closed" -> Ends(w)
               [] OTHER -> Goes(w, "lookup")
          /\ UNCHANGED execution
    /\ UNCHANGED <<status, approvals>> /\ StoreOnly

-----------------------------------------------------------------------------
\* EnsureProtection, for the lots of whatever position of the leg the owner has.
\* Any error of it is a failed protection; no position is a closed one.
Protect(w) ==
    /\ At(w, "protect")
    /\ \/ holder = Nobody /\ Goes(w, "close")
       \/ /\ holder # Nobody
          /\ caller' = [caller EXCEPT ![w] = [Working("pick_stop", Of(w)) EXCEPT !.qty = managed]]
       \/ Goes(w, "unprotected")
    /\ ReadsOnly

Attempts(p, kind) == {o \in OfKind(p, kind) : order[o].row # "none"}
UnresolvedOf(p, kind) == {o \in OfKind(p, kind) : Unresolved(o)}
NextAttempt(p, kind) == Cardinality(Attempts(p, kind)) + 1

Chooses(w, n, step) ==
    /\ n <= MaxTries
    /\ caller' = [caller EXCEPT ![w].step = step, ![w].n = n]

\* With the stops numbered in drop to be cancelled before.
ChoosesStop(w, n, drop) ==
    /\ n <= MaxTries
    /\ caller' = [caller EXCEPT ![w].step = IF drop = {} THEN "stop" ELSE "resize",
                                ![w].n = n, ![w].drop = drop]

Numbers(orders) == {o.n : o \in orders}

\* Mistake: a stop of another quantity is left at work.
PickUncanceled(w) ==
    /\ At(w, "pick_stop")
    /\ LET same == {o \in UnresolvedOf(Of(w), "stop") : order[o].asked = caller[w].qty} IN
       \/ \E n \in Numbers(same) : ChoosesStop(w, n, {})
       \/ same = {} /\ ChoosesStop(w, NextAttempt(Of(w), "stop"), {})
       \/ Goes(w, "unprotected")
    /\ ReadsOnly

\* nextProtectionClientOrderID goes through a list of the orders, the newest
\* first: an unresolved stop for the same quantity is taken again, those passed
\* on the way are cancelled, and if there is none a new one is numbered.
PickStop(w) ==
    /\ At(w, "pick_stop")
    /\ LET open == UnresolvedOf(Of(w), "stop")
           same == {o \in open : order[o].asked = caller[w].qty} IN
       \/ \E n \in Numbers(same) :
             /\ \A m \in Numbers(same) : m <= n
             /\ ChoosesStop(w, n, {m \in Numbers(open) : n < m})
       \/ same = {} /\ ChoosesStop(w, NextAttempt(Of(w), "stop"), Numbers(open))
       \/ Goes(w, "unprotected")
    /\ ReadsOnly

\* The stops of other quantities are cancelled, one by one.  A stop without the
\* exchange's order id cannot be, and a cancel may fail.
ResizeStop(w) ==
    /\ At(w, "resize")
    /\ \/ \E n \in caller[w].drop :
             /\ order[Exit(Of(w), "stop", n)].at = "working"
             /\ SetRow(Exit(Of(w), "stop", n), "done", "ended") /\ UNCHANGED sends
             /\ ChoosesStop(w, caller[w].n, caller[w].drop \ {n})
       \/ Goes(w, "unprotected") /\ UNCHANGED exchangeVars
    /\ LedgerOnly

SubmitStop(w) ==
    /\ At(w, "stop")
    /\ \/ ExecuteSucceeds(Exit(Of(w), "stop", caller[w].n), caller[w].qty) /\ Goes(w, "protected")
       \/ ExecuteFails(Exit(Of(w), "stop", caller[w].n), caller[w].qty) /\ Goes(w, "unprotected")
    /\ LedgerOnly

SaveProtection(w) ==
    /\ \/ At(w, "protected") /\ SaveProposal(w, "executed")
       \/ At(w, "unprotected") /\ SaveProposal(w, "protection_failed")
    /\ Ends(w)
    /\ UNCHANGED <<execution, approvals>> /\ StoreOnly

\* OwnershipLifecycle.Close: a position that is gone leaves only stops to be
\* cancelled; an account that shows none releases the position at once.
CloseLeg(w) ==
    /\ At(w, "close")
    /\ IF holder = Nobody THEN Goes(w, "cleanup") ELSE Goes(w, "quantity")
    /\ ReadsOnly

ReadQuantity(w) ==
    /\ At(w, "quantity")
    /\ Goes(w, "release") \/ Goes(w, "pick_close")
    /\ ReadsOnly

\* An unresolved close is looked up first; if it is not at its end, or cannot
\* be looked up, the handler gives up.
PickClose(w) ==
    /\ At(w, "pick_close")
    /\ \/ \E o \in UnresolvedOf(Of(w), "close") :
            \/ /\ LookUpFinds(o)
               /\ IF order[o].at = "working" THEN Ends(w)
                  ELSE Chooses(w, NextAttempt(Of(w), "close"), "again")
            \/ LookUpFails(o) /\ Ends(w)
       \/ /\ UnresolvedOf(Of(w), "close") = {}
          /\ Chooses(w, NextAttempt(Of(w), "close"), "again")
          /\ UNCHANGED exchangeVars
    /\ LedgerOnly

\* The close is for the lots that are managed and that the account shows.
ReadAgain(w) ==
    /\ At(w, "again")
    /\ \/ holder = Nobody /\ Goes(w, "drop")
       \/ holder # Nobody /\ Goes(w, "release")
       \/ \E lots \in 1 .. managed :
             caller' = [caller EXCEPT ![w].step = "submit_close", ![w].qty = lots]
    /\ ReadsOnly

SubmitClose(w) ==
    /\ At(w, "submit_close")
    /\ \/ ExecuteSucceeds(Exit(Of(w), "close", caller[w].n), caller[w].qty) /\ Goes(w, "closing")
       \/ ExecuteFails(Exit(Of(w), "close", caller[w].n), caller[w].qty) /\ Ends(w)
    /\ LedgerOnly

CheckClosed(w) ==
    /\ At(w, "closing")
    /\ IF holder = Nobody THEN Goes(w, "cleanup") ELSE Ends(w)
    /\ ReadsOnly

\* The error of the release is ignored.
Release(w) ==
    /\ At(w, "release")
    /\ SetManaged(0) \/ UNCHANGED positionVars
    /\ Goes(w, "drop")
    /\ UNCHANGED <<order, sends>> /\ LedgerOnly

\* cancelProtection, its error ignored: some of the stops are cancelled.  A stop
\* without the exchange's order id cannot be; which rows have it is left open.
Canceled(o) == [order[o] EXCEPT !.row = "done", !.at = "ended"]

DropStops(w) ==
    /\ At(w, "drop")
    /\ \E gone \in SUBSET {o \in UnresolvedOf(Of(w), "stop") : order[o].at = "working"} :
          order' = [o \in OrderIDs |-> IF o \in gone THEN Canceled(o) ELSE order[o]]
    /\ Goes(w, "save_closed")
    /\ UNCHANGED <<positionVars, sends>> /\ LedgerOnly

\* With its error heeded: one stop after the other, or the handler gives up.
CancelStops(w) ==
    /\ At(w, "cleanup")
    /\ \/ \E o \in UnresolvedOf(Of(w), "stop") :
            \/ /\ order[o].at = "working"
               /\ SetRow(o, "done", "ended") /\ UNCHANGED <<caller, sends>>
            \/ Ends(w) /\ UNCHANGED exchangeVars
       \/ /\ UnresolvedOf(Of(w), "stop") = {}
          /\ Goes(w, "save_closed") /\ UNCHANGED exchangeVars
    /\ LedgerOnly

SaveClosed(w) ==
    /\ At(w, "save_closed")
    /\ SaveProposal(w, "closed") /\ Ends(w)
    /\ UNCHANGED <<execution, approvals>> /\ StoreOnly

\* A handler stops anywhere: the process ends, its request is given up, or
\* the database returns an error.
Abandon(w) == ~At(w, "idle") /\ Ends(w) /\ ReadsOnly

-----------------------------------------------------------------------------
WorldOnly == UNCHANGED <<storeVars, caller, calls, sync, approvals>>

\* The exchange fills an order lot by lot, or ends it.
Fill(o) ==
    /\ order[o].at = "working"
    /\ order' = [order EXCEPT ![o].filled = @ + 1,
                              ![o].at = IF order[o].filled + 1 < order[o].size
                                        THEN "working" ELSE "filled"]
    /\ UNCHANGED <<positionVars, sends>> /\ WorldOnly

EndOrder(o) ==
    /\ order[o].at = "working"
    /\ SetRow(o, order[o].row, "ended")
    /\ UNCHANGED sends /\ WorldOnly

\* The reconciliation of the ledger, of which OwnershipReconcile has the steps;
\* the minute's loop and web requests run it.
LoopLooksUp(o) ==
    /\ Unresolved(o)
    /\ LookUpFinds(o) \/ LookUpFails(o)
    /\ WorldOnly

LoopShrinks ==
    /\ \E lots \in 0 .. managed - 1 :
          /\ lots = 0 => \A o \in OrderIDs : IsEntry(o) => ~Unresolved(o)
          /\ SetManaged(lots)
    /\ UNCHANGED <<order, sends>> /\ WorldOnly

LoopCancels(o) ==
    /\ holder = Nobody /\ ~IsEntry(o)
    /\ order[o].row = "live" /\ order[o].at = "working"
    /\ SetRow(o, "done", "ended")
    /\ UNCHANGED sends /\ WorldOnly

\* The list handler expires what was not executed in time.
Expirable == {"risk_rejected", "awaiting_approval", "approved"}

Expire(p) ==
    /\ status[p] \in Expirable
    /\ status' = [status EXCEPT ![p] = "expired"]
    /\ UNCHANGED <<execution, exchangeVars, caller, calls, sync, approvals>>

SyncOnly == UNCHANGED <<execution, exchangeVars, caller, calls, approvals>>

\* SyncClosedManagedProposals lists the positions, then the proposals, then
\* writes the proposals whose position is gone.
SyncLists ==
    /\ sync.step = "idle"
    /\ past \ {holder} # {}
    /\ sync' = [step |-> "read", gone |-> past \ {holder}, todo |-> {}]
    /\ UNCHANGED status /\ SyncOnly

SyncReads ==
    /\ sync.step = "read"
    /\ sync' = LET todo == {p \in sync.gone : status[p] \in Carried} IN
               IF todo = {} THEN NoSync ELSE [step |-> "save", gone |-> {}, todo |-> todo]
    /\ UNCHANGED status /\ SyncOnly

SyncSaves(p) ==
    /\ sync.step = "save" /\ p \in sync.todo
    /\ status' = [status EXCEPT ![p] = "closed"]
    /\ sync' = IF sync.todo = {p} THEN NoSync ELSE [sync EXCEPT !.todo = @ \ {p}]
    /\ SyncOnly

SyncFails == sync # NoSync /\ sync' = NoSync /\ UNCHANGED status /\ SyncOnly

-----------------------------------------------------------------------------
RequestNext(w) ==
    \E p \in Proposals :
        \/ CreateFromTask(w, p) \/ Risk(w, p) \/ Approve(w, p) \/ Reject(w, p)
        \/ Execute(w, p) \/ ReconcileRequest(w, p) \/ Close(w, p)

HandlerNext(w) ==
    \/ EvaluateRisk(w) \/ RiskCheck(w) \/ SaveRisk(w)
    \/ SaveApproval(w) \/ SaveRejection(w)
    \/ Claim(w) \/ Reload(w) \/ RecordExecution(w) \/ Block(w)
    \/ SubmitClaimed(w) \/ LookUpEntry(w) \/ MarkExecuted(w) \/ MarkUncertain(w)
    \/ Reconcile(w)
    \/ Protect(w) \/ PickStop(w) \/ ResizeStop(w) \/ SubmitStop(w) \/ SaveProtection(w)
    \/ CloseLeg(w) \/ ReadQuantity(w) \/ PickClose(w) \/ ReadAgain(w)
    \/ SubmitClose(w) \/ CheckClosed(w) \/ Release(w)
    \/ DropStops(w) \/ CancelStops(w) \/ SaveClosed(w)
    \/ Abandon(w)

WorldNext ==
    \/ \E o \in OrderIDs : Fill(o) \/ EndOrder(o) \/ LoopLooksUp(o) \/ LoopCancels(o)
    \/ LoopShrinks
    \/ \E p \in Proposals : Expire(p)

SyncNext == SyncLists \/ SyncReads \/ (\E p \in Proposals : SyncSaves(p)) \/ SyncFails

AgentNext ==
    \/ \E w \in Callers : RequestNext(w) \/ HandlerNext(w)
    \/ WorldNext
    \/ SyncNext

AgentSpec == AgentInit /\ [][AgentNext]_agentVars

-----------------------------------------------------------------------------
\* The entry of a proposal reaches the exchange at most once, however often it
\* is approved, executed and reconciled.
OneEntry == \A p \in Proposals : sends[p] <= 1

\* Nothing is traded that nobody approved, although the handlers write rows
\* that they read long before.
EntryNeedsApproval == \A p \in Proposals : sends[p] > 0 => p \in approvals

\* An order that may have gone out has an execution row from which Reconcile
\* can go on after a crash.
TradeIsTraced == \A p \in Proposals : order[Entry(p)].row # "none" => execution[p] # "none"

\* What is reported as executed has an entry that the exchange accepted; an
\* answer that was never seen does not count as one.
ExecutedIsReal ==
    \A p \in Proposals :
        execution[p] = "executed" \/ status[p] \in Carried \cup {"closed"} =>
            order[Entry(p)].at # "unsent"

\* Requests that protect or close the same position do not leave two stops or
\* two closes at work for it, although each goes by the quantity and the list of
\* orders that it read before: a stop of another quantity is cancelled first.
WorkingOf(p, kind) == {o \in OfKind(p, kind) : order[o].at = "working"}

OneStopOneClose ==
    \A p \in Proposals : \A kind \in {"stop", "close"} : Cardinality(WorkingOf(p, kind)) <= 1

\* The minute's loop closes no proposal whose position is open, although it
\* writes what it listed before: it "mirrors ownership closure into proposal
\* state" (service.go:501).  A later fill of the entry can have opened the
\* position again.
SyncStep ==
    \A p \in Proposals : SyncSaves(p) => p \in past /\ holder # p

SyncClosesOnlyGone == [][SyncStep]_agentVars

\* A proposal counts as protected by a stop that is at work, or has done it:
\* "A terminal protective order must never be treated as active protection"
\* (lifecycle.go:103).
ProtectionStep ==
    \A w \in Callers :
        At(w, "stop") /\ caller'[w].step = "protected" =>
            order'[Exit(Of(w), "stop", caller[w].n)].at # "ended"

ProtectedByActiveStop == [][ProtectionStep]_agentVars
=============================================================================
