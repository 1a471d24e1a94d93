------------------------- MODULE OwnershipReconcile -------------------------
(***************************************************************************)
(* The goroutines that compare the account with the ledger, running beside *)
(* each other and beside the goroutines that trade.  There are two kinds.  *)
(*                                                                         *)
(* A sweep (service/futuresownership/reconcile.go) runs every minute, at   *)
(* the start of the process and on a request of the web API.  For each     *)
(* owner it looks up the orders listed as live, reads what the owner       *)
(* manages, reads the account, compares the two leg by leg and cancels the *)
(* reducing orders whose position is gone.                                 *)
(*                                                                         *)
(* The trade loop (feature/ownership.go) runs every two seconds.  It has   *)
(* read the account before it visits an owner, and reads it again only if  *)
(* a leg shows less than is managed.  It looks orders up, and asks for     *)
(* unresolved opens, for auto_strategy alone, and cancels nothing.         *)
(*                                                                         *)
(* What was listed or read is only used later, one call to the database or *)
(* the exchange at a time, while all the others go on.                     *)
(***************************************************************************)
EXTENDS OrderExecution, Sequences, FiniteSetsExt

CONSTANTS Observers,    \* the goroutines that compare
          Sweeps,       \* those of them that sweep; the others are trade loops
          Minute,       \* the sweep that the minute's ticker repeats
          Rounds,       \* the owners each observer visits, in this order
          AutoStrategy, \* the owner auto_strategy
          MaxRestarts   \* bound: how often the process is restarted

ASSUME ReconcileAssumption ==
    /\ Observers \subseteq Workers
    /\ Sweeps \subseteq Observers
    /\ Minute \in Sweeps
    /\ Rounds \in [Observers -> Seq(Owners)]
    /\ MaxRestarts \in Nat

VARIABLES pass,         \* what each observer is doing
          restarts

reconcileVars == <<executionVars, pass, restarts>>

\* left: owners still to visit, the head being visited; listed: the orders
\* listed when the visit began; todo: those not yet dealt with; legs: managed
\* legs not yet compared, and at the end of a visit those still managed;
\* account: the quantities compared; local: those the trade loop began with.
Quantity == [Slots -> Int]

Pass == [phase : {"idle", "orders", "account", "opens", "compare", "remaining",
                  "orphans", "cancel"},
         left : Seq(Owners),
         listed : SUBSET Orders,
         todo : SUBSET Orders,
         legs : SUBSET Slots,
         account : Quantity,
         local : Quantity]

NothingRead == [s \in Slots |-> 0]
Accounts == [s \in Slots |-> Account(s)]

AtRest == [phase |-> "idle", left |-> <<>>, listed |-> {}, todo |-> {},
           legs |-> {}, account |-> NothingRead, local |-> NothingRead]

ReconcileTypeOK ==
    /\ ExecutionTypeOK
    /\ pass \in [Observers -> Pass]
    /\ restarts \in 0 .. MaxRestarts

ReconcileInit ==
    /\ ExecutionInit
    /\ pass = [ob \in Observers |-> AtRest]
    /\ restarts = 0

-----------------------------------------------------------------------------
Phase(ob, p) == pass[ob].phase = p
Owner(ob) == Head(pass[ob].left)
Free(ob) == worker[ob] = Idle

Proceed(ob, next) == pass' = [pass EXCEPT ![ob] = next]
PassOnly == UNCHANGED <<executionVars, restarts>>

ActiveOrders(ow) == {o \in Orders : Request[o].owner = ow /\ Live(o)}
ActiveLegs(ow) == {s \in Slots : Holds(ow, s) /\ positions[s][ow].qty > 0}

\* Of the owners of the trade loop only auto_strategy has its orders listed.
Listed(ob, ow) == IF ob \in Sweeps \/ ow = AutoStrategy THEN ActiveOrders(ow) ELSE {}

Visit(ob, owners, local) ==
    IF owners = <<>> THEN AtRest
    ELSE [AtRest EXCEPT !.phase = "orders", !.left = owners,
                        !.listed = Listed(ob, Head(owners)),
                        !.todo = Listed(ob, Head(owners)),
                        !.local = local]

\* A ticker or a request starts the round; an error ends it for all owners left.
StartPass(ob) ==
    /\ Phase(ob, "idle") /\ Free(ob)
    /\ Proceed(ob, Visit(ob, Rounds[ob], IF ob \in Sweeps THEN NothingRead ELSE Accounts))
    /\ PassOnly

\* Executor.Reconcile for each listed order, whatever became of it since.  The
\* trade loop prefers the order's row in the user-data mirror, and leaves out
\* an order the exchange has answered for within five seconds.
Inquiries(ob, o) ==
    {NewTask("lookup", o, "reconcile")} \cup
    (IF ob \in Sweeps THEN {}
     ELSE {[NewTask("mark", o, "reconcile") EXCEPT !.answer = row] : row \in Snapshots(o)}
          \cup {idle \in {Idle} : exchangeID[o]})

ReconcileOrder(ob, o) ==
    /\ Phase(ob, "orders") /\ Free(ob)
    /\ o \in pass[ob].todo
    /\ Proceed(ob, [pass[ob] EXCEPT !.todo = @ \ {o}])
    /\ \E task \in Inquiries(ob, o) : Become(ob, task)
    /\ LocalOnly /\ UNCHANGED restarts

\* verifiedOwnershipAccountSnapshot: what the trade loop began with will do if
\* every leg shows what is managed; it is read again also when a lookup has
\* just reported a fill, though nothing is managed, and the read may fail.
Covered(ob, legs) ==
    ob \notin Sweeps /\ \A s \in legs : pass[ob].local[s] >= positions[s][Owner(ob)].qty

\* Managed legs are compared in a fixed order.  Of a leg that shows nothing,
\* the opening orders that were listed are read again first.
First(legs) == CHOOSE s \in legs : TRUE
CurrentLeg(ob) == First(pass[ob].legs)

ListedOpens(p, s) == {o \in p.listed : IsOpen(o) /\ Request[o].slot = s}

Comparing(p) ==
    LET s == First(p.legs) IN
    [p EXCEPT !.phase = IF p.account[s] = 0 /\ ListedOpens(p, s) # {}
                        THEN "opens" ELSE "compare"]

\* What was listed and read is not used beyond the comparison, after which a
\* sweep looks for orphans and the trade loop goes to its next owner.
Compared(ob, phase) ==
    IF ob \in Sweeps THEN [AtRest EXCEPT !.phase = phase, !.left = pass[ob].left]
    ELSE Visit(ob, Tail(pass[ob].left), pass[ob].local)

NextLeg(ob) ==
    LET rest == pass[ob].legs \ {CurrentLeg(ob)} IN
    IF rest = {} THEN Compared(ob, "remaining")
    ELSE Comparing([pass[ob] EXCEPT !.legs = rest])

ReadManaged(ob) ==
    LET legs == ActiveLegs(Owner(ob))
        read == [pass[ob] EXCEPT !.legs = legs] IN
    /\ Phase(ob, "orders") /\ Free(ob)
    /\ pass[ob].todo = {}
    /\ \/ legs = {} /\ Proceed(ob, Compared(ob, "orphans"))
       \/ legs = {} /\ pass[ob].listed # {} /\ ob \notin Sweeps /\ Proceed(ob, AtRest)
       \/ legs # {} /\ Proceed(ob, [read EXCEPT !.phase = "account"])
       \/ /\ legs # {} /\ Covered(ob, legs)
          /\ Proceed(ob, Comparing([read EXCEPT !.account = pass[ob].local]))
    /\ PassOnly

\* FreshPositions reads the account from the exchange.
ReadAccount(ob) ==
    /\ Phase(ob, "account")
    /\ Proceed(ob, Comparing([pass[ob] EXCEPT !.account = Accounts]))
    /\ PassOnly

ReadFails(ob) == Phase(ob, "account") /\ Proceed(ob, AtRest) /\ PassOnly

\* An opening order that was listed and is still unresolved may fill at any
\* time, so a zero is no evidence that the leg is gone.
CheckOpens(ob) ==
    /\ Phase(ob, "opens")
    /\ Proceed(ob, IF \E o \in ListedOpens(pass[ob], CurrentLeg(ob)) : Live(o)
                   THEN NextLeg(ob)
                   ELSE [pass[ob] EXCEPT !.phase = "compare"])
    /\ PassOnly

\* Mistake: a zero clears the quantity and leaves the row open.
CompareClearing(ob) ==
    LET s == CurrentLeg(ob) IN
    /\ Phase(ob, "compare")
    /\ \/ /\ Holds(Owner(ob), s)
          /\ SetPosition(s, Owner(ob),
                ActivePosition(Lesser(positions[s][Owner(ob)].qty, pass[ob].account[s])))
          /\ Proceed(ob, NextLeg(ob))
          /\ UNCHANGED orders
       \/ /\ ~Holds(Owner(ob), s)
          /\ Proceed(ob, IF ob \in Sweeps THEN AtRest ELSE NextLeg(ob))
          /\ UNCHANGED ownershipVars
    /\ LedgerOnly /\ UNCHANGED <<worker, restarts>>

\* ReconcileObservedPosition with the quantity read before; the position may
\* have been closed in between, which ends a sweep and which the trade loop
\* passes over.
Compare(ob) ==
    LET s == CurrentLeg(ob) IN
    /\ Phase(ob, "compare")
    /\ \/ /\ ReconcileObservedPosition(s, Owner(ob), pass[ob].account[s])
          /\ Proceed(ob, NextLeg(ob))
       \/ /\ ~Holds(Owner(ob), s)
          /\ Proceed(ob, IF ob \in Sweeps THEN AtRest ELSE NextLeg(ob))
          /\ UNCHANGED ownershipVars
    /\ LedgerOnly /\ UNCHANGED <<worker, restarts>>

ReadRemaining(ob) ==
    /\ Phase(ob, "remaining")
    /\ Proceed(ob, [pass[ob] EXCEPT !.phase = "orphans", !.legs = ActiveLegs(Owner(ob))])
    /\ PassOnly

\* cancelOrphanMutations: the live reducing orders of a leg that was not listed
\* as managed, if their exchange order id is known.
Orphans(ob) ==
    {o \in ActiveOrders(Owner(ob)) :
        /\ ~IsOpen(o) /\ Request[o].slot \notin pass[ob].legs
        /\ exchangeID[o]}

ListOrphans(ob) ==
    /\ Phase(ob, "orphans")
    /\ Proceed(ob, [pass[ob] EXCEPT !.phase = "cancel", !.todo = Orphans(ob), !.legs = {}])
    /\ PassOnly

CancelOrphan(ob, o) ==
    /\ Phase(ob, "cancel") /\ Free(ob)
    /\ o \in pass[ob].todo
    /\ Proceed(ob, [pass[ob] EXCEPT !.todo = @ \ {o}])
    /\ Become(ob, NewTask("cancel", o, "reconcile"))
    /\ LocalOnly /\ UNCHANGED restarts

\* Mistake: the round ends with its first owner.
NextOwnerNone(ob) ==
    /\ Phase(ob, "cancel") /\ Free(ob)
    /\ pass[ob].todo = {}
    /\ Proceed(ob, AtRest)
    /\ PassOnly

NextOwner(ob) ==
    /\ Phase(ob, "cancel") /\ Free(ob)
    /\ pass[ob].todo = {}
    /\ Proceed(ob, Visit(ob, Tail(pass[ob].left), pass[ob].local))
    /\ PassOnly

-----------------------------------------------------------------------------
PassNext(ob) ==
    \/ StartPass(ob)
    \/ \E o \in Orders : ReconcileOrder(ob, o)
    \/ ReadManaged(ob) \/ ReadAccount(ob) \/ ReadFails(ob)
    \/ CheckOpens(ob) \/ Compare(ob)
    \/ ReadRemaining(ob) \/ ListOrphans(ob)
    \/ \E o \in Orders : CancelOrphan(ob, o)
    \/ NextOwner(ob)

\* The goroutines that trade.  Outside the rounds a listed order is looked up
\* only by the caller that derives its id, or on the way to its cancel.
Trade(w) ==
    \E o \in Orders : \/ Execute(w, o) \/ Cancel(w, o)
                      \/ o \in Repeated \cup Cancelable /\ Reconcile(w, o)

\* The trade loop trades between two rounds.
StartNext ==
    /\ \E w \in Workers \ Sweeps :
          /\ w \in Observers => Phase(w, "idle")
          /\ Trade(w)
    /\ UNCHANGED <<pass, restarts>>

CallNext(w) == ContinueCall(w) /\ UNCHANGED <<pass, restarts>>

WorldNext == ExchangeNext /\ UNCHANGED <<pass, restarts>>

\* Ten seconds pass for a position whose zero is remembered.
TimeNext ==
    /\ \E s \in Slots, ow \in Owners : Age(s, ow)
    /\ LedgerOnly /\ UNCHANGED <<worker, pass, restarts>>

RestartNext ==
    /\ restarts < MaxRestarts
    /\ Restart
    /\ pass' = [ob \in Observers |-> AtRest]
    /\ restarts' = restarts + 1

ReconcileNext ==
    \/ \E ob \in Observers : PassNext(ob)
    \/ StartNext \/ \E w \in Workers : CallNext(w)
    \/ WorldNext \/ TimeNext \/ RestartNext

ReconcileSpec == ReconcileInit /\ [][ReconcileNext]_reconcileVars

-----------------------------------------------------------------------------
\* The bare minute-by-minute loop must make progress, and so must time and
\* messages.  Of the calls that may fail, an account read and the lookup of an
\* order the exchange knows succeed again and again as long as they are tried
\* again and again.  Nothing is assumed of the traders, of the trade loop
\* (which the operator may switch off), of web requests, of fills, or of the
\* operator.
MinuteProgress == (PassNext(Minute) /\ ~ReadFails(Minute)) \/ CallNext(Minute)

LookupAnswered(o) ==
    /\ worker[Minute] # Idle /\ worker[Minute].order = o
    /\ Lookup(Minute) /\ At(Minute, "mark")'
    /\ UNCHANGED <<pass, restarts>>

Fairness ==
    /\ WF_reconcileVars(MinuteProgress)
    /\ SF_reconcileVars(ReadAccount(Minute))
    /\ \A o \in Orders : SF_reconcileVars(LookupAnswered(o))
    /\ WF_reconcileVars(TimeNext)

FairReconcileSpec == ReconcileSpec /\ Fairness

-----------------------------------------------------------------------------
\* An order that ended on the exchange is eventually settled in the ledger,
\* unless it reduces a position that is gone, or opens one in a leg where
\* another opening order is unresolved: an order that never reached the
\* exchange and was looked up stays so for ever, and what the other has filled
\* is never booked.
OtherOpenUnresolved(o) ==
    \E p \in Orders \ {o} : IsOpen(p) /\ Request[p].slot = Request[o].slot /\ Live(p)

EndedOrdersSettle ==
    \A o \in Orders :
        exchange[o].state \in Ended ~>
            \/ orders[o].status \in DoneStatuses
            \/ IsOpen(o) /\ OtherOpenUnresolved(o)
            \/ ~IsOpen(o) /\ ~Holds(Request[o].owner, Request[o].slot)

\* A leg that is flat does not stay managed for ever, unless an opening order
\* of the leg is unresolved.
Manages(s) == \E ow \in Owners : Holds(ow, s)

FlatLegsAreReleased ==
    \A s \in Slots :
        Manages(s) /\ Account(s) = 0 ~>
            \/ ~Manages(s)
            \/ Account(s) > 0
            \/ \E o \in Orders : IsOpen(o) /\ Request[o].slot = s /\ Live(o)

\* What the strategies opened and have not closed stays managed, up to the
\* lots of opening orders that no answer has reported yet; otherwise no exit
\* of theirs ever closes it.  "Another process may apply a fill while this
\* cycle holds a stale snapshot. Compare previous state instead of overwriting
\* newer ownership" (service.go:538): the compared state is the one read in the
\* call, not the one the snapshot was taken against.  (Of runs in which the
\* operator does not trade by hand.)
Managed(s) == MapThenSumSet(LAMBDA ow : positions[s][ow].qty, Owners)

UnbookedOpens(s) ==
    MapThenSumSet(LAMBDA o : exchange[o].filled - orders[o].filled,
                  {o \in Orders : Request[o].slot = s /\ IsOpen(o)})

LegsStayManaged == \A s \in Slots : Leg(s) <= Managed(s) + UnbookedOpens(s)

\* The strategies never close more than they opened: "auto closes at most its
\* own managed_qty, what the operator added by hand must stay" (ownership plan,
\* section 8.2).  Each reducing order is within the managed quantity when it is
\* claimed, but a close, a take profit and a stop loss are not added up.
ManualLotsStay == \A s \in Slots : Leg(s) >= 0
=============================================================================
