--------------------------- MODULE AgentExitsProofs ---------------------------
(* No two stops and no two closes of a proposal are at work, for all       *)
(* proposals, requests and bounds of AgentTrade.                           *)
EXTENDS AgentTradeProofs

-----------------------------------------------------------------------------
(* The invariant.                                                          *)

\* Whatever is called for this order, the exchange never works on it again.
Dead(ord, o) == ord[o].row \in {"live", "done"} /\ ord[o].at # "working"

Tries == 1 .. MaxTries

\* Stops are numbered one after the other: all before one that has a row are
\* dead, and so are all before the one that a request has chosen, but for those
\* that it is about to cancel.
StopsInv ==
    \A p \in Proposals : \A m, n \in Tries :
        m < n /\ order[Exit(p, "stop", n)].row # "none" => Dead(order, Exit(p, "stop", m))

ChosenBy(w, m) ==
    /\ m < caller[w].n
    /\ \/ caller[w].step = "stop"
       \/ caller[w].step = "resize" /\ m \notin caller[w].drop

ChosenInv ==
    \A w \in Callers : \A m \in Tries :
        ChosenBy(w, m) => Dead(order, Exit(Of(w), "stop", m))

\* Of two closes with a row one is dead.
ClosesInv ==
    \A c, d \in OrderIDs :
        c.kind = "close" /\ d.kind = "close" /\ c # d
        /\ order[c].row # "none" /\ order[d].row # "none"
            => Dead(order, c) \/ Dead(order, d)

\* What the exchange works on is not at its end in the ledger.
LiveInv == \A o \in OrderIDs : order[o].at = "working" => order[o].row = "live"

ExitsInv == LiveInv /\ StopsInv /\ ChosenInv /\ ClosesInv

-----------------------------------------------------------------------------
(* What an operation does to the order it is called for.                   *)

\* The order o is claimed if it gets its row; it does not come back to work.
Calm(o) ==
    /\ \A x \in OrderIDs \ {o} : order'[x] = order[x]
    /\ Dead(order, o) => Dead(order', o)
    /\ order'[o].at = "working" => order'[o].row = "live"
    /\ order[o].row = "none" /\ order'[o].row # "none" => \E qty \in Nat : Claimable(o, qty)

LEMMA RowCalm ==
  ASSUME LedgerInv, NEW o \in OrderIDs, NEW row, order' = [order EXCEPT ![o] = row],
         row.at = "working" => row.row = "live",
         Dead(order, o) => row.row \in {"live", "done"} /\ row.at # "working",
         order[o].row = "none" => \E qty \in Nat : Claimable(o, qty)
  PROVE  Calm(o)
  BY DEF LedgerInv, LedgerTypes, Calm, Dead

\* A row that exists already, with what else became of it left open.
LEMMA SetRowCalm ==
  ASSUME LedgerInv, LiveInv, NEW o \in OrderIDs, order[o].row # "none",
         NEW row \in {"live", "done"}, NEW at, SetRow(o, row, at),
         \/ at = order[o].at /\ row = "live"
         \/ at = "ended"
  PROVE  Calm(o)
  <1> DEFINE new == [order[o] EXCEPT !.row = row, !.at = at]
  <1>1. order[o] \in OrderRow
    BY DEF LedgerInv, LedgerTypes
  <1>2. new.row = row /\ new.at = at
    BY <1>1 DEF OrderRow
  <1>3. order' = [order EXCEPT ![o] = new]
    BY DEF SetRow
  <1> HIDE DEF new
  <1> QED BY <1>2, <1>3, RowCalm DEF Dead

LEMMA ApplyCalm ==
  ASSUME LedgerInv, NEW o \in OrderIDs, order[o].row # "none", Apply(o)
  PROVE  Calm(o)
  <1> DEFINE new == [order[o] EXCEPT !.row = RowFor(order[o].at), !.booked = order[o].filled]
  <1>1. order[o] \in OrderRow
    BY DEF LedgerInv, LedgerTypes
  <1>2. new.row = RowFor(order[o].at) /\ new.at = order[o].at
    BY <1>1 DEF OrderRow
  <1>3. order' = [order EXCEPT ![o] = new]
    BY DEF Apply
  <1> HIDE DEF new
  <1> QED BY <1>2, <1>3, RowCalm DEF Dead, RowFor

LEMMA SentCalm ==
  ASSUME LedgerInv, NEW o \in OrderIDs, NEW qty \in Nat, MaySend(o, qty),
         NEW row, NEW at, NEW lots, Sent(o, qty, row, at, lots),
         at = "working" => row = "live"
  PROVE  Calm(o)
  <1> DEFINE new == [row |-> row, asked |-> IF order[o].row = "none" THEN qty ELSE order[o].asked,
                     booked |-> lots, at |-> at, size |-> qty, filled |-> lots]
  <1>1. new.row = row /\ new.at = at
    OBVIOUS
  <1>2. order' = [order EXCEPT ![o] = new]
    BY DEF Sent
  <1> HIDE DEF new
  <1>3. ~Dead(order, o) /\ (order[o].row = "none" => Claimable(o, qty))
    BY DEF MaySend, Dead
  <1> QED BY <1>1, <1>2, <1>3, RowCalm

LEMMA LookUpCalm ==
  ASSUME LedgerInv, LiveInv, NEW o \in OrderIDs, LookUpFinds(o) \/ LookUpFails(o)
  PROVE  Calm(o) /\ (order[o].row = "none" => order'[o].row = "none")
  <1>1. CASE LookUpFinds(o)
    BY <1>1, ApplyCalm DEF LookUpFinds
  <1>2. CASE LookUpFails(o) /\ order[o].row = "none"
    BY <1>2 DEF LookUpFails, Calm, LiveInv
  <1>3. CASE LookUpFails(o) /\ order[o].row # "none"
    BY <1>3, SetRowCalm DEF LookUpFails
  <1> QED BY <1>1, <1>2, <1>3

LEMMA ExecuteCalm ==
  ASSUME LedgerInv, LiveInv, NEW o \in OrderIDs, NEW qty \in Nat,
         ExecuteSucceeds(o, qty) \/ ExecuteFails(o, qty)
  PROVE  Calm(o)
  <1>1. CASE LookUpFinds(o) \/ LookUpFails(o)
    BY <1>1, LookUpCalm
  <1>2. CASE UNCHANGED exchangeVars
    BY <1>2 DEF exchangeVars, Calm, LiveInv
  <1>3. CASE /\ MaySend(o, qty)
             /\ \E lots \in 1 .. qty, at \in {"working", "filled", "ended"} :
                   Sent(o, qty, RowFor(at), at, lots)
    BY <1>3, SentCalm DEF RowFor
  <1>4. CASE MaySend(o, qty) /\ Sent(o, qty, "live", "working", 0)
    BY <1>4, SentCalm
  <1>5. CASE MaySend(o, qty) /\ \E row \in {"pending", "done", "live"} : Sent(o, qty, row, "unsent", 0)
    BY <1>5, SentCalm
  <1> QED BY <1>1, <1>2, <1>3, <1>4, <1>5 DEF ExecuteSucceeds, ExecuteFails

-----------------------------------------------------------------------------
(* What any step does.                                                     *)

\* Only a request that has chosen a stop gives it its row.
Submits(o) ==
    o.kind = "stop" =>
        \E w \in Callers : caller[w].step = "stop" /\ o = Exit(Of(w), "stop", caller[w].n)

ExitStep ==
    /\ \A o \in OrderIDs : Dead(order, o) => Dead(order', o)
    /\ LiveInv'
    /\ \A o \in OrderIDs :
          order[o].row = "none" /\ order'[o].row # "none" =>
              /\ \E qty \in Nat : Claimable(o, qty)
              /\ Submits(o)
              /\ \A x \in OrderIDs \ {o} : order'[x] = order[x]

LEMMA CalmStep ==
  ASSUME LiveInv, NEW o \in OrderIDs, Calm(o),
         order[o].row = "none" /\ order'[o].row # "none" => Submits(o)
  PROVE  ExitStep
  BY DEF Calm, ExitStep, LiveInv, Dead

LEMMA SameStep ==
  ASSUME LiveInv, UNCHANGED order
  PROVE  ExitStep
  BY DEF ExitStep, LiveInv

\* A request keeps the stop that it has chosen or goes on, or those before the
\* one that it chooses are dead.
Choosing == {"resize", "stop"}

StopsKeep ==
    \A w \in Callers : \A m \in Tries :
        ChosenBy(w, m)' => \/ ChosenBy(w, m) /\ caller'[w].p = Of(w)
                           \/ Dead(order', Exit(caller'[w].p, "stop", m))

Away(w) == caller' = [caller EXCEPT ![w] = caller'[w]] /\ caller'[w].step \notin Choosing

LEMMA SameKeeps ==
  ASSUME caller' = caller
  PROVE  StopsKeep
  BY DEF StopsKeep, ChosenBy, Of

LEMMA AwayKeeps ==
  ASSUME AgentInv, NEW w \in Callers, Away(w)
  PROVE  StopsKeep
  BY DEF AgentInv, AgentTypeOK, Away, StopsKeep, ChosenBy, Choosing, Of

LEMMA GoesAway ==
  ASSUME AgentInv, NEW w \in Callers,
         \/ Ends(w)
         \/ \E step \in Steps \ Choosing : Goes(w, step) \/ Keeps(w, step)
         \/ \E n \in Nat : Chooses(w, n, "again")
  PROVE  Away(w)
  <1>1. caller \in [Callers -> Caller]
    BY DEF AgentInv, AgentTypeOK
  <1>2. CASE Ends(w)
    BY <1>1, <1>2 DEF Ends, Away, Idle, Working, Choosing
  <1>3. ASSUME NEW step \in Steps \ Choosing, Goes(w, step) PROVE Away(w)
    BY <1>1, <1>3 DEF Goes, Away, Working, Choosing
  <1>4. ASSUME NEW step \in Steps \ Choosing, Keeps(w, step) PROVE Away(w)
    <2> DEFINE c == [caller[w] EXCEPT !.step = step]
    <2>1. caller' = [caller EXCEPT ![w] = c]
      BY <1>4 DEF Keeps
    <2>2. c.step = step
      BY <1>1 DEF Caller
    <2> HIDE DEF c
    <2> QED BY <1>1, <2>1, <2>2 DEF Away, Choosing
  <1>5. ASSUME NEW n \in Nat, Chooses(w, n, "again") PROVE Away(w)
    <2> DEFINE c == [caller[w] EXCEPT !.step = "again", !.n = n]
    <2>1. caller' = [caller EXCEPT ![w] = c]
      BY <1>5 DEF Chooses
    <2>2. c.step = "again"
      BY <1>1 DEF Caller
    <2> HIDE DEF c
    <2> QED BY <1>1, <2>1, <2>2 DEF Away, Choosing
  <1> QED BY <1>2, <1>3, <1>4, <1>5

-----------------------------------------------------------------------------
(* The invariant is kept.                                                  *)

LEMMA ExitIDs ==
  ASSUME NEW p \in Proposals, NEW n \in Tries, NEW kind \in {"stop", "close"}
  PROVE  Exit(p, kind, n) \in OrderIDs
  BY DEF Exit, OrderIDs, Tries

LEMMA ExitsKeep ==
  ASSUME AgentInv, ExitsInv, ExitStep, StopsKeep
  PROVE  ExitsInv'
  <1>1. \A o \in OrderIDs : Dead(order, o) => Dead(order', o)
    BY DEF ExitStep
  <1>2. ASSUME NEW w \in Callers, NEW m \in Tries, ChosenBy(w, m)
        PROVE  Dead(order', Exit(Of(w), "stop", m))
    <2>1. Of(w) \in Proposals
      BY <1>2, AtWork DEF ChosenBy, At
    <2> QED BY <1>1, <1>2, <2>1, ExitIDs DEF ExitsInv, ChosenInv
  <1>3. StopsInv'
    <2> SUFFICES ASSUME NEW p \in Proposals, NEW m \in Tries, NEW n \in Tries, m < n,
                        order'[Exit(p, "stop", n)].row # "none"
                 PROVE  Dead(order', Exit(p, "stop", m))
      BY DEF StopsInv
    <2>1. Exit(p, "stop", n) \in OrderIDs /\ Exit(p, "stop", m) \in OrderIDs
      BY ExitIDs
    <2>2. CASE order[Exit(p, "stop", n)].row # "none"
      BY <1>1, <2>1, <2>2 DEF ExitsInv, StopsInv
    <2>3. CASE order[Exit(p, "stop", n)].row = "none"
      <3>1. PICK w \in Callers :
              caller[w].step = "stop" /\ Exit(p, "stop", n) = Exit(Of(w), "stop", caller[w].n)
        BY <2>1, <2>3 DEF ExitStep, Submits, Exit
      <3>2. p = Of(w) /\ n = caller[w].n
        BY <3>1 DEF Exit
      <3> QED BY <1>2, <3>1, <3>2 DEF ChosenBy
    <2> QED BY <2>2, <2>3
  <1>4. ChosenInv'
    <2> SUFFICES ASSUME NEW w \in Callers, NEW m \in Tries, ChosenBy(w, m)'
                 PROVE  Dead(order', Exit(caller'[w].p, "stop", m))
      BY DEF ChosenInv, Of
    <2> QED BY <1>2 DEF StopsKeep
  <1>5. ClosesInv'
    <2>1. ASSUME NEW c \in OrderIDs, NEW d \in OrderIDs,
                 c.kind = "close", d.kind = "close", c # d,
                 order[c].row = "none", order'[c].row # "none", order'[d].row # "none"
          PROVE  Dead(order', d)
      <3>1. order'[d] = order[d] /\ \E qty \in Nat : Claimable(c, qty)
        BY <2>1 DEF ExitStep
      <3>2. ~Unresolved(d)
        BY <2>1, <3>1 DEF Claimable
      <3>3. order[d].row = "done"
        BY <2>1, <3>1, <3>2 DEF Unresolved, AgentInv, AgentTypeOK, OrderRow
      <3> QED BY <3>1, <3>3 DEF Dead, ExitsInv, LiveInv
    <2> SUFFICES ASSUME NEW c \in OrderIDs, NEW d \in OrderIDs,
                        c.kind = "close", d.kind = "close", c # d,
                        order'[c].row # "none", order'[d].row # "none"
                 PROVE  Dead(order', c) \/ Dead(order', d)
      BY DEF ClosesInv
    <2>2. CASE order[c].row # "none" /\ order[d].row # "none"
      BY <1>1, <2>2 DEF ExitsInv, ClosesInv
    <2>3. CASE order[c].row = "none"
      BY <2>1, <2>3
    <2>4. CASE order[d].row = "none"
      BY <2>1, <2>4
    <2> QED BY <2>2, <2>3, <2>4
  <1> QED BY <1>3, <1>4, <1>5 DEF ExitsInv, ExitStep

\* The stops with a row are the first ones, so that the next number counts them.
LEMMA NumbersInOrder ==
  ASSUME StopsInv, NEW p \in Proposals, NEW m \in Tries, m < NextAttempt(p, "stop")
  PROVE  order[Exit(p, "stop", m)].row # "none"
  <1> SUFFICES ASSUME order[Exit(p, "stop", m)].row = "none" PROVE FALSE
    OBVIOUS
  <1> DEFINE T == {Exit(p, "stop", i) : i \in 1 .. m - 1}
             f == [i \in 1 .. m - 1 |-> Exit(p, "stop", i)]
  <1>1. MaxTries \in Nat /\ m \in Nat \ {0} /\ m <= MaxTries
    BY AgentAssumption DEF Tries
  <1>2. \A i \in Tries : m < i => order[Exit(p, "stop", i)].row = "none"
    BY DEF StopsInv, Dead
  <1>3. \A o \in OfKind(p, "stop") : \E i \in Tries : o = Exit(p, "stop", i)
    BY DEF OfKind, OrderIDs, Exit, Tries
  <1>4. \A i \in Tries : order[Exit(p, "stop", i)].row # "none" => i \in 1 .. m - 1
    BY <1>1, <1>2 DEF Tries
  <1>5. Attempts(p, "stop") \subseteq T
    BY <1>3, <1>4 DEF Attempts
  <1>6. IsFiniteSet(1 .. m - 1) /\ Cardinality(1 .. m - 1) = m - 1
    BY <1>1, FS_Interval
  <1>7. f \in Surjection(1 .. m - 1, T)
    BY DEF Surjection
  <1>8. IsFiniteSet(T) /\ Cardinality(T) <= Cardinality(1 .. m - 1)
    <2> HIDE DEF f, T
    <2> QED BY <1>6, <1>7, FS_Surjection
  <1>9. /\ Cardinality(Attempts(p, "stop")) <= Cardinality(T)
        /\ Cardinality(Attempts(p, "stop")) \in Nat /\ Cardinality(T) \in Nat
    <2> HIDE DEF T
    <2> QED BY <1>5, <1>8, FS_Subset, FS_CardinalityType
  <1> QED BY <1>1, <1>6, <1>8, <1>9 DEF NextAttempt

LEMMA PickStopExits ==
  ASSUME AgentInv, ExitsInv, NEW w \in Callers, PickStop(w)
  PROVE  ExitsInv'
  <1>1. order' = order /\ caller \in [Callers -> Caller] /\ Of(w) \in Proposals
    BY AtWork DEF PickStop, ReadsOnly, StoreOnly, exchangeVars, AgentInv, AgentTypeOK, At
  <1>2. CASE Goes(w, "unprotected")
    <2>1. "unprotected" \in Steps \ Choosing
      BY DEF Steps, Choosing
    <2>2. StopsKeep
      BY <1>2, <2>1, GoesAway, AwayKeeps
    <2> QED BY <1>1, <2>2, SameStep, ExitsKeep DEF ExitsInv
  <1>3. ASSUME NEW n \in Nat, NEW drop, ChoosesStop(w, n, drop),
               \A m \in Tries : m < n /\ m \notin drop => Dead(order, Exit(Of(w), "stop", m))
        PROVE  ExitsInv'
    <2> DEFINE c == [caller[w] EXCEPT !.step = IF drop = {} THEN "stop" ELSE "resize",
                                      !.n = n, !.drop = drop]
    <2>1. caller' = [caller EXCEPT ![w] = c]
      BY <1>3 DEF ChoosesStop
    <2>2. c.n = n /\ c.p = Of(w) /\ c.drop = drop /\ (c.step = "stop" => drop = {})
      BY <1>1 DEF Caller, Of
    <2> HIDE DEF c
    <2>3. StopsKeep
      BY <1>1, <1>3, <2>1, <2>2 DEF StopsKeep, ChosenBy, Of
    <2> QED BY <1>1, <2>3, SameStep, ExitsKeep DEF ExitsInv
  <1> DEFINE open == UnresolvedOf(Of(w), "stop")
  <1>4. ASSUME NEW o \in open, NEW drop, ChoosesStop(w, o.n, drop)
        PROVE  ExitsInv'
    <2>1. o.n \in Tries /\ o = Exit(Of(w), "stop", o.n) /\ order[o].row # "none"
      BY DEF UnresolvedOf, Unresolved, OfKind, OrderIDs, Exit, Tries
    <2>2. \A m \in Tries : m < o.n => Dead(order, Exit(Of(w), "stop", m))
      BY <1>1, <2>1 DEF ExitsInv, StopsInv
    <2>3. o.n \in Nat
      BY <2>1, AgentAssumption DEF Tries
    <2> QED BY <1>3, <1>4, <2>2, <2>3
  <1>5. CASE ChoosesStop(w, NextAttempt(Of(w), "stop"), Numbers(open))
    <2>1. NextAttempt(Of(w), "stop") \in Nat
      BY <1>1, AttemptNumbers
    <2>2. ASSUME NEW m \in Tries, m < NextAttempt(Of(w), "stop"), m \notin Numbers(open)
          PROVE  Dead(order, Exit(Of(w), "stop", m))
      <3> DEFINE o == Exit(Of(w), "stop", m)
      <3>1. o \in OrderIDs /\ o \in OfKind(Of(w), "stop") /\ o.n = m
        BY <1>1, ExitIDs DEF OfKind, Exit
      <3>2. order[o].row # "none"
        BY <1>1, <2>2, NumbersInOrder DEF ExitsInv
      <3>3. ~Unresolved(o)
        BY <2>2, <3>1 DEF UnresolvedOf, Numbers
      <3>4. order[o].row = "done"
        BY <3>1, <3>2, <3>3 DEF Unresolved, AgentInv, AgentTypeOK, OrderRow
      <3> QED BY <3>1, <3>4 DEF Dead, ExitsInv, LiveInv
    <2> QED BY <1>3, <1>5, <2>1, <2>2
  <1>6. \/ Goes(w, "unprotected")
        \/ \E o \in open, drop \in SUBSET Numbers(open) : ChoosesStop(w, o.n, drop)
        \/ ChoosesStop(w, NextAttempt(Of(w), "stop"), Numbers(open))
    <2> DEFINE same == {o \in open : order[o].asked = caller[w].qty}
    <2>1. ASSUME NEW n \in Numbers(same), NEW drop \in SUBSET Numbers(open), ChoosesStop(w, n, drop)
          PROVE  \E o \in open, d \in SUBSET Numbers(open) : ChoosesStop(w, o.n, d)
      <3>1. PICK o \in open : o.n = n
        BY DEF Numbers
      <3> QED BY <2>1, <3>1
    <2>2. \A n : {m \in Numbers(open) : n < m} \in SUBSET Numbers(open)
      OBVIOUS
    <2> HIDE DEF open
    <2> QED BY <2>1, <2>2 DEF PickStop, open
  <1> HIDE DEF open
  <1> QED BY <1>2, <1>4, <1>5, <1>6

LEMMA ResizeExits ==
  ASSUME AgentInv, ExitsInv, NEW w \in Callers, ResizeStop(w)
  PROVE  ExitsInv'
  <1>1. /\ caller \in [Callers -> Caller] /\ Of(w) \in Proposals /\ LedgerInv /\ LiveInv
        /\ caller[w].step = "resize" /\ caller[w].drop \in SUBSET Tries
    BY AtWork DEF ResizeStop, AgentInv, AgentTypeOK, ExitsInv, Caller, At, Tries
  <1>2. CASE Goes(w, "unprotected") /\ UNCHANGED exchangeVars
    <2>1. Away(w)
      BY <1>2, GoesAway DEF Steps, Choosing
    <2> QED BY <1>1, <1>2, <2>1, AwayKeeps, SameStep, ExitsKeep DEF exchangeVars
  <1>3. ASSUME NEW n \in caller[w].drop, order[Exit(Of(w), "stop", n)].at = "working",
               SetRow(Exit(Of(w), "stop", n), "done", "ended"),
               ChoosesStop(w, caller[w].n, caller[w].drop \ {n})
        PROVE  ExitsInv'
    <2> DEFINE o == Exit(Of(w), "stop", n)
               c == [caller[w] EXCEPT
                       !.step = IF caller[w].drop \ {n} = {} THEN "stop" ELSE "resize",
                       !.n = caller[w].n, !.drop = caller[w].drop \ {n}]
    <2>1. o \in OrderIDs /\ order[o].row = "live"
      BY <1>1, <1>3, ExitIDs DEF LiveInv
    <2>2. Calm(o)
      BY <1>1, <1>3, <2>1, SetRowCalm
    <2>3. Dead(order', o)
      BY <1>1, <1>3, <2>1 DEF SetRow, Dead, LedgerInv, LedgerTypes, OrderRow
    <2>4. ExitStep
      BY <1>1, <2>1, <2>2, CalmStep
    <2>5. caller' = [caller EXCEPT ![w] = c]
      BY <1>3 DEF ChoosesStop
    <2>6. /\ c.n = caller[w].n /\ c.p = Of(w) /\ c.drop = caller[w].drop \ {n}
          /\ c.step = "stop" => caller[w].drop \subseteq {n}
      BY <1>1 DEF Caller, Of
    <2> HIDE DEF c
    <2>7. \A m \in Tries : ChosenBy(w, m)' => m = n \/ ChosenBy(w, m)
      BY <1>1, <2>5, <2>6 DEF ChosenBy
    <2>8. StopsKeep
      BY <1>1, <2>3, <2>5, <2>6, <2>7 DEF StopsKeep, ChosenBy, Of
    <2> QED BY <2>4, <2>8, ExitsKeep
  <1> QED BY <1>2, <1>3 DEF ResizeStop

-----------------------------------------------------------------------------
(* The steps.                                                              *)

\* A request begins, or a step only writes rows.
LEMMA RequestExits ==
  ASSUME AgentInv, ExitsInv, NEW w \in Callers, RequestNext(w)
  PROVE  ExitsInv'
  <1>1. PICK p \in Proposals :
          \/ \E step \in {"reject", "reconcile", "protect", "close"} : Begin(w, p, step)
          \/ \E then \in {"nothing", "approve", "claim"} : BeginEvaluation(w, p, then)
    BY DEF RequestNext, CreateFromTask, Risk, Approve, Reject, Execute, ReconcileRequest, Close
  <1>2. caller \in [Callers -> Caller]
    BY DEF AgentInv, AgentTypeOK
  <1>3. ASSUME NEW step \in {"reject", "reconcile", "protect", "close"}, Begin(w, p, step)
        PROVE  Away(w) /\ order' = order
    BY <1>2, <1>3 DEF Begin, Away, Working, Choosing, exchangeVars
  <1>4. ASSUME NEW then \in {"nothing", "approve", "claim"}, BeginEvaluation(w, p, then)
        PROVE  Away(w) /\ order' = order
    BY <1>2, <1>4 DEF BeginEvaluation, Away, Working, Choosing, exchangeVars
  <1>5. Away(w) /\ order' = order
    BY <1>1, <1>3, <1>4
  <1> QED BY <1>5, AwayKeeps, SameStep, ExitsKeep DEF ExitsInv

RowSteps(w) ==
    \/ EvaluateRisk(w) \/ RiskCheck(w) \/ SaveRisk(w)
    \/ SaveApproval(w) \/ SaveRejection(w)
    \/ Claim(w) \/ Reload(w) \/ RecordExecution(w) \/ Block(w)
    \/ MarkExecuted(w) \/ MarkUncertain(w) \/ Reconcile(w)
    \/ Protect(w) \/ SaveProtection(w)
    \/ CloseLeg(w) \/ ReadQuantity(w) \/ ReadAgain(w)
    \/ CheckClosed(w) \/ Release(w) \/ SaveClosed(w)
    \/ Abandon(w)

LEMMA RowExits ==
  ASSUME AgentInv, ExitsInv, NEW w \in Callers, RowSteps(w)
  PROVE  ExitsInv'
  <1>1. order' = order
    BY DEF RowSteps, EvaluateRisk, RiskCheck, SaveRisk, SaveApproval, SaveRejection, Claim,
           Reload, RecordExecution, Block, MarkExecuted, MarkUncertain, Reconcile, Protect,
           SaveProtection, CloseLeg, ReadQuantity, ReadAgain, CheckClosed, Release, SaveClosed,
           Abandon, ReadsOnly, StoreOnly, exchangeVars
  <1>2. CASE EvaluateRisk(w) /\ ~Ends(w)
    <2> DEFINE c == [caller[w] EXCEPT !.step = "check", !.was = status[Of(w)]]
    <2>1. caller' = [caller EXCEPT ![w] = c]
      BY <1>2 DEF EvaluateRisk
    <2>2. caller \in [Callers -> Caller]
      BY DEF AgentInv, AgentTypeOK
    <2>3. c.step = "check"
      BY <2>2 DEF Caller
    <2> HIDE DEF c
    <2> QED BY <2>1, <2>2, <2>3, <1>1, AwayKeeps, SameStep, ExitsKeep DEF Away, Choosing, ExitsInv
  <1>3. CASE SaveRisk(w) /\ ~Ends(w)
    <2>1. Goes(w, "approve") \/ Goes(w, "claim")
      BY <1>3 DEF SaveRisk, GoesOn
    <2>2. Away(w)
      BY <2>1, GoesAway DEF Steps, Choosing
    <2> QED BY <1>1, <2>2, AwayKeeps, SameStep, ExitsKeep DEF ExitsInv
  <1>4. CASE Ends(w) \/ \E step \in {"pass", "fail", "record", "reload", "reconcile", "submit",
                 "block", "blocked", "marked", "protect", "doubted", "lookup", "close",
                 "unprotected", "cleanup", "quantity", "release", "pick_close",
                 "drop"} : Goes(w, step) \/ Keeps(w, step)
    <2>1. Away(w)
      BY <1>4, GoesAway DEF Steps, Choosing
    <2> QED BY <1>1, <2>1, AwayKeeps, SameStep, ExitsKeep DEF ExitsInv
  <1>5. CASE RiskCheck(w) \/ SaveApproval(w) \/ SaveRejection(w) \/ Claim(w) \/ Reload(w)
             \/ RecordExecution(w) \/ Block(w) \/ MarkExecuted(w) \/ MarkUncertain(w)
    BY <1>4, <1>5 DEF RiskCheck, SaveApproval, SaveRejection, Claim, Reload, RecordExecution,
                      Block, MarkExecuted, MarkUncertain
  <1>6. CASE Reconcile(w) \/ SaveProtection(w) \/ CloseLeg(w) \/ ReadQuantity(w)
             \/ CheckClosed(w) \/ Release(w) \/ SaveClosed(w) \/ Abandon(w)
    BY <1>4, <1>6 DEF Reconcile, SaveProtection, CloseLeg, ReadQuantity,
                      CheckClosed, Release, SaveClosed, Abandon
  <1>7. ASSUME NEW c, caller' = [caller EXCEPT ![w] = c], c.step \notin Choosing
        PROVE  ExitsInv'
    <2>1. Away(w)
      BY <1>7 DEF Away, AgentInv, AgentTypeOK
    <2> QED BY <1>1, <2>1, AwayKeeps, SameStep, ExitsKeep DEF ExitsInv
  <1>8. CASE Protect(w)
    <2> DEFINE c == [Working("pick_stop", Of(w)) EXCEPT !.qty = managed]
    <2>1. c.step \notin Choosing
      BY DEF Working, Choosing
    <2>2. \/ caller' = [caller EXCEPT ![w] = c]
          \/ \E step \in {"close", "unprotected"} : Goes(w, step)
      BY <1>8 DEF Protect
    <2> HIDE DEF c
    <2> QED BY <1>4, <1>7, <2>1, <2>2
  <1>9. CASE ReadAgain(w)
    <2>1. ASSUME NEW lots, caller' = [caller EXCEPT ![w].step = "submit_close", ![w].qty = lots]
          PROVE  ExitsInv'
      <3> DEFINE c == [caller[w] EXCEPT !.step = "submit_close", !.qty = lots]
      <3>1. caller' = [caller EXCEPT ![w] = c]
        BY <2>1
      <3>2. c.step \notin Choosing
        BY DEF AgentInv, AgentTypeOK, Caller, Choosing
      <3> HIDE DEF c
      <3> QED BY <1>7, <3>1, <3>2
    <2> QED BY <1>4, <1>9, <2>1 DEF ReadAgain
  <1> QED BY <1>2, <1>3, <1>4, <1>5, <1>6, <1>8, <1>9 DEF RowSteps

\* A step that calls an operation for one order.
LEMMA OrderExits ==
  ASSUME AgentInv, ExitsInv, NEW o \in OrderIDs, Calm(o),
         order[o].row = "none" /\ order'[o].row # "none" => Submits(o),
         caller' = caller \/ \E w \in Callers : Away(w)
  PROVE  ExitsInv'
  <1>1. StopsKeep
    BY AwayKeeps, SameKeeps
  <1>2. ExitStep
    BY CalmStep DEF ExitsInv
  <1> QED BY <1>1, <1>2, ExitsKeep

LEMMA SubmitExits ==
  ASSUME AgentInv, ExitsInv, NEW w \in Callers,
         SubmitClaimed(w) \/ LookUpEntry(w) \/ SubmitStop(w) \/ SubmitClose(w)
  PROVE  ExitsInv'
  <1>1. /\ ~At(w, "idle") /\ Of(w) \in Proposals /\ LedgerInv /\ LiveInv
        /\ caller[w].qty \in Nat /\ Lots \in Nat
    BY AtWork, AgentAssumption
    DEF SubmitClaimed, LookUpEntry, SubmitStop, SubmitClose, At, AgentInv, ExitsInv, Caller
  <1>2. Ends(w) \/ \E step \in {"mark", "lookup", "doubt", "protected", "unprotected", "closing"} :
                      Goes(w, step)
    BY DEF SubmitClaimed, LookUpEntry, SubmitStop, SubmitClose
  <1>3. Away(w)
    BY <1>2, GoesAway DEF Steps, Choosing
  <1>4. CASE SubmitClaimed(w) \/ LookUpEntry(w)
    <2> DEFINE o == Entry(Of(w))
    <2>1. o \in OrderIDs /\ o.kind # "stop"
      BY <1>1, EntryFacts DEF IsEntry
    <2>2. Calm(o)
      BY <1>1, <1>4, <2>1, ExecuteCalm, LookUpCalm DEF SubmitClaimed, LookUpEntry
    <2> HIDE DEF o
    <2> QED BY <1>3, <2>1, <2>2, OrderExits DEF Submits
  <1>5. CASE SubmitStop(w)
    <2> DEFINE o == Exit(Of(w), "stop", caller[w].n)
    <2>1. o \in OrderIDs
      BY <1>5, ExitFacts DEF SubmitStop, At
    <2>2. Calm(o)
      BY <1>1, <1>5, <2>1, ExecuteCalm DEF SubmitStop
    <2>3. Submits(o)
      BY <1>5 DEF SubmitStop, At, Submits
    <2> HIDE DEF o
    <2> QED BY <1>3, <2>1, <2>2, <2>3, OrderExits
  <1>6. CASE SubmitClose(w)
    <2> DEFINE o == Exit(Of(w), "close", caller[w].n)
    <2>1. o \in OrderIDs /\ o.kind # "stop"
      BY <1>6, ExitFacts DEF SubmitClose, At, Exit
    <2>2. Calm(o)
      BY <1>1, <1>6, <2>1, ExecuteCalm DEF SubmitClose
    <2> HIDE DEF o
    <2> QED BY <1>3, <2>1, <2>2, OrderExits DEF Submits
  <1> QED BY <1>4, <1>5, <1>6

LEMMA PickCloseExits ==
  ASSUME AgentInv, ExitsInv, NEW w \in Callers, PickClose(w)
  PROVE  ExitsInv'
  <1>1. ~At(w, "idle") /\ Of(w) \in Proposals /\ LedgerInv /\ LiveInv
    BY AtWork DEF PickClose, At, AgentInv, ExitsInv
  <1>2. NextAttempt(Of(w), "close") \in Nat
    BY <1>1, AttemptNumbers
  <1>3. Away(w)
    BY <1>2, GoesAway DEF PickClose
  <1>4. CASE UNCHANGED exchangeVars
    BY <1>3, <1>4, AwayKeeps, SameStep, ExitsKeep DEF exchangeVars, ExitsInv
  <1>5. ASSUME NEW o \in UnresolvedOf(Of(w), "close"), LookUpFinds(o) \/ LookUpFails(o)
        PROVE  ExitsInv'
    <2>1. o \in OrderIDs /\ order[o].row # "none"
      BY DEF UnresolvedOf, OfKind, Unresolved
    <2> QED BY <1>1, <1>3, <1>5, <2>1, LookUpCalm, OrderExits
  <1> QED BY <1>4, <1>5 DEF PickClose

LEMMA CancelExits ==
  ASSUME AgentInv, ExitsInv, NEW w \in Callers, DropStops(w) \/ CancelStops(w)
  PROVE  ExitsInv'
  <1>1. LedgerInv /\ LiveInv
    BY DEF AgentInv, ExitsInv
  <1>2. \A o \in UnresolvedOf(Of(w), "stop") : o \in OrderIDs /\ order[o].row # "none"
    BY DEF UnresolvedOf, OfKind, Unresolved
  <1>3. caller' = caller \/ Away(w)
    <2>1. \/ caller' = caller \/ Ends(w)
          \/ \E step \in {"save_closed"} : Goes(w, step)
      BY DEF DropStops, CancelStops
    <2> QED BY <2>1, GoesAway DEF Steps, Choosing
  <1>4. StopsKeep
    BY <1>3, AwayKeeps, SameKeeps
  <1>5. CASE DropStops(w)
    <2>1. PICK gone \in SUBSET {o \in UnresolvedOf(Of(w), "stop") : order[o].at = "working"} :
            order' = [o \in OrderIDs |-> IF o \in gone THEN Canceled(o) ELSE order[o]]
      BY <1>5 DEF DropStops
    <2>2. \A o \in OrderIDs : /\ order[o] \in OrderRow
                              /\ Canceled(o).row = "done" /\ Canceled(o).at = "ended"
      BY <1>1 DEF LedgerInv, LedgerTypes, Canceled, OrderRow
    <2>3. \A o \in OrderIDs : order[o].row = "none" => order'[o].row = "none"
      BY <1>2, <2>1
    <2>4. ExitStep
      BY <1>1, <2>1, <2>2, <2>3 DEF ExitStep, LiveInv, Dead
    <2> QED BY <1>4, <2>4, ExitsKeep
  <1>6. CASE CancelStops(w)
    <2>1. CASE UNCHANGED exchangeVars
      BY <1>1, <1>4, <2>1, SameStep, ExitsKeep DEF exchangeVars
    <2>2. ASSUME NEW o \in UnresolvedOf(Of(w), "stop"), SetRow(o, "done", "ended")
          PROVE  ExitsInv'
      BY <1>1, <1>2, <1>3, <2>2, SetRowCalm, OrderExits
    <2> QED BY <1>6, <2>1, <2>2 DEF CancelStops
  <1> QED BY <1>5, <1>6

LEMMA WorldExits ==
  ASSUME AgentInv, ExitsInv, WorldNext \/ SyncNext \/ UNCHANGED agentVars
  PROVE  ExitsInv'
  <1>1. LedgerInv /\ LiveInv /\ \A o \in OrderIDs : order[o] \in OrderRow
    BY DEF AgentInv, AgentTypeOK, ExitsInv
  <1>2. caller' = caller
    BY DEF WorldNext, SyncNext, Fill, EndOrder, LoopLooksUp, LoopCancels,
           LoopShrinks, Expire, SyncLists, SyncReads, SyncSaves, SyncFails,
           WorldOnly, SyncOnly, agentVars
  <1>3. CASE \E o \in OrderIDs : Fill(o) \/ EndOrder(o) \/ LoopLooksUp(o) \/ LoopCancels(o)
    <2>1. PICK o \in OrderIDs : Fill(o) \/ EndOrder(o) \/ LoopLooksUp(o) \/ LoopCancels(o)
      BY <1>3
    <2>2. CASE LoopLooksUp(o)
      BY <1>1, <1>2, <2>2, LookUpCalm, OrderExits DEF LoopLooksUp
    <2>3. CASE EndOrder(o) \/ LoopCancels(o)
      <3>1. order[o].at = "working" /\ order[o].row = "live"
        BY <1>1, <2>3 DEF EndOrder, LoopCancels, LiveInv
      <3>2. \E row \in {"live", "done"} : SetRow(o, row, "ended")
        BY <2>3, <3>1 DEF EndOrder, LoopCancels
      <3>3. Calm(o)
        BY <1>1, <3>1, <3>2, SetRowCalm
      <3> QED BY <1>2, <3>1, <3>3, OrderExits
    <2>4. CASE Fill(o)
      <3> DEFINE new == [order[o] EXCEPT !.filled = @ + 1,
                                         !.at = IF order[o].filled + 1 < order[o].size
                                                THEN "working" ELSE "filled"]
      <3>1. order[o].at = "working" /\ order[o].row = "live"
        BY <1>1, <2>4 DEF Fill, LiveInv
      <3>2. new.row = "live"
        BY <1>1, <3>1 DEF OrderRow
      <3>3. order' = [order EXCEPT ![o] = new]
        BY <2>4 DEF Fill
      <3> HIDE DEF new
      <3>4. Calm(o)
        BY <1>1, <3>1, <3>2, <3>3, RowCalm DEF Dead
      <3> QED BY <1>2, <3>1, <3>4, OrderExits
    <2> QED BY <2>1, <2>2, <2>3, <2>4
  <1>4. CASE order' = order
    BY <1>1, <1>2, <1>4, SameStep, SameKeeps, ExitsKeep
  <1>5. CASE ~(\E o \in OrderIDs : Fill(o) \/ EndOrder(o) \/ LoopLooksUp(o) \/ LoopCancels(o))
    <2>1. order' = order
      BY <1>5 DEF WorldNext, SyncNext, LoopShrinks, Expire, SyncLists, SyncReads,
                  SyncSaves, SyncFails, SyncOnly, exchangeVars, agentVars
    <2> QED BY <1>4, <2>1
  <1> QED BY <1>3, <1>5

LEMMA ExitsInit ==
  ASSUME AgentInit PROVE ExitsInv
  <1>1. \A o \in OrderIDs : /\ order[o].at # "working"
                            /\ ~IsEntry(o) => order[o].row = "none"
    BY DEF AgentInit, BookedEntry, NoOrder, Entry, IsEntry
  <1>2. \A w \in Callers : caller[w].step = "idle"
    BY DEF AgentInit, Idle, Working
  <1>3. LiveInv /\ ClosesInv /\ ChosenInv
    BY <1>1, <1>2 DEF LiveInv, ClosesInv, ChosenInv, ChosenBy, IsEntry
  <1>4. StopsInv
    BY <1>1, ExitIDs DEF StopsInv, Exit, IsEntry
  <1> QED BY <1>3, <1>4 DEF ExitsInv

LEMMA ExitsNext ==
  ASSUME AgentInv, ExitsInv, [AgentNext]_agentVars PROVE ExitsInv'
  <1>1. ASSUME NEW w \in Callers, HandlerNext(w) PROVE ExitsInv'
    BY <1>1, RowExits, SubmitExits, PickStopExits, ResizeExits, PickCloseExits, CancelExits
    DEF HandlerNext, RowSteps
  <1> QED BY <1>1, RequestExits, WorldExits DEF AgentNext

LEMMA ExitsInvAlways == AgentSpec => []ExitsInv
  BY ExitsInit, ExitsNext, AgentInvAlways, PTL DEF AgentSpec

-----------------------------------------------------------------------------
\* Requests that protect or close one position at the same time never have two
\* stops or two closes at work for a proposal.  A close is numbered only when
\* none is unresolved; a stop goes out only when all before it are at their end
\* or were cancelled, be they for the same quantity or for another; and two
\* requests that choose the same number reserve the same row.
THEOREM OneExitAtWork == AgentSpec => []OneStopOneClose
  <1>1. ASSUME AgentInv, ExitsInv, NEW p \in Proposals, NEW kind \in {"stop", "close"}
        PROVE  Cardinality(WorkingOf(p, kind)) <= 1
    <2>1. ASSUME NEW x \in WorkingOf(p, kind), NEW y \in WorkingOf(p, kind)
          PROVE  x = y
      <3>1. /\ x \in OrderIDs /\ x.kind = kind /\ x.p = p /\ order[x].at = "working"
            /\ y \in OrderIDs /\ y.kind = kind /\ y.p = p /\ order[y].at = "working"
        BY DEF WorkingOf, OfKind
      <3>2. /\ order[x].row # "none" /\ order[y].row # "none"
            /\ ~Dead(order, x) /\ ~Dead(order, y)
        BY <1>1, <3>1 DEF ExitsInv, LiveInv, Dead
      <3>3. CASE kind = "close"
        BY <1>1, <3>1, <3>2, <3>3 DEF ExitsInv, ClosesInv
      <3>4. CASE kind = "stop"
        <4>1. /\ x.n \in Tries /\ x = Exit(p, "stop", x.n)
              /\ y.n \in Tries /\ y = Exit(p, "stop", y.n)
          BY <3>1, <3>4 DEF OrderIDs, Exit, Tries
        <4>2. ~(x.n < y.n) /\ ~(y.n < x.n)
          BY <1>1, <3>2, <4>1 DEF ExitsInv, StopsInv
        <4>3. x.n = y.n
          BY <4>1, <4>2, AgentAssumption DEF Tries
        <4> QED BY <4>1, <4>3
      <3> QED BY <3>3, <3>4
    <2>2. CASE WorkingOf(p, kind) = {}
      BY <2>2, FS_EmptySet
    <2>3. CASE WorkingOf(p, kind) # {}
      <3>1. PICK x : WorkingOf(p, kind) = {x}
        BY <2>1, <2>3
      <3> QED BY <3>1, FS_Singleton
    <2> QED BY <2>2, <2>3
  <1>2. AgentInv /\ ExitsInv => OneStopOneClose
    BY <1>1 DEF OneStopOneClose
  <1> QED BY <1>2, AgentInvAlways, ExitsInvAlways, PTL
=============================================================================
