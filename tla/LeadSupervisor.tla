--------------------------- MODULE LeadSupervisor ---------------------------
(***************************************************************************)
(* What decides whether the lead account may open a position               *)
(* (service/leadaccount/executor.go, state.go, supervisor.go,              *)
(* reconciler.go), composed with its stream and mirror: LeadSupervisor.Run *)
(* reconciles the outstanding orders once and keeps the report as a proof, *)
(* then runs the stream; every snapshot the stream seeds uses the proof to *)
(* release the hold on opening; every fault of the stream is recorded in   *)
(* the runtime guard.  ExecuteOpen checks guard, rules and evidence, holds *)
(* further opens and submits, all under the adapter's mutex.               *)
(*                                                                         *)
(* The gates of riskRunState are open, as in the fixtures of the tests: a  *)
(* production build has no code that opens them.  Simulated tells whether  *)
(* the adapter is one of those fixtures; in any other, LeadDurableOpenGate *)
(* refuses every open.                                                     *)
(***************************************************************************)
EXTENDS LeadMirror

CONSTANTS
    Opens,      \* opening orders
    Simulated,  \* simulateEvidence is set: the adapter of a fixture
    MaxRuns     \* bound: calls of Run

ASSUME RunsBound == MaxRuns \in Nat

VARIABLES
    adapter,    \* LeadExecutionAdapter: its mutex, held by ExecuteOpen or not, and pendingReconcile
    guard,      \* LeadRuntimeGuard: recorded faults and the pause; the process's emergency latch
    opener,     \* the call of ExecuteOpen inside the mutex
    ledger,     \* the managed orders of the lead account
    supervisor  \* LeadSupervisor: the call of Run and its recovery proof

adapterVars == <<adapter, guard, opener, ledger, supervisor>>
vars == <<account, socket, mirror, stream, mishaps, adapter, guard, opener, ledger, supervisor>>

Temporary == {"ws", "snapshot", "rules", "api"}
Codes == Temporary \cup {"pending", "trip"}

NoOrder == "none"
LedgerStates == {"none", "outstanding", "settled"}
OpenerSteps == {"idle", "permit", "evidence", "submit", "send"}
RunSteps == {"idle", "recover", "blocked", "stream"}
NoProof == 0

LeadTypeOK ==
    /\ MirrorTypeOK
    /\ adapter \in [locked : BOOLEAN, pending : BOOLEAN]
    /\ guard \in [faults : SUBSET Codes, paused : BOOLEAN, latched : BOOLEAN]
    /\ opener \in [step : OpenerSteps, order : Opens \cup {NoOrder}, limited : BOOLEAN]
    /\ ledger \in [Opens -> LedgerStates]
    /\ supervisor \in [step : RunSteps, run : 0 .. MaxRuns, proof : 0 .. MaxRuns]

\* Orders of an earlier process may still be outstanding, and the emergency latch
\* of this one may be set before the adapter is made.
LeadInit ==
    /\ MirrorInit
    /\ adapter = [locked |-> FALSE, pending |-> FALSE]
    /\ \E latched \in BOOLEAN : guard = [faults |-> {}, paused |-> FALSE, latched |-> latched]
    /\ opener = [step |-> "idle", order |-> NoOrder, limited |-> FALSE]
    /\ ledger \in [Opens -> LedgerStates]
    /\ supervisor = [step |-> "idle", run |-> 0, proof |-> NoProof]

Outstanding == {o \in Opens : ledger[o] = "outstanding"}
Records(code) == guard' = [guard EXCEPT !.faults = @ \cup {code}]

-----------------------------------------------------------------------------
(* ExecuteOpen.                                                            *)

OpenerAt(step) == opener.step = step
OpenerGoes(step) == opener' = [opener EXCEPT !.step = step]

\* The call ends and releases the mutex.
OpenReturns ==
    /\ opener' = [step |-> "idle", order |-> NoOrder, limited |-> FALSE]
    /\ adapter' = [adapter EXCEPT !.locked = FALSE]

ExecuteOpen(o) ==
    /\ OpenerAt("idle") /\ ~adapter.locked
    /\ ledger[o] = "none"
    /\ opener' = [opener EXCEPT !.step = "permit", !.order = o]
    /\ adapter' = [adapter EXCEPT !.locked = TRUE]
    /\ UNCHANGED <<mirrorVars, guard, ledger, supervisor>>

\* No hold, no emergency latch, a durable gate that lets pass (it never does),
\* no recorded fault of any class, no pause.
Permits == ~adapter.pending /\ ~guard.latched /\ Simulated /\ guard.faults = {} /\ ~guard.paused

CheckPermits ==
    /\ OpenerAt("permit")
    /\ \/ Permits /\ OpenerGoes("evidence") /\ UNCHANGED adapter
       \/ ~Permits /\ OpenReturns
    /\ UNCHANGED <<mirrorVars, guard, ledger, supervisor>>

\* Exchange rules and account snapshot are read.  A read that fails is
\* recorded.  Complete fresh evidence clears the temporary faults, and the
\* risk check lets the order pass, refuses it, or refuses it with a trip.
CheckEvidence ==
    /\ OpenerAt("evidence") /\ ~opener.limited
    /\ \/ /\ mishaps < MaxMishaps /\ mishaps' = mishaps + 1
          /\ \E code \in {"rules", "snapshot"} : Records(code)
          /\ OpenReturns
       \/ /\ guard' = [guard EXCEPT !.faults = @ \ Temporary]
          /\ OpenerGoes("submit")
          /\ UNCHANGED <<mishaps, adapter>>
       \/ /\ \E trip \in SUBSET {"trip"} :
                guard' = [guard EXCEPT !.faults = (@ \ Temporary) \cup trip]
          /\ OpenReturns
          /\ UNCHANGED mishaps
    /\ UNCHANGED <<account, socket, mirror, stream, ledger, supervisor>>

\* Further opens are held before the order is claimed and sent.
SubmitOpen ==
    /\ OpenerAt("submit")
    /\ adapter' = [adapter EXCEPT !.pending = TRUE]
    /\ Records("pending")
    /\ ledger' = [ledger EXCEPT ![opener.order] = "outstanding"]
    /\ OpenerGoes("send")
    /\ UNCHANGED <<mirrorVars, supervisor>>

\* Execute returns: the order is booked, was refused, or remains outstanding.
SendReturns ==
    /\ OpenerAt("send") /\ ~opener.limited
    /\ \E outcome \in {"none", "outstanding", "settled"} :
          ledger' = [ledger EXCEPT ![opener.order] = IF @ = "settled" THEN @ ELSE outcome]
    /\ OpenReturns
    /\ UNCHANGED <<mirrorVars, guard, supervisor>>

\* The exchange limits a request made inside the mutex: the client calls the
\* rate limit handler before the request returns.
OpenLimited ==
    /\ opener.step \in {"evidence", "send"} /\ ~opener.limited
    /\ supervisor.step # "idle"
    /\ mishaps < MaxMishaps /\ mishaps' = mishaps + 1
    /\ opener' = [opener EXCEPT !.limited = TRUE]
    /\ UNCHANGED <<account, socket, mirror, stream, adapter, guard, ledger, supervisor>>

\* Mistake: the handler records through the adapter and waits for its mutex.
RateLimitWaits ==
    /\ opener.limited /\ ~adapter.locked
    /\ Records("api")
    /\ opener' = [opener EXCEPT !.limited = FALSE]
    /\ UNCHANGED <<mirrorVars, adapter, ledger, supervisor>>

\* The rate limit handler records in the guard, without the adapter's mutex.
RateLimitHandler ==
    /\ opener.limited
    /\ Records("api")
    /\ opener' = [opener EXCEPT !.limited = FALSE]
    /\ UNCHANGED <<mirrorVars, adapter, ledger, supervisor>>

\* A request of the stream is limited: same handler.
StreamLimited ==
    /\ stream.step \in {"key", "holdings", "orders"} /\ ~stream.canceled
    /\ supervisor.step # "idle"
    /\ mishaps < MaxMishaps /\ mishaps' = mishaps + 1
    /\ Records("api")
    /\ Reports(IF At("key") THEN "ws" ELSE "snapshot")
    /\ UNCHANGED <<account, socket, mirror, adapter, opener, ledger, supervisor>>

\* Mistake: pausing does not wait for the call inside the mutex.
PauseAtOnce ==
    /\ ~guard.paused
    /\ guard' = [guard EXCEPT !.paused = TRUE]
    /\ UNCHANGED <<mirrorVars, adapter, opener, ledger, supervisor>>

PauseOpens ==
    /\ ~adapter.locked /\ ~guard.paused
    /\ guard' = [guard EXCEPT !.paused = TRUE]
    /\ UNCHANGED <<mirrorVars, adapter, opener, ledger, supervisor>>

\* The emergency stop is an atomic flag of the process that nothing resets: it
\* is set without the adapter's mutex.
LatchLeadEmergencyPause ==
    /\ ~guard.latched
    /\ guard' = [guard EXCEPT !.latched = TRUE]
    /\ UNCHANGED <<mirrorVars, adapter, opener, ledger, supervisor>>

OpenerNext ==
    \/ CheckPermits \/ CheckEvidence \/ SubmitOpen \/ SendReturns \/ RateLimitHandler

-----------------------------------------------------------------------------
(* The supervisor.                                                         *)

RunAt(step) == supervisor.step = step

\* Mistake: the proof of the previous call of Run is kept.
RunKeepsProof ==
    /\ RunAt("idle") /\ supervisor.run < MaxRuns
    /\ supervisor' = [supervisor EXCEPT !.step = "recover", !.run = @ + 1]
    /\ UNCHANGED <<mirrorVars, adapter, guard, opener, ledger>>

\* Run forgets the proof of an earlier call and starts the recovery.
Run ==
    /\ RunAt("idle") /\ supervisor.run < MaxRuns
    /\ supervisor' = [step |-> "recover", run |-> supervisor.run + 1, proof |-> NoProof]
    /\ UNCHANGED <<mirrorVars, adapter, guard, opener, ledger>>

\* The recovery looks an outstanding order up and books its final state.
RecoverOrder(o) ==
    /\ RunAt("recover")
    /\ ledger[o] = "outstanding"
    /\ ledger' = [ledger EXCEPT ![o] = "settled"]
    /\ UNCHANGED <<mirrorVars, adapter, guard, opener, supervisor>>

\* Run starts the stream, or returns because its context was canceled meanwhile.
RunGoesOn(proof) ==
    \/ /\ stream' = [stream EXCEPT !.step = "begin", !.canceled = FALSE]
       /\ supervisor' = [supervisor EXCEPT !.step = "stream", !.proof = proof]
    \/ /\ supervisor' = [supervisor EXCEPT !.step = "idle", !.proof = proof]
       /\ UNCHANGED stream

\* The report is a proof when no order is outstanding at the end; an order that
\* is, or a failed read, blocks it.
RecoveryEnds ==
    /\ RunAt("recover")
    /\ \/ Outstanding = {} /\ RunGoesOn(supervisor.run) /\ UNCHANGED mishaps
       \/ /\ \/ Outstanding # {} /\ UNCHANGED mishaps
             \/ mishaps < MaxMishaps /\ mishaps' = mishaps + 1
          /\ supervisor' = [supervisor EXCEPT !.step = "blocked"]
          /\ UNCHANGED stream
    /\ UNCHANGED <<account, socket, mirror, adapter, guard, opener, ledger>>

\* Mistake: the reason of the block is recorded instead of a known fault code.
BlockedReportsText ==
    /\ RunAt("blocked") /\ ~adapter.locked
    /\ Records("lead_orders_still_unresolved")
    /\ RunGoesOn(supervisor.proof)
    /\ UNCHANGED <<account, socket, mirror, mishaps, adapter, opener, ledger>>

\* A blocked recovery is reported as a fault, and the stream starts all the same.
BlockedReport ==
    /\ RunAt("blocked") /\ ~adapter.locked
    /\ Records("pending")
    /\ RunGoesOn(supervisor.proof)
    /\ UNCHANGED <<account, socket, mirror, mishaps, adapter, opener, ledger>>

\* Mistake: the fault is cleared before the mutex is waited for.
ClearBeforeLock ==
    /\ CallReady
    /\ \/ /\ supervisor.proof # NoProof
          /\ adapter' = [adapter EXCEPT !.pending = @ /\ adapter.locked]
          /\ guard' = [guard EXCEPT !.faults = @ \ {"pending"}]
       \/ UNCHANGED <<adapter, guard>>
    /\ UNCHANGED <<opener, ledger, supervisor>>

\* onReady: with a proof, completeAuthoritativeRecovery waits for the mutex and
\* releases the hold, unless the snapshot has grown too old meanwhile.
OnReady ==
    /\ CallReady
    /\ \/ /\ supervisor.proof # NoProof /\ ~adapter.locked
          /\ adapter' = [adapter EXCEPT !.pending = FALSE]
          /\ guard' = [guard EXCEPT !.faults = @ \ {"pending"}]
       \/ UNCHANGED <<adapter, guard>>
    /\ UNCHANGED <<opener, ledger, supervisor>>

\* ReportLeadFault waits for the call inside the mutex.
ReportLeadFault ==
    /\ CallFault
    /\ ~adapter.locked
    /\ Records(stream.fault)
    /\ UNCHANGED <<adapter, opener, ledger, supervisor>>

\* The stream returns and Run with it.
RunReturns ==
    /\ StreamReturns
    /\ supervisor' = [supervisor EXCEPT !.step = "idle"]
    /\ UNCHANGED <<adapter, guard, opener, ledger>>

StreamStep ==
    /\ StreamAlone /\ ~StreamReturns
    /\ UNCHANGED adapterVars

\* The calls of the supervisor and of the stream that wait for the mutex.
MutexWaits == BlockedReport \/ OnReady \/ ReportLeadFault

SupervisorNext == RecoveryEnds \/ MutexWaits \/ RunReturns

LeadNext ==
    \/ ExchangeMoves /\ UNCHANGED adapterVars
    \/ \E g \in Generations : HandlerNext(g) /\ UNCHANGED adapterVars
    \/ StreamStep
    \/ CancelStream /\ UNCHANGED adapterVars
    \/ \E o \in Opens : ExecuteOpen(o) \/ RecoverOrder(o)
    \/ OpenerNext \/ OpenLimited \/ StreamLimited \/ PauseOpens \/ LatchLeadEmergencyPause
    \/ Run \/ SupervisorNext

\* Goroutines run on; a waiter of a Go mutex is not passed over for ever.
LeadFairness ==
    /\ WF_vars(StreamStep) /\ WF_vars(OpenerNext)
    /\ WF_vars(RecoveryEnds \/ RunReturns) /\ SF_vars(MutexWaits)
    /\ \A g \in Generations : WF_vars(HandlerNext(g) /\ UNCHANGED adapterVars)

LeadSpec == LeadInit /\ [][LeadNext]_vars /\ LeadFairness

-----------------------------------------------------------------------------
(* Properties.                                                             *)

\* The hold on opening is released only by the recovery proof of the running
\* supervisor: a call of Run whose recovery was blocked keeps opens blocked
\* however often its stream reconnects, also when an earlier call had a proof
\* (supervisor.go:67-69, 103-114).
ReleasedByOwnProof ==
    [][(adapter.pending /\ ~adapter'.pending) \/ ("pending" \in guard.faults /\ "pending" \notin guard'.faults)
         => supervisor.proof = supervisor.run /\ mirror.ready]_vars

\* A hold is never without its fault, so what the status reports explains why
\* opens are refused (executor.go:129-131, 280-283).
HoldIsReported == adapter.pending => "pending" \in guard.faults

\* Of everything that is reported to the adapter, only a rate limit of another
\* request can come up between an open's check and its submission: no pause, hold
\* or stream fault slips in (executor.go:109-113).  The emergency latch can: it is
\* not reported to the adapter but set beside it, and looked at by the first
\* check alone (executor.go:154-156).
SubmitsUndisturbed ==
    [][OpenerAt("submit") /\ ~OpenerAt("submit")' =>
         ~guard.paused /\ ~adapter.pending /\ guard.faults \subseteq {"api"}]_vars

\* The fault of a lost connection is temporary: when the stream serves again,
\* nothing else forbids to open, and opens are tried again and again, then fresh
\* evidence clears it (state.go:214-216).
StreamFaultClears ==
    /\ []<>OpenerAt("permit")
    /\ <>[](At("up") /\ mirror.ready)
    /\ <>[](~adapter.pending /\ guard.faults \subseteq {"ws"} /\ ~guard.paused /\ ~guard.latched)
    => []<>("ws" \notin guard.faults)

\* No call of ExecuteOpen is stuck in the mutex it holds, although the client's
\* rate limit handler runs inside of it (supervisor.go:87-90).
OpenEventuallyReturns == ~OpenerAt("idle") ~> OpenerAt("idle")

\* A running stream comes to serve a ready mirror, or is canceled, whatever
\* connections and calls failed before.
StreamRecovers == (~At("idle")) ~> ((At("up") /\ mirror.ready) \/ At("idle"))
=============================================================================
