------------------------ MODULE LeadSupervisorProofs ------------------------
(* The safety properties of LeadSupervisor for all orders, holdings and     *)
(* bounds.  Fairness plays no part in them.                                 *)
EXTENDS LeadSupervisor, LeadMirrorProofs

\* The supervisor starts the stream only when none runs, and a fault that is
\* about to be reported is one of the stream's faults.
RunInv ==
    /\ supervisor.step # "stream" => stream.step = "idle"
    /\ stream.step = "report" => stream.fault \in StreamFaults
    /\ supervisor.proof \in {NoProof, supervisor.run}

\* The mutex is held from the first to the last step of ExecuteOpen; between
\* the check and the submission nothing but a rate limit is recorded.
OpenerInv ==
    /\ adapter.locked <=> opener.step # "idle"
    /\ opener.step # "idle" => opener.order \in Opens
    /\ opener.step \in {"evidence", "submit"} =>
         ~adapter.pending /\ ~guard.paused /\ guard.faults \subseteq {"api"}

AdapterTypeOK ==
    /\ adapter \in [locked : BOOLEAN, pending : BOOLEAN]
    /\ guard \in [faults : SUBSET Codes, paused : BOOLEAN, latched : BOOLEAN]
    /\ opener \in [step : OpenerSteps, order : Opens \cup {NoOrder}, limited : BOOLEAN]
    /\ ledger \in [Opens -> LedgerStates]
    /\ supervisor \in [step : RunSteps, run : 0 .. MaxRuns, proof : 0 .. MaxRuns]

OwnInv == AdapterTypeOK /\ RunInv /\ OpenerInv /\ HoldIsReported

LeadInv == MirrorInv /\ OwnInv

\* The initial state satisfies the invariant.
LEMMA LeadInitInv == LeadInit => LeadInv
  <1> SUFFICES ASSUME LeadInit PROVE LeadInv
    OBVIOUS
  <1>1. MirrorInv
    BY MirrorInitInv DEF LeadInit
  <1>2. AdapterTypeOK
    BY RunsBound DEF LeadInit, AdapterTypeOK, OpenerSteps, RunSteps, NoProof
  <1>3. RunInv /\ OpenerInv /\ HoldIsReported
    BY DEF LeadInit, MirrorInit, RunInv, OpenerInv, HoldIsReported
  <1> QED BY <1>1, <1>2, <1>3 DEF LeadInv, OwnInv

\* A step that only uses up a failure keeps the mirror's invariant.
LEMMA MishapInv ==
    ASSUME MirrorInv, UNCHANGED <<account, socket, mirror, stream>>, mishaps' \in 0 .. MaxMishaps
    PROVE  MirrorInv'
  BY DEF MirrorInv, MirrorTypeOK, StreamInv, Current

\* What a step of the whole does to mirror and stream is a step of theirs, but
\* for the failures the other calls use up.
LEMMA LeadMapsToMirror ==
    ASSUME LeadInv, [LeadNext]_vars
    PROVE  \/ [MirrorNext]_mirrorVars
           \/ UNCHANGED <<account, socket, mirror, stream>> /\ mishaps' \in 0 .. MaxMishaps
  <1>0. mishaps \in 0 .. MaxMishaps /\ (supervisor.step # "stream" => stream.step = "idle")
    BY DEF LeadInv, OwnInv, RunInv, MirrorInv, MirrorTypeOK
  <1>1. CASE UNCHANGED vars
    BY <1>1 DEF vars, mirrorVars
  <1>2. CASE ExchangeMoves \/ (\E g \in Generations : HandlerNext(g)) \/ StreamAlone \/ CancelStream
    BY <1>2 DEF MirrorNext, StreamNext
  <1>3. CASE CallReady \/ CallFault \/ StreamReturns
    BY <1>3 DEF MirrorNext, StreamNext, StreamAlone
  <1>4. CASE UNCHANGED mirrorVars
    BY <1>4
  <1>5. CASE CheckEvidence \/ OpenLimited
    BY <1>0, <1>5, MirrorBounds DEF CheckEvidence, OpenLimited
  <1>6. CASE StreamLimited
    <2>1. CASE At("key")
      <3>1. GetListenKey
        BY <1>6, <2>1 DEF StreamLimited, GetListenKey, CallFails
      <3> QED BY <3>1 DEF MirrorNext, StreamNext, StreamAlone
    <2>2. CASE At("holdings")
      <3>1. SeedReadsHoldings
        BY <1>6, <2>2 DEF StreamLimited, SeedReadsHoldings, ReadParts, CallFails, At
      <3> QED BY <3>1 DEF MirrorNext, StreamNext, StreamAlone
    <2>3. CASE At("orders")
      <3>1. SeedReadsOrders
        BY <1>6, <2>3 DEF StreamLimited, SeedReadsOrders, ReadParts, CallFails, At
      <3> QED BY <3>1 DEF MirrorNext, StreamNext, StreamAlone
    <2> QED BY <1>6, <2>1, <2>2, <2>3 DEF StreamLimited, At
  <1>7. ASSUME NEW STATE proof, RunGoesOn(proof), supervisor.step # "stream", UNCHANGED <<account, socket, mirror, mishaps>>
        PROVE [MirrorNext]_mirrorVars
    <2>1. CASE UNCHANGED stream
      BY <1>7, <2>1 DEF mirrorVars
    <2>2. CASE stream' = [stream EXCEPT !.step = "begin", !.canceled = FALSE]
      <3>1. StartStream
        BY <1>0, <1>7, <2>2 DEF StartStream, At
      <3> QED BY <3>1 DEF MirrorNext
    <2> QED BY <1>7, <2>1, <2>2 DEF RunGoesOn
  <1>8. CASE RecoveryEnds
    <2>1. CASE RunGoesOn(supervisor.run) /\ UNCHANGED mishaps
      BY <1>7, <1>8, <2>1 DEF RecoveryEnds, RunAt
    <2>2. CASE UNCHANGED stream /\ (UNCHANGED mishaps \/ (mishaps < MaxMishaps /\ mishaps' = mishaps + 1))
      BY <1>0, <1>8, <2>2, MirrorBounds DEF RecoveryEnds
    <2> QED BY <1>8, <2>1, <2>2 DEF RecoveryEnds
  <1>9. CASE BlockedReport
    BY <1>7, <1>9 DEF BlockedReport, RunAt
  <1>10. CASE \E o \in Opens : ExecuteOpen(o) \/ RecoverOrder(o)
    BY <1>4, <1>10 DEF ExecuteOpen, RecoverOrder
  <1>11. CASE CheckPermits \/ SubmitOpen \/ SendReturns \/ RateLimitHandler
               \/ PauseOpens \/ LatchLeadEmergencyPause \/ Run
    BY <1>4, <1>11 DEF CheckPermits, SubmitOpen, SendReturns, RateLimitHandler, PauseOpens, LatchLeadEmergencyPause, Run
  <1> QED
    BY <1>1, <1>2, <1>3, <1>5, <1>6, <1>8, <1>9, <1>10, <1>11
       DEF LeadNext, StreamStep, OpenerNext, SupervisorNext, MutexWaits, OnReady, ReportLeadFault, RunReturns

\* Steps of exchange, handlers and stream leave the adapter and the supervisor
\* alone; a fault is only ever set on the way to its report.
LEMMA StreamKeepsOwn ==
    ASSUME LeadInv,
           \/ ExchangeMoves \/ (\E g \in Generations : HandlerNext(g))
           \/ (StreamAlone /\ ~StreamReturns) \/ CancelStream,
           UNCHANGED adapterVars
    PROVE  OwnInv'
  <1>1. AdapterTypeOK' /\ OpenerInv' /\ HoldIsReported'
    BY DEF LeadInv, OwnInv, adapterVars, AdapterTypeOK, OpenerInv, HoldIsReported
  <1>2. RunInv /\ MirrorTypeOK /\ UNCHANGED supervisor
    BY DEF LeadInv, OwnInv, MirrorInv, adapterVars
  <1> SUFFICES RunInv'
    BY <1>1 DEF OwnInv
  <1>3. UNCHANGED stream => RunInv'
    BY <1>2 DEF RunInv
  <1>4. CASE CancelStream
    BY <1>2, <1>4 DEF CancelStream, At, RunInv, MirrorTypeOK
  <1>5. CASE StreamAlone /\ ~StreamReturns
    <2>1. stream.step # "idle"
      BY <1>5 DEF StreamAlone, At, BeginGeneration, GetListenKey, Dial, SeedReadsHoldings, SeedReadsOrders,
         ReadParts, InstallSnapshot, Connect, CheckEarlyEvents, StreamEnds, CloseGeneration
    <2>2. stream'.step = "report" => stream'.fault \in StreamFaults
      BY <1>2, <1>5 DEF StreamAlone, MirrorTypeOK, BeginGeneration, GetListenKey, Dial, SeedReadsHoldings, SeedReadsOrders,
         ReadParts, InstallSnapshot, Connect, CheckEarlyEvents, StreamEnds, CloseGeneration, StreamGoes, Reports, StreamFaults
    <2> QED BY <1>2, <2>1, <2>2 DEF RunInv
  <1>6. CASE ExchangeMoves \/ (\E g \in Generations : HandlerNext(g))
    BY <1>3, <1>6 DEF ExchangeMoves, AccountChanges, ConnectionLost, HandlerNext, HandlerTakes, HandlerFlags, HandlerApplies
  <1> QED BY <1>4, <1>5, <1>6

\* When ExecuteOpen returns the mutex is free and the hold as it was.
LEMMA OpenReturnsFacts ==
    ASSUME AdapterTypeOK, OpenReturns
    PROVE  /\ adapter' \in [locked : BOOLEAN, pending : BOOLEAN]
           /\ opener' \in [step : OpenerSteps, order : Opens \cup {NoOrder}, limited : BOOLEAN]
           /\ ~adapter'.locked /\ adapter'.pending = adapter.pending /\ opener'.step = "idle"
  <1>1. adapter' \in [locked : BOOLEAN, pending : BOOLEAN] /\ ~adapter'.locked /\ adapter'.pending = adapter.pending
    BY DEF AdapterTypeOK, OpenReturns
  <1>2. opener' \in [step : OpenerSteps, order : Opens \cup {NoOrder}, limited : BOOLEAN] /\ opener'.step = "idle"
    BY DEF OpenReturns, OpenerSteps
  <1> QED BY <1>1, <1>2

\* The steps of ExecuteOpen and what may run beside it.
LEMMA OpenerKeepsOwn ==
    ASSUME LeadInv,
           \/ \E o \in Opens : ExecuteOpen(o)
           \/ OpenerNext \/ OpenLimited \/ PauseOpens \/ LatchLeadEmergencyPause
    PROVE  OwnInv'
  <1>0. AdapterTypeOK /\ RunInv /\ OpenerInv /\ HoldIsReported
    BY DEF LeadInv, OwnInv
  <1>1. RunInv'
    BY <1>0 DEF RunInv, OpenerNext, ExecuteOpen, CheckPermits, CheckEvidence, SubmitOpen, SendReturns,
       RateLimitHandler, OpenLimited, PauseOpens, LatchLeadEmergencyPause, mirrorVars
  <1>2. ASSUME NEW o \in Opens, ExecuteOpen(o) PROVE OwnInv'
    BY <1>0, <1>1, <1>2 DEF ExecuteOpen, OpenerAt, OwnInv, AdapterTypeOK, OpenerInv, HoldIsReported, OpenerSteps
  <1>3. CASE CheckPermits
    <2>1. CASE Permits /\ OpenerGoes("evidence") /\ UNCHANGED adapter
      BY <1>0, <1>1, <1>3, <2>1 DEF CheckPermits, OpenerAt, OpenerGoes, Permits,
         OwnInv, AdapterTypeOK, OpenerInv, HoldIsReported, OpenerSteps
    <2>2. CASE OpenReturns
      BY <1>0, <1>1, <1>3, <2>2, OpenReturnsFacts DEF CheckPermits,
         OwnInv, AdapterTypeOK, OpenerInv, HoldIsReported
    <2> QED BY <1>3, <2>1, <2>2 DEF CheckPermits
  <1>4. CASE CheckEvidence
    <2>1. adapter.locked /\ ~adapter.pending /\ ~guard.paused /\ guard.faults \subseteq {"api"}
      BY <1>0, <1>4 DEF CheckEvidence, OpenerAt, OpenerInv
    <2>2. CASE (\E code \in {"rules", "snapshot"} : Records(code)) /\ OpenReturns
      <3>1. guard' \in [faults : SUBSET Codes, paused : BOOLEAN, latched : BOOLEAN]
        BY <1>0, <2>2 DEF Records, AdapterTypeOK, Codes, Temporary
      <3> QED BY <1>0, <1>1, <1>4, <2>1, <2>2, <3>1, OpenReturnsFacts DEF CheckEvidence,
                 OwnInv, AdapterTypeOK, OpenerInv, HoldIsReported
    <2>3. CASE guard' = [guard EXCEPT !.faults = @ \ Temporary] /\ OpenerGoes("submit") /\ UNCHANGED adapter
      BY <1>0, <1>1, <1>4, <2>1, <2>3 DEF CheckEvidence, OpenerAt, OpenerGoes,
         OwnInv, AdapterTypeOK, OpenerInv, HoldIsReported, OpenerSteps, Codes, Temporary
    <2>4. CASE (\E trip \in SUBSET {"trip"} :
                  guard' = [guard EXCEPT !.faults = (@ \ Temporary) \cup trip]) /\ OpenReturns
      <3>1. guard' \in [faults : SUBSET Codes, paused : BOOLEAN, latched : BOOLEAN]
        BY <1>0, <2>4 DEF AdapterTypeOK, Codes, Temporary
      <3> QED BY <1>0, <1>1, <1>4, <2>1, <2>4, <3>1, OpenReturnsFacts DEF CheckEvidence,
                 OwnInv, AdapterTypeOK, OpenerInv, HoldIsReported
    <2> QED BY <1>4, <2>2, <2>3, <2>4 DEF CheckEvidence
  <1>5. CASE SubmitOpen
    BY <1>0, <1>1, <1>5 DEF SubmitOpen, OpenerAt, OpenerGoes, Records,
       OwnInv, AdapterTypeOK, OpenerInv, HoldIsReported, OpenerSteps, LedgerStates, Codes
  <1>6. CASE SendReturns
    BY <1>0, <1>1, <1>6 DEF SendReturns, OpenerAt, OpenReturns,
       OwnInv, AdapterTypeOK, OpenerInv, HoldIsReported, OpenerSteps, LedgerStates
  <1>7. CASE RateLimitHandler
    BY <1>0, <1>1, <1>7 DEF RateLimitHandler, Records,
       OwnInv, AdapterTypeOK, OpenerInv, HoldIsReported, Codes, Temporary
  <1>8. CASE OpenLimited
    BY <1>0, <1>1, <1>8 DEF OpenLimited, OwnInv, AdapterTypeOK, OpenerInv, HoldIsReported
  <1>9. CASE PauseOpens
    BY <1>0, <1>1, <1>9 DEF PauseOpens, OwnInv, AdapterTypeOK, OpenerInv, HoldIsReported
  <1>10. CASE LatchLeadEmergencyPause
    BY <1>0, <1>1, <1>10 DEF LatchLeadEmergencyPause, OwnInv, AdapterTypeOK, OpenerInv, HoldIsReported
  <1> QED BY <1>2, <1>3, <1>4, <1>5, <1>6, <1>7, <1>8, <1>9, <1>10 DEF OpenerNext

\* The steps of the supervisor and its callbacks.
LEMMA SupervisorKeepsOwn ==
    ASSUME LeadInv,
           \/ \E o \in Opens : RecoverOrder(o)
           \/ StreamLimited \/ Run \/ SupervisorNext
    PROVE  OwnInv'
  <1>0. AdapterTypeOK /\ RunInv /\ OpenerInv /\ HoldIsReported /\ MirrorTypeOK
    BY DEF LeadInv, OwnInv, MirrorInv
  <1>1. ASSUME NEW o \in Opens, RecoverOrder(o) PROVE OwnInv'
    BY <1>0, <1>1 DEF RecoverOrder, mirrorVars, OwnInv, AdapterTypeOK, RunInv, OpenerInv, HoldIsReported, LedgerStates
  <1>2. CASE StreamLimited
    <2>1. RunInv'
      BY <1>0, <1>2 DEF StreamLimited, Reports, RunInv, MirrorTypeOK, StreamFaults
    <2> QED BY <1>0, <1>2, <2>1 DEF StreamLimited, Records, OwnInv, AdapterTypeOK, OpenerInv, HoldIsReported, Codes, Temporary
  <1>3. CASE Run
    <2>1. supervisor' \in [step : RunSteps, run : 0 .. MaxRuns, proof : 0 .. MaxRuns]
      BY <1>0, <1>3, RunsBound DEF Run, AdapterTypeOK, RunSteps, NoProof
    <2>2. RunInv'
      BY <1>0, <1>3 DEF Run, RunAt, mirrorVars, RunInv, NoProof
    <2> QED BY <1>0, <1>3, <2>1, <2>2 DEF Run, OwnInv, AdapterTypeOK, OpenerInv, HoldIsReported
  <1>4. ASSUME NEW STATE proof, proof \in {NoProof, supervisor.run}, supervisor.step # "stream", RunGoesOn(proof)
        PROVE  supervisor' \in [step : RunSteps, run : 0 .. MaxRuns, proof : 0 .. MaxRuns] /\ RunInv'
    <2>1. proof \in 0 .. MaxRuns
      BY <1>0, <1>4, RunsBound DEF AdapterTypeOK, NoProof
    <2>2. supervisor' \in [step : RunSteps, run : 0 .. MaxRuns, proof : 0 .. MaxRuns]
          /\ supervisor'.proof \in {NoProof, supervisor'.run}
      BY <1>0, <1>4, <2>1 DEF RunGoesOn, AdapterTypeOK, RunSteps
    <2>3. CASE UNCHANGED stream
      <3>1. stream.step = "idle"
        BY <1>0, <1>4 DEF RunInv
      <3> QED BY <2>2, <2>3, <3>1 DEF RunInv
    <2>4. CASE stream' = [stream EXCEPT !.step = "begin", !.canceled = FALSE]
               /\ supervisor' = [supervisor EXCEPT !.step = "stream", !.proof = proof]
      BY <1>0, <2>2, <2>4 DEF RunInv, MirrorTypeOK, AdapterTypeOK
    <2> QED BY <1>4, <2>2, <2>3, <2>4 DEF RunGoesOn
  <1>5. CASE RecoveryEnds
    <2>1. supervisor' \in [step : RunSteps, run : 0 .. MaxRuns, proof : 0 .. MaxRuns] /\ RunInv'
      <3>1. CASE RunGoesOn(supervisor.run)
        BY <1>4, <1>5, <3>1 DEF RecoveryEnds, RunAt
      <3>2. CASE supervisor' = [supervisor EXCEPT !.step = "blocked"] /\ UNCHANGED stream
        BY <1>0, <1>5, <3>2 DEF RecoveryEnds, RunAt, RunInv, AdapterTypeOK, RunSteps
      <3> QED BY <1>5, <3>1, <3>2 DEF RecoveryEnds
    <2> QED BY <1>0, <1>5, <2>1 DEF RecoveryEnds, OwnInv, AdapterTypeOK, OpenerInv, HoldIsReported
  <1>6. CASE BlockedReport
    <2>1. supervisor' \in [step : RunSteps, run : 0 .. MaxRuns, proof : 0 .. MaxRuns] /\ RunInv'
      BY <1>0, <1>4, <1>6 DEF BlockedReport, RunAt, RunInv
    <2> QED BY <1>0, <1>6, <2>1 DEF BlockedReport, Records, OwnInv, AdapterTypeOK, OpenerInv, HoldIsReported, Codes
  <1>7. CASE OnReady
    <2>1. RunInv'
      BY <1>0, <1>7 DEF OnReady, CallReady, At, StreamGoes, RunInv, MirrorTypeOK
    <2>2. CASE UNCHANGED <<adapter, guard>>
      BY <1>0, <1>7, <2>1, <2>2 DEF OnReady, OwnInv, AdapterTypeOK, OpenerInv, HoldIsReported
    <2>3. CASE /\ supervisor.proof # NoProof /\ ~adapter.locked
               /\ adapter' = [adapter EXCEPT !.pending = FALSE]
               /\ guard' = [guard EXCEPT !.faults = @ \ {"pending"}]
      <3>1. /\ adapter' \in [locked : BOOLEAN, pending : BOOLEAN] /\ guard' \in [faults : SUBSET Codes, paused : BOOLEAN, latched : BOOLEAN]
            /\ ~adapter'.pending /\ ~adapter'.locked
        BY <1>0, <2>3 DEF AdapterTypeOK
      <3>2. opener.step = "idle"
        BY <1>0, <2>3 DEF OpenerInv
      <3> QED BY <1>0, <1>7, <2>1, <3>1, <3>2 DEF OnReady, OwnInv, AdapterTypeOK, OpenerInv, HoldIsReported
    <2> QED BY <1>7, <2>2, <2>3 DEF OnReady
  <1>8. CASE ReportLeadFault
    <2>1. RunInv' /\ stream.fault \in Codes
      BY <1>0, <1>8 DEF ReportLeadFault, CallFault, At, RunInv, MirrorTypeOK, StreamFaults, Codes, Temporary
    <2> QED BY <1>0, <1>8, <2>1 DEF ReportLeadFault, Records, OwnInv, AdapterTypeOK, OpenerInv, HoldIsReported
  <1>9. CASE RunReturns
    <2>1. RunInv' /\ supervisor' \in [step : RunSteps, run : 0 .. MaxRuns, proof : 0 .. MaxRuns]
      BY <1>0, <1>9 DEF RunReturns, StreamReturns, At, StreamGoes, RunInv, MirrorTypeOK, AdapterTypeOK, RunSteps
    <2> QED BY <1>0, <1>9, <2>1 DEF RunReturns, OwnInv, AdapterTypeOK, OpenerInv, HoldIsReported
  <1> QED BY <1>1, <1>2, <1>3, <1>5, <1>6, <1>7, <1>8, <1>9 DEF SupervisorNext, MutexWaits

\* Every step keeps the invariant.
LEMMA LeadNextInv == LeadInv /\ [LeadNext]_vars => LeadInv'
  <1> SUFFICES ASSUME LeadInv, [LeadNext]_vars PROVE LeadInv'
    OBVIOUS
  <1>1. MirrorInv'
    BY LeadMapsToMirror, MirrorNextInv, MishapInv DEF LeadInv
  <1>2. CASE UNCHANGED vars
    BY <1>1, <1>2 DEF vars, LeadInv, OwnInv, AdapterTypeOK, RunInv, OpenerInv, HoldIsReported
  <1>3. CASE LeadNext
    BY <1>1, <1>3, StreamKeepsOwn, OpenerKeepsOwn, SupervisorKeepsOwn DEF LeadNext, LeadInv, StreamStep
  <1> QED BY <1>2, <1>3

\* All parts keep their types.
THEOREM LeadTypes == LeadSpec => []LeadTypeOK
  <1>1. LeadInv => LeadTypeOK
    BY DEF LeadInv, MirrorInv, OwnInv, AdapterTypeOK, LeadTypeOK
  <1> QED BY <1>1, LeadInitInv, LeadNextInv, PTL DEF LeadSpec

\* A hold on opening is always recorded as a fault too.
THEOREM LeadHoldIsReported == LeadSpec => []HoldIsReported
  <1>1. LeadInv => HoldIsReported
    BY DEF LeadInv, OwnInv
  <1> QED BY <1>1, LeadInitInv, LeadNextInv, PTL DEF LeadSpec

\* The composed system serves a ready mirror only from an open websocket.
THEOREM LeadReadyServed == LeadSpec => []ReadyOnlyWhileServed
  <1>1. LeadInv => ReadyOnlyWhileServed
    BY MirrorBounds DEF LeadInv, MirrorInv, StreamInv, MirrorTypeOK, ReadyOnlyWhileServed, Current, Generations, Seeded, Serving
  <1> QED BY <1>1, LeadInitInv, LeadNextInv, PTL DEF LeadSpec

\* In the composed system, too, the mirror moves forward by its own handler only.
THEOREM LeadMirrorMovesForward == LeadSpec => NoLateOrOldEvent
  <1>1. ASSUME LeadInv, [LeadNext]_vars, mirror.ready, mirror'.ready, mirror # mirror'
        PROVE  /\ socket[Current].handler # NoEvent /\ socket'[Current].handler = NoEvent
               /\ \A p \in Parts : mirror'.evidence[p] >= mirror.evidence[p]
    BY <1>1, LeadMapsToMirror, ForwardStep DEF LeadInv
  <1> QED BY <1>1, LeadInitInv, LeadNextInv, PTL DEF LeadSpec, NoLateOrOldEvent, mirrorVars, vars

\* Nor does what happens around the mirror leave more than one part overlooked.
THEOREM LeadOverlooksOne == LeadSpec => []AtMostOneOverlooked
  <1>1. LeadInit => CatchUpInv
    BY CatchUpInit DEF LeadInit
  <1>2. LeadInv /\ CatchUpInv /\ [LeadNext]_vars => CatchUpInv'
    BY LeadMapsToMirror, CatchUpNext, CatchUpUnchanged DEF LeadInv
  <1>3. LeadInv /\ CatchUpInv => AtMostOneOverlooked
    BY CaughtUpDrained DEF LeadInv
  <1> QED BY <1>1, <1>2, <1>3, LeadInitInv, LeadNextInv, PTL DEF LeadSpec

\* Steps that do not touch guard and adapter, or only record.
LEMMA GuardSteps ==
    ASSUME LeadInv, [LeadNext]_vars
    PROVE  \/ UNCHANGED <<adapter, guard>>
           \/ guard'.faults = guard.faults /\ adapter'.pending = adapter.pending
           \/ (\E code \in Codes : guard'.faults = guard.faults \cup {code}) /\ adapter'.pending = adapter.pending
           \/ CheckEvidence \/ SubmitOpen \/ (OnReady /\ supervisor.proof # NoProof /\ ~adapter.locked)
  <1>0. AdapterTypeOK /\ OpenerInv /\ RunInv /\ MirrorTypeOK
    BY DEF LeadInv, OwnInv, MirrorInv
  <1>1. CASE UNCHANGED vars
    BY <1>1 DEF vars
  <1>2. CASE UNCHANGED adapterVars
    BY <1>2 DEF adapterVars
  <1>3. CASE \E o \in Opens : ExecuteOpen(o) \/ RecoverOrder(o)
    BY <1>0, <1>3 DEF ExecuteOpen, RecoverOrder, AdapterTypeOK
  <1>4. CASE CheckPermits \/ SendReturns
    BY <1>0, <1>4 DEF CheckPermits, SendReturns, OpenReturns, AdapterTypeOK
  <1>5. CASE RateLimitHandler \/ StreamLimited \/ BlockedReport
    BY <1>0, <1>5 DEF RateLimitHandler, StreamLimited, BlockedReport, Records, AdapterTypeOK, Codes, Temporary
  <1>6. CASE PauseOpens \/ LatchLeadEmergencyPause
    BY <1>0, <1>6 DEF PauseOpens, LatchLeadEmergencyPause, AdapterTypeOK
  <1>7. CASE OpenLimited \/ Run \/ RecoveryEnds \/ RunReturns
    BY <1>7 DEF OpenLimited, Run, RecoveryEnds, RunReturns
  <1>8. CASE ReportLeadFault
    BY <1>0, <1>8 DEF ReportLeadFault, CallFault, At, Records, RunInv, StreamFaults, Codes, Temporary, AdapterTypeOK
  <1>9. CASE OnReady
    BY <1>9 DEF OnReady
  <1> QED
    BY <1>1, <1>2, <1>3, <1>4, <1>5, <1>6, <1>7, <1>8, <1>9
       DEF LeadNext, StreamStep, OpenerNext, SupervisorNext, MutexWaits

\* What CheckEvidence and SubmitOpen leave of hold and faults.
LEMMA OpenerKeepsHold ==
    ASSUME LeadInv, CheckEvidence \/ SubmitOpen
    PROVE  /\ adapter.pending => adapter'.pending
           /\ "pending" \in guard.faults => "pending" \in guard'.faults
  <1>0. AdapterTypeOK /\ OpenerInv
    BY DEF LeadInv, OwnInv
  <1>1. guard.faults \subseteq {"api"} /\ ~adapter.pending
    BY <1>0 DEF OpenerInv, CheckEvidence, SubmitOpen, OpenerAt
  <1> QED BY <1>1

\* The hold is released only by the proof of the running supervisor.
THEOREM LeadReleasedByOwnProof == LeadSpec => ReleasedByOwnProof
  <1>1. ASSUME LeadInv, [LeadNext]_vars,
               (adapter.pending /\ ~adapter'.pending) \/ ("pending" \in guard.faults /\ "pending" \notin guard'.faults)
        PROVE  supervisor.proof = supervisor.run /\ mirror.ready
    <2>1. OnReady /\ supervisor.proof # NoProof
      BY <1>1, GuardSteps, OpenerKeepsHold
    <2>2. mirror.ready
      BY <1>1, <2>1 DEF OnReady, CallReady, At, LeadInv, MirrorInv, StreamInv, Seeded
    <2> QED BY <1>1, <2>1, <2>2 DEF LeadInv, OwnInv, RunInv
  <1> QED BY <1>1, LeadInitInv, LeadNextInv, PTL DEF LeadSpec, ReleasedByOwnProof

\* Of what is reported to the adapter, nothing but a rate limit comes up between
\* the check and the submission.
THEOREM LeadSubmitsUndisturbed == LeadSpec => SubmitsUndisturbed
  <1>1. ASSUME LeadInv, OpenerAt("submit")
        PROVE ~guard.paused /\ ~adapter.pending /\ guard.faults \subseteq {"api"}
    BY <1>1 DEF LeadInv, OwnInv, OpenerInv, OpenerAt
  <1> QED BY <1>1, LeadInitInv, LeadNextInv, PTL DEF LeadSpec, SubmitsUndisturbed
=============================================================================
