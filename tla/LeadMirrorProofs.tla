-------------------------- MODULE LeadMirrorProofs --------------------------
(* Types, ReadyOnlyWhileServed, NoLateOrOldEvent and AtMostOneOverlooked of *)
(* LeadMirror, for all holdings, orders and bounds.                         *)
EXTENDS LeadMirror, FiniteSetTheorems, TLAPS

\* The steps from BeginGeneration to the deferred calls.
Serving == {"key", "dial", "holdings", "orders", "install", "connect", "check",
            "ready", "up", "report", "close"}
\* Between Dial and the end of the generation the websocket is open.
Dialed == {"holdings", "orders", "install", "connect", "check", "ready", "up"}
Seeded == {"connect", "check", "ready", "up"}

\* What ReadyOnlyWhileServed rests on: where the stream stands decides whether
\* the websocket is open and whether the mirror may be ready.
StreamInv ==
    /\ stream.step \in Serving => Current \in Generations
    /\ stream.step \in Dialed => socket[Current].open
    /\ stream.step \in Seeded => mirror.ready
    /\ mirror.ready => /\ stream.step \in Seeded \cup {"report", "close"}
                       /\ socket[Current].open

MirrorInv == MirrorTypeOK /\ StreamInv

\* The bounds of versions and generations, for the arithmetic below.
LEMMA VersionFacts ==
    /\ 0 \in Versions
    /\ Versions \subseteq Nat
    /\ \A p \in Parts : LastVersion(p) \in Versions
    /\ \A p \in Parts, v \in Versions : v < LastVersion(p) => v + 1 \in Versions
    /\ \A p \in Parts, v \in Versions : Shown(p, v) \in Versions
  BY MirrorBounds DEF Versions, LastVersion, Ended, Shown

\* The initial state satisfies the invariant.
LEMMA MirrorInitInv == MirrorInit => MirrorInv
  <1> SUFFICES ASSUME MirrorInit PROVE MirrorInv
    OBVIOUS
  <1>1. NoSocket \in Socket
    BY DEF NoSocket, Socket, NoEvent
  <1>2. Untouched \in [Parts -> Versions]
    BY VersionFacts DEF Untouched
  <1>3. MirrorTypeOK
    BY <1>1, <1>2, MirrorBounds DEF MirrorInit, MirrorTypeOK, StreamSteps, NoFault
  <1>4. StreamInv
    BY DEF MirrorInit, StreamInv, Serving, Dialed, Seeded
  <1> QED BY <1>3, <1>4 DEF MirrorInv

\* The exchange keeps the invariant.
LEMMA ExchangeInv == MirrorInv /\ ExchangeMoves => MirrorInv'
  <1> SUFFICES ASSUME MirrorInv, ExchangeMoves PROVE MirrorInv'
    OBVIOUS
  <1> USE DEF MirrorInv
  <1>1. ASSUME NEW p \in Parts, AccountChanges(p) PROVE MirrorInv'
    <2>1. account[p] \in Versions /\ account[p] + 1 \in Versions
      BY <1>1, VersionFacts DEF AccountChanges, MirrorTypeOK
    <2>2. account' \in [Parts -> Versions]
      BY <1>1, <2>1 DEF AccountChanges, MirrorTypeOK
    <2>3. [part |-> p, version |-> account[p] + 1] \in Events
      BY <2>1 DEF Events
    <2>4. ASSUME NEW g \in Generations
          PROVE socket'[g] \in Socket /\ socket'[g].open = socket[g].open
      <3>1. socket[g] \in Socket
        BY DEF MirrorTypeOK
      <3>2. socket'[g] = IF socket[g].open /\ ~socket[g].lost
                         THEN [socket[g] EXCEPT
                                 !.events = Append(@, [part |-> p, version |-> account[p] + 1])]
                         ELSE socket[g]
        BY <1>1 DEF AccountChanges
      <3>3. Append(socket[g].events, [part |-> p, version |-> account[p] + 1]) \in Seq(Events)
        BY <3>1, <2>3 DEF Socket
      <3> QED BY <3>1, <3>2, <3>3 DEF Socket
    <2>5. socket' \in [Generations -> Socket]
      BY <1>1, <2>4 DEF AccountChanges, MirrorTypeOK
    <2>6. MirrorTypeOK'
      BY <1>1, <2>2, <2>5 DEF AccountChanges, MirrorTypeOK
    <2>7. StreamInv'
      BY <1>1, <2>4 DEF AccountChanges, StreamInv, MirrorTypeOK, Current, Serving, Dialed, Seeded
    <2> QED BY <2>6, <2>7
  <1>2. ASSUME NEW g \in Generations, ConnectionLost(g) PROVE MirrorInv'
    <2>1. socket' \in [Generations -> Socket]
      BY <1>2 DEF ConnectionLost, MirrorTypeOK, Socket
    <2>2. \A h \in Generations : socket'[h].open = socket[h].open
      BY <1>2 DEF ConnectionLost, MirrorTypeOK, Socket
    <2>3. mishaps' \in 0 .. MaxMishaps
      BY <1>2, MirrorBounds DEF ConnectionLost, MirrorTypeOK
    <2>4. MirrorTypeOK'
      BY <1>2, <2>1, <2>3 DEF ConnectionLost, MirrorTypeOK
    <2>5. StreamInv'
      BY <1>2, <2>2 DEF ConnectionLost, StreamInv, MirrorTypeOK, Current, Serving, Dialed, Seeded
    <2> QED BY <2>4, <2>5
  <1> QED BY <1>1, <1>2 DEF ExchangeMoves

\* A handler keeps the invariant.
LEMMA HandlerInv == ASSUME NEW g \in Generations, MirrorInv, HandlerNext(g) PROVE MirrorInv'
  <1> USE DEF MirrorInv
  <1>0. socket[g] \in Socket
    BY DEF MirrorTypeOK
  <1>1. CASE HandlerTakes(g)
    <2>1. socket[g].events \in Seq(Events) /\ socket[g].events # <<>>
      BY <1>0, <1>1 DEF HandlerTakes, Socket
    <2>2. Head(socket[g].events) \in Events /\ Tail(socket[g].events) \in Seq(Events)
      BY <2>1
    <2>3. [step |-> IF socket[g].connected THEN "apply" ELSE "early",
           event |-> Head(socket[g].events)] \in Handling
      BY <2>2 DEF Handling
    <2>4. socket' \in [Generations -> Socket] /\ \A h \in Generations : socket'[h].open = socket[h].open
      BY <1>0, <1>1, <2>2, <2>3 DEF HandlerTakes, MirrorTypeOK, Socket
    <2> QED BY <1>1, <2>4 DEF HandlerTakes, MirrorTypeOK, StreamInv, Current, Serving, Dialed, Seeded
  <1>2. CASE HandlerFlags(g)
    <2>1. socket' \in [Generations -> Socket] /\ \A h \in Generations : socket'[h].open = socket[h].open
      BY <1>0, <1>2 DEF HandlerFlags, MirrorTypeOK, Socket
    <2> QED BY <1>2, <2>1 DEF HandlerFlags, MirrorTypeOK, StreamInv, Current, Serving, Dialed, Seeded
  <1>3. CASE HandlerApplies(g)
    <2>1. socket' \in [Generations -> Socket] /\ \A h \in Generations : socket'[h].open = socket[h].open
      BY <1>0, <1>3 DEF HandlerApplies, MirrorTypeOK, Socket
    <2>2. socket[g].handler.event \in Events
      BY <1>0, <1>3 DEF HandlerApplies, Socket, Handling, NoEvent
    <2>3. /\ mirror' \in [generation : 0 .. MaxGeneration, ready : BOOLEAN,
                          holds : [Parts -> Versions], evidence : [Parts -> Versions]]
          /\ mirror'.ready = mirror.ready /\ mirror'.generation = mirror.generation
      BY <1>3, <2>2, VersionFacts DEF HandlerApplies, ApplyEvent, MirrorTypeOK, Events
    <2> QED BY <1>3, <2>1, <2>3 DEF HandlerApplies, MirrorTypeOK, StreamInv, Current, Serving, Dialed, Seeded
  <1> QED BY <1>1, <1>2, <1>3 DEF HandlerNext

\* A failed call counts within its bound.
LEMMA CallFailsTypes == MirrorTypeOK /\ (CallFails \/ UNCHANGED mishaps) => mishaps' \in 0 .. MaxMishaps
  BY MirrorBounds DEF CallFails, MirrorTypeOK

\* The steps of the stream that leave mirror and websockets alone keep the
\* invariant when the next place asks for nothing that does not hold here.
LEMMA StreamMoves ==
    ASSUME MirrorInv, UNCHANGED <<account, socket, mirror>>, mishaps' \in 0 .. MaxMishaps,
           stream' \in [step : StreamSteps, seen : [Parts -> Versions],
                        fault : StreamFaults \cup {NoFault}, canceled : BOOLEAN],
           stream'.step \in Serving => Current \in Generations,
           stream'.step \in Dialed => socket[Current].open,
           stream'.step \in Seeded => mirror.ready,
           mirror.ready => stream'.step \in Seeded \cup {"report", "close"}
    PROVE  MirrorInv'
  BY DEF MirrorInv, MirrorTypeOK, StreamInv, Current

\* The stream keeps the invariant.
LEMMA StreamStepInv == MirrorInv /\ (StreamNext \/ StartStream \/ CancelStream) => MirrorInv'
  <1> SUFFICES ASSUME MirrorInv, StreamNext \/ StartStream \/ CancelStream PROVE MirrorInv'
    OBVIOUS
  <1> USE DEF MirrorInv
  <1>0. MirrorTypeOK /\ StreamInv /\ mishaps \in 0 .. MaxMishaps
    BY DEF MirrorTypeOK
  <1>1. CASE StartStream
    BY <1>0, <1>1, StreamMoves DEF StartStream, At, MirrorTypeOK, StreamInv, StreamSteps, Serving, Dialed, Seeded
  <1>2. CASE CancelStream
    BY <1>0, <1>2, StreamMoves DEF CancelStream, At, MirrorTypeOK, StreamInv, StreamSteps, Serving, Dialed, Seeded
  <1>3. CASE BeginGeneration
    <2>1. mirror' = [generation |-> mirror.generation + 1, ready |-> FALSE,
                     holds |-> Untouched, evidence |-> Untouched]
      BY <1>3 DEF BeginGeneration
    <2>2. mirror.generation + 1 \in Generations /\ mirror.generation + 1 \in 0 .. MaxGeneration
      BY <1>3, MirrorBounds DEF BeginGeneration, MirrorTypeOK, Generations
    <2>3. Untouched \in [Parts -> Versions]
      BY VersionFacts DEF Untouched
    <2>4. stream'.step = "key" /\ stream' \in [step : StreamSteps, seen : [Parts -> Versions],
                        fault : StreamFaults \cup {NoFault}, canceled : BOOLEAN]
      BY <1>0, <1>3 DEF BeginGeneration, StreamGoes, MirrorTypeOK, StreamSteps
    <2>5. MirrorTypeOK'
      BY <1>3, <2>1, <2>2, <2>3, <2>4 DEF BeginGeneration, MirrorTypeOK
    <2>6. StreamInv'
      BY <2>1, <2>2, <2>4 DEF StreamInv, Current, Serving, Dialed, Seeded
    <2> QED BY <2>5, <2>6
  <1>4. CASE GetListenKey
    <2>1. mishaps' \in 0 .. MaxMishaps
      BY <1>0, <1>4, CallFailsTypes DEF GetListenKey
    <2>2. /\ stream'.step \in {"dial", "report"}
          /\ stream' \in [step : StreamSteps, seen : [Parts -> Versions],
                          fault : StreamFaults \cup {NoFault}, canceled : BOOLEAN]
      BY <1>0, <1>4 DEF GetListenKey, StreamGoes, Reports, MirrorTypeOK, StreamSteps, StreamFaults
    <2> QED BY <1>0, <1>4, <2>1, <2>2, StreamMoves DEF GetListenKey, At, StreamInv, Serving, Dialed, Seeded
  <1>5. CASE Dial
    <2>0. stream.step = "dial" /\ Current \in Generations /\ ~mirror.ready
      BY <1>0, <1>5 DEF Dial, At, StreamInv, Serving, Seeded
    <2>1. CASE /\ socket' = [socket EXCEPT ![Current].open = TRUE]
               /\ StreamGoes("holdings") /\ UNCHANGED mishaps
      <3>1. socket' \in [Generations -> Socket] /\ socket'[Current].open
        BY <1>0, <2>0, <2>1 DEF MirrorTypeOK, Socket
      <3>2. stream'.step = "holdings" /\ stream' \in [step : StreamSteps, seen : [Parts -> Versions],
                          fault : StreamFaults \cup {NoFault}, canceled : BOOLEAN]
        BY <1>0, <2>1 DEF StreamGoes, MirrorTypeOK, StreamSteps
      <3>3. UNCHANGED <<account, mirror>>
        BY <1>5 DEF Dial
      <3>4. MirrorTypeOK'
        BY <1>0, <2>1, <3>1, <3>2, <3>3 DEF MirrorTypeOK
      <3>5. StreamInv'
        BY <2>0, <3>1, <3>2, <3>3 DEF StreamInv, Current, Serving, Dialed, Seeded
      <3> QED BY <3>4, <3>5
    <2>2. CASE Reports("ws") /\ CallFails /\ UNCHANGED socket
      <3>1. mishaps' \in 0 .. MaxMishaps
        BY <1>0, <2>2, CallFailsTypes
      <3>2. stream'.step = "report" /\ stream' \in [step : StreamSteps, seen : [Parts -> Versions],
                          fault : StreamFaults \cup {NoFault}, canceled : BOOLEAN]
        BY <1>0, <2>2 DEF Reports, MirrorTypeOK, StreamSteps, StreamFaults
      <3> QED BY <1>0, <1>5, <2>0, <2>2, <3>1, <3>2, StreamMoves DEF Dial, Serving, Dialed, Seeded
    <2> QED BY <1>5, <2>1, <2>2 DEF Dial
  <1>6. ASSUME NEW step \in {"holdings", "orders"}, NEW parts \in SUBSET Parts,
               NEW next \in {"orders", "install"}, ReadParts(step, parts, next)
        PROVE MirrorInv'
    <2>1. mishaps' \in 0 .. MaxMishaps
      BY <1>0, <1>6, CallFailsTypes DEF ReadParts
    <2>2. [p \in Parts |-> IF p \in parts THEN Shown(p, account[p]) ELSE stream.seen[p]] \in [Parts -> Versions]
      BY <1>0, VersionFacts DEF MirrorTypeOK
    <2>3. /\ stream'.step \in {"orders", "install", "report"}
          /\ stream' \in [step : StreamSteps, seen : [Parts -> Versions],
                          fault : StreamFaults \cup {NoFault}, canceled : BOOLEAN]
      <3>1. CASE stream' = [stream EXCEPT !.step = next,
                              !.seen = [p \in Parts |-> IF p \in parts THEN Shown(p, account[p]) ELSE @[p]]]
        BY <1>0, <2>2, <3>1 DEF MirrorTypeOK, StreamSteps
      <3>2. CASE Reports("snapshot")
        BY <1>0, <3>2 DEF Reports, MirrorTypeOK, StreamSteps, StreamFaults
      <3> QED BY <1>6, <3>1, <3>2 DEF ReadParts
    <2>4. stream.step \in {"holdings", "orders"} /\ Current \in Generations /\ socket[Current].open /\ ~mirror.ready
      BY <1>0, <1>6 DEF ReadParts, At, StreamInv, Serving, Dialed, Seeded
    <2> QED BY <1>0, <1>6, <2>1, <2>3, <2>4, StreamMoves DEF ReadParts, Serving, Dialed, Seeded
  <1>7. CASE InstallSnapshot
    <2>0. stream.step = "install" /\ Current \in Generations /\ socket[Current].open /\ ~mirror.ready
      BY <1>0, <1>7 DEF InstallSnapshot, At, StreamInv, Serving, Dialed, Seeded
    <2>1. CASE Reports("snapshot") /\ UNCHANGED mirror
      <3>1. stream'.step = "report" /\ stream' \in [step : StreamSteps, seen : [Parts -> Versions],
                          fault : StreamFaults \cup {NoFault}, canceled : BOOLEAN]
        BY <1>0, <2>1 DEF Reports, MirrorTypeOK, StreamSteps, StreamFaults
      <3>2. UNCHANGED <<account, socket, mishaps>>
        BY <1>7 DEF InstallSnapshot
      <3> QED BY <1>0, <2>0, <2>1, <3>1, <3>2, StreamMoves DEF Serving, Dialed, Seeded
    <2>2. CASE /\ mirror' = [mirror EXCEPT
                          !.ready = TRUE, !.holds = stream.seen,
                          !.evidence = [p \in Parts |->
                              IF p \in AccountOrders THEN stream.seen[p] ELSE 0]]
               /\ stream' = [stream EXCEPT !.step = "connect", !.seen = Untouched]
      <3>1. [p \in Parts |-> IF p \in AccountOrders THEN stream.seen[p] ELSE 0] \in [Parts -> Versions]
        BY <1>0, VersionFacts DEF MirrorTypeOK
      <3>2. /\ mirror' \in [generation : 0 .. MaxGeneration, ready : BOOLEAN,
                             holds : [Parts -> Versions], evidence : [Parts -> Versions]]
            /\ mirror'.generation = mirror.generation /\ mirror'.ready
        BY <1>0, <2>2, <3>1 DEF MirrorTypeOK
      <3>3. stream'.step = "connect" /\ stream' \in [step : StreamSteps, seen : [Parts -> Versions],
                          fault : StreamFaults \cup {NoFault}, canceled : BOOLEAN]
        BY <1>0, <2>2, VersionFacts DEF MirrorTypeOK, StreamSteps, Untouched
      <3>4. UNCHANGED <<account, socket, mishaps>>
        BY <1>7 DEF InstallSnapshot
      <3>5. MirrorTypeOK'
        BY <1>0, <3>2, <3>3, <3>4 DEF MirrorTypeOK
      <3>6. StreamInv'
        BY <2>0, <3>2, <3>3, <3>4 DEF StreamInv, Current, Serving, Dialed, Seeded
      <3> QED BY <3>5, <3>6
    <2> QED BY <1>7, <2>1, <2>2 DEF InstallSnapshot
  <1>8. CASE Connect
    <2>0. stream.step = "connect" /\ Current \in Generations /\ socket[Current].open /\ mirror.ready
      BY <1>0, <1>8 DEF Connect, At, StreamInv, Serving, Dialed, Seeded
    <2>1. socket' \in [Generations -> Socket] /\ socket'[Current].open
      BY <1>0, <1>8, <2>0 DEF Connect, MirrorTypeOK, Socket
    <2>2. stream'.step = "check" /\ stream' \in [step : StreamSteps, seen : [Parts -> Versions],
                        fault : StreamFaults \cup {NoFault}, canceled : BOOLEAN]
      BY <1>0, <1>8 DEF Connect, StreamGoes, MirrorTypeOK, StreamSteps
    <2>3. UNCHANGED <<account, mirror, mishaps>>
      BY <1>8 DEF Connect
    <2>4. MirrorTypeOK'
      BY <1>0, <2>1, <2>2, <2>3 DEF MirrorTypeOK
    <2>5. StreamInv'
      BY <2>0, <2>1, <2>2, <2>3 DEF StreamInv, Current, Serving, Dialed, Seeded
    <2> QED BY <2>4, <2>5
  <1>9. CASE CheckEarlyEvents
    <2>1. /\ stream'.step \in {"report", "ready"}
          /\ stream' \in [step : StreamSteps, seen : [Parts -> Versions],
                          fault : StreamFaults \cup {NoFault}, canceled : BOOLEAN]
      BY <1>0, <1>9 DEF CheckEarlyEvents, StreamGoes, Reports, MirrorTypeOK, StreamSteps, StreamFaults
    <2> QED BY <1>0, <1>9, <2>1, StreamMoves DEF CheckEarlyEvents, At, StreamInv, Serving, Dialed, Seeded
  <1>10. CASE CallReady
    BY <1>0, <1>10, StreamMoves DEF CallReady, At, StreamGoes, MirrorTypeOK, StreamInv, StreamSteps, Serving, Dialed, Seeded
  <1>11. CASE StreamEnds
    <2>1. mishaps' \in 0 .. MaxMishaps
      BY <1>0, <1>11, CallFailsTypes DEF StreamEnds
    <2>2. /\ stream'.step \in {"close", "report"}
          /\ stream' \in [step : StreamSteps, seen : [Parts -> Versions],
                          fault : StreamFaults \cup {NoFault}, canceled : BOOLEAN]
      BY <1>0, <1>11 DEF StreamEnds, StreamGoes, Reports, MirrorTypeOK, StreamSteps, StreamFaults
    <2> QED BY <1>0, <1>11, <2>1, <2>2, StreamMoves DEF StreamEnds, At, StreamInv, Serving, Dialed, Seeded
  <1>12. CASE CallFault
    BY <1>0, <1>12, StreamMoves DEF CallFault, At, MirrorTypeOK, StreamInv, StreamSteps, Serving, Dialed, Seeded
  <1>13. CASE CloseGeneration
    <2>0. Current \in Generations
      BY <1>0, <1>13 DEF CloseGeneration, At, StreamInv, Serving
    <2>1. Closed(socket[Current]) \in Socket
      <3>1. socket[Current].handler \in Handling \cup {NoEvent}
        BY <1>0, <2>0 DEF MirrorTypeOK, Socket
      <3>2. NoSocket \in Socket
        BY DEF NoSocket, Socket, NoEvent
      <3>3. ASSUME NEW h \in Handling \cup {NoEvent} PROVE [NoSocket EXCEPT !.handler = h] \in Socket
        BY <3>2 DEF Socket
      <3> QED BY <3>1, <3>3 DEF Closed
    <2>2. socket' \in [Generations -> Socket]
      BY <1>0, <1>13, <2>0, <2>1 DEF CloseGeneration, MirrorTypeOK
    <2>3. /\ mirror' \in [generation : 0 .. MaxGeneration, ready : BOOLEAN,
                           holds : [Parts -> Versions], evidence : [Parts -> Versions]]
          /\ ~mirror'.ready
      BY <1>0, <1>13 DEF CloseGeneration, MirrorTypeOK
    <2>4. stream'.step = "begin" /\ stream' \in [step : StreamSteps, seen : [Parts -> Versions],
                        fault : StreamFaults \cup {NoFault}, canceled : BOOLEAN]
      BY <1>0, <1>13, VersionFacts DEF CloseGeneration, MirrorTypeOK, StreamSteps, Untouched
    <2>5. MirrorTypeOK'
      BY <1>0, <1>13, <2>2, <2>3, <2>4 DEF CloseGeneration, MirrorTypeOK
    <2>6. StreamInv'
      BY <2>3, <2>4 DEF StreamInv, Serving, Dialed, Seeded
    <2> QED BY <2>5, <2>6
  <1>14. CASE StreamReturns
    BY <1>0, <1>14, StreamMoves DEF StreamReturns, At, StreamGoes, MirrorTypeOK, StreamInv, StreamSteps, Serving, Dialed, Seeded
  <1>15. CASE SeedReadsHoldings
    BY <1>6, <1>15 DEF SeedReadsHoldings, Parts
  <1>16. CASE SeedReadsOrders
    BY <1>6, <1>16 DEF SeedReadsOrders, Parts
  <1> QED
    BY <1>1, <1>2, <1>3, <1>4, <1>5, <1>7, <1>8, <1>9, <1>10, <1>11, <1>12, <1>13, <1>14, <1>15, <1>16
       DEF StreamNext, StreamAlone

\* Every step keeps it.
LEMMA MirrorNextInv == MirrorInv /\ [MirrorNext]_mirrorVars => MirrorInv'
  <1> SUFFICES ASSUME MirrorInv, [MirrorNext]_mirrorVars PROVE MirrorInv'
    OBVIOUS
  <1>1. CASE UNCHANGED mirrorVars
    BY <1>1 DEF mirrorVars, MirrorInv, MirrorTypeOK, StreamInv, Current
  <1>2. CASE MirrorNext
    BY <1>2, ExchangeInv, HandlerInv, StreamStepInv DEF MirrorNext
  <1> QED BY <1>1, <1>2

\* The mirror keeps its types.
THEOREM MirrorTypes == MirrorSpec => []MirrorTypeOK
  BY MirrorInitInv, MirrorNextInv, PTL DEF MirrorSpec, MirrorInv

\* A mirror that is ready belongs to a generation whose websocket is open.
THEOREM MirrorReadyServed == MirrorSpec => []ReadyOnlyWhileServed
  <1>1. MirrorInv => ReadyOnlyWhileServed
    BY MirrorBounds DEF MirrorInv, StreamInv, MirrorTypeOK, ReadyOnlyWhileServed, Current, Generations, Seeded, Serving
  <1> QED BY <1>1, MirrorInitInv, MirrorNextInv, PTL DEF MirrorSpec

\* Only the handler of the connection the mirror belongs to applies an event.
LEMMA AppliesForward ==
    ASSUME MirrorInv, NEW g \in Generations, HandlerApplies(g), mirror # mirror'
    PROVE  /\ socket[Current].handler # NoEvent /\ socket'[Current].handler = NoEvent
           /\ \A p \in Parts : mirror'.evidence[p] >= mirror.evidence[p]
  <1> DEFINE e == socket[g].handler.event
  <1>1. Accepts(g, e) /\ mirror' = [mirror EXCEPT !.holds[e.part] = Shown(e.part, e.version),
                                                 !.evidence[e.part] = e.version]
    BY DEF HandlerApplies, ApplyEvent
  <1>2. Current = g /\ e.version >= mirror.evidence[e.part]
    BY <1>1 DEF Accepts, Current
  <1>3. socket[g] \in Socket /\ mirror.evidence \in [Parts -> Versions]
    BY DEF MirrorInv, MirrorTypeOK
  <1>4. socket[g].handler # NoEvent
    BY DEF HandlerApplies, NoEvent
  <1>5. socket'[g].handler = NoEvent /\ mirror'.evidence = [mirror.evidence EXCEPT ![e.part] = e.version]
    BY <1>1, <1>3 DEF HandlerApplies, MirrorInv, MirrorTypeOK, Socket
  <1>6. ASSUME NEW p \in Parts PROVE mirror'.evidence[p] >= mirror.evidence[p]
    <2>1. mirror.evidence[p] \in Nat
      BY <1>3, VersionFacts
    <2> QED BY <1>2, <1>3, <1>5, <2>1
  <1> QED BY <1>2, <1>4, <1>5, <1>6

\* Every other step that leaves the mirror ready leaves it as it is: a snapshot
\* is installed into a mirror that is not ready.
LEMMA ForwardStep ==
    ASSUME MirrorInv, [MirrorNext]_mirrorVars, mirror.ready, mirror'.ready, mirror # mirror'
    PROVE  /\ socket[Current].handler # NoEvent /\ socket'[Current].handler = NoEvent
           /\ \A p \in Parts : mirror'.evidence[p] >= mirror.evidence[p]
  <1>1. ~BeginGeneration /\ ~CloseGeneration
    BY DEF BeginGeneration, CloseGeneration, MirrorInv, MirrorTypeOK
  <1>2. ~InstallSnapshot
    BY DEF InstallSnapshot, At, MirrorInv, StreamInv, Seeded
  <1>3. PICK g \in Generations : HandlerApplies(g)
    BY <1>1, <1>2 DEF MirrorNext, mirrorVars, ExchangeMoves, AccountChanges, ConnectionLost,
       HandlerNext, HandlerTakes, HandlerFlags, StreamNext, StreamAlone, GetListenKey, Dial,
       SeedReadsHoldings, SeedReadsOrders, ReadParts, Connect, CheckEarlyEvents, StreamEnds,
       StreamReturns, CallReady, CallFault, StartStream, CancelStream
  <1> QED BY <1>3, AppliesForward

\* A mirror that is ready and stays ready is changed by the handler of its own
\* connection alone, and never back.
THEOREM MirrorMovesForward == MirrorSpec => NoLateOrOldEvent
  BY MirrorInitInv, MirrorNextInv, ForwardStep, PTL DEF MirrorSpec, NoLateOrOldEvent

-----------------------------------------------------------------------------
(* Why a drained mirror differs from the account in at most one part.       *)
(* Below, q is the queue of a connection, h its handler, a the account.     *)

\* What the connection delivers: the newest version of a part is queued, is in
\* the handler, is still to be applied.
Latest(a, p) == [part |-> p, version |-> a[p]]
Queued(q, a, p) == \E i \in 1 .. Len(q) : q[i] = Latest(a, p)
Coming(q, h, a, p) == Queued(q, a, p) \/ (h # NoEvent /\ h.event = Latest(a, p))
Applying(q, h, a, p) == Queued(q, a, p) \/ (h.step = "apply" /\ h.event = Latest(a, p))

\* What a connection delivers of a part ends with the part's present version.
InOrder(q, a) ==
    \A i \in 1 .. Len(q) :
        /\ q[i].version <= a[q[i].part]
        /\ \E j \in i .. Len(q) : q[j] = Latest(a, q[i].part)
HandledInOrder(q, h, a) ==
    h # NoEvent => /\ h.event.version <= a[h.event.part]
                   /\ h.event = Latest(a, h.event.part) \/ Queued(q, a, h.event.part)
Delivers(q, h, a) == InOrder(q, a) /\ HandledInOrder(q, h, a)

\* The connection the mirror belongs to; it stands when nothing it should
\* deliver is missing.
Wire == socket[Current]
Standing == Current \in Generations /\ Wire.open /\ ~Wire.lost

\* A connection is new when it is dialled, and its handler applies events only
\* after Connect.
DialledInv ==
    /\ \A g \in Generations :
          g > Current \/ (g = Current /\ stream.step \in {"key", "dial"}) =>
              socket[g] = NoSocket
    /\ stream.step \in {"holdings", "orders", "install", "connect"} =>
          ~Wire.connected /\ Wire.handler.step # "apply"
    /\ stream.step \in {"check", "ready", "up"} => Wire.connected

ComingNow(p) == Coming(Wire.events, Wire.handler, account, p)
AppliedOrDue(p) ==
    mirror.holds[p] = Shown(p, account[p]) \/ Applying(Wire.events, Wire.handler, account, p)

HasRead(p) ==
    \/ stream.step \in {"orders", "install"} /\ p \in Holdings
    \/ stream.step = "install" /\ p \in AccountOrders

\* Until the check, what was read is the present version or that one is coming;
\* afterwards one part may be overlooked: that of the event in an early handler.
CaughtInv ==
    /\ \A p \in Parts :
          HasRead(p) => /\ stream.seen[p] <= account[p]
                        /\ Wire.early \/ stream.seen[p] = Shown(p, account[p]) \/ ComingNow(p)
    /\ stream.step \in Seeded => \A p \in Parts : mirror.evidence[p] <= account[p]
    /\ stream.step \in {"connect", "check"} /\ ~Wire.early =>
          \A p \in Parts : mirror.holds[p] = Shown(p, account[p]) \/ ComingNow(p)
    /\ stream.step \in {"ready", "up"} =>
          /\ \A p, r \in Parts : ~AppliedOrDue(p) /\ ~AppliedOrDue(r) => p = r
          /\ Wire.handler.step = "early" =>
                \A p \in Parts : ~AppliedOrDue(p) => p = Wire.handler.event.part

DeliversInv == Delivers(Wire.events, Wire.handler, account)

CatchUpInv == DialledInv /\ (Standing => DeliversInv /\ CaughtInv)

\* What Append and Tail do to the positions of a queue.
LEMMA AppendFacts ==
    ASSUME NEW S, NEW q \in Seq(S), NEW e \in S
    PROVE  /\ Append(q, e) \in Seq(S)
           /\ Len(q) \in Nat /\ Len(Append(q, e)) = Len(q) + 1
           /\ Append(q, e)[Len(q) + 1] = e
           /\ \A i \in 1 .. Len(q) : Append(q, e)[i] = q[i]
  OBVIOUS

LEMMA TailFacts ==
    ASSUME NEW S, NEW q \in Seq(S), q # <<>>
    PROVE  /\ Tail(q) \in Seq(S) /\ Head(q) \in S /\ Head(q) = q[1]
           /\ Len(q) \in Nat /\ Len(q) > 0 /\ Len(Tail(q)) = Len(q) - 1
           /\ \A i \in 1 .. Len(q) - 1 : Tail(q)[i] = q[i + 1]
  OBVIOUS

\* An event and its fields.
LEMMA EventFacts ==
    ASSUME NEW e \in Events
    PROVE  e.part \in Parts /\ e.version \in Nat /\ e = [part |-> e.part, version |-> e.version]
  BY VersionFacts DEF Events

\* With the queue d and the account b, after a change of p, everything still
\* comes that came with q and a.
StillDelivers(q, h, a, p, d, b) ==
    /\ Delivers(d, h, b)
    /\ Queued(d, b, p)
    /\ \A r \in Parts : /\ r # p => b[r] = a[r]
                        /\ r # p /\ Coming(q, h, a, r) => Coming(d, h, b, r)
                        /\ r # p /\ Applying(q, h, a, r) => Applying(d, h, b, r)

\* A change is the newest event of its part and the last one on the connection:
\* what was coming of the other parts still is.
LEMMA ChangeDelivered ==
    ASSUME NEW q \in Seq(Events), NEW h \in Handling \cup {NoEvent}, NEW a \in [Parts -> Nat],
           NEW p \in Parts, NEW b, b[p] = a[p] + 1, \A r \in Parts : r # p => b[r] = a[r],
           Latest(b, p) \in Events, NEW d, d = Append(q, Latest(b, p)), Delivers(q, h, a)
    PROVE  StillDelivers(q, h, a, p, d, b)
  <1>1. /\ Len(q) \in Nat /\ Len(d) = Len(q) + 1 /\ d[Len(q) + 1] = Latest(b, p)
        /\ \A i \in 1 .. Len(q) : d[i] = q[i] /\ q[i] \in Events
    <2> DEFINE n == Latest(b, p)
    <2> HIDE DEF n
    <2>1. n \in Events /\ d = Append(q, n)
      BY DEF n
    <2>2. /\ Len(q) \in Nat /\ Len(d) = Len(q) + 1 /\ d[Len(q) + 1] = n
          /\ \A i \in 1 .. Len(q) : d[i] = q[i]
      BY <2>1, AppendFacts
    <2>3. \A i \in 1 .. Len(q) : q[i] \in Events
      OBVIOUS
    <2> QED BY <2>2, <2>3 DEF n
  <1>2. \A r \in Parts : a[r] \in Nat /\ b[r] \in Nat /\ a[r] <= b[r] /\ (r # p => b[r] = a[r])
    OBVIOUS
  <1>3. \A r \in Parts : r # p => Latest(b, r) = Latest(a, r)
    BY <1>2 DEF Latest
  <1>4. Queued(d, b, p)
    BY <1>1 DEF Queued
  <1>5. \A r \in Parts : r # p /\ Queued(q, a, r) => Queued(d, b, r)
    <2> SUFFICES ASSUME NEW r \in Parts, r # p, Queued(q, a, r) PROVE Queued(d, b, r)
      OBVIOUS
    <2>1. PICK i \in 1 .. Len(q) : q[i] = Latest(a, r)
      BY DEF Queued
    <2>2. i \in 1 .. Len(d) /\ d[i] = q[i]
      BY <1>1
    <2>3. Latest(b, r) = Latest(a, r)
      BY <1>3
    <2> QED BY <2>1, <2>2, <2>3 DEF Queued
  <1>6. ASSUME NEW i \in 1 .. Len(d)
        PROVE  /\ d[i].version <= b[d[i].part]
               /\ \E j \in i .. Len(d) : d[j] = Latest(b, d[i].part)
    <2>1. CASE i = Len(q) + 1
      <3>1. d[i] = Latest(b, p) /\ d[i].part = p /\ d[i].version = b[p]
        BY <1>1, <2>1 DEF Latest
      <3>2. i \in i .. Len(d)
        BY <1>1, <2>1
      <3>3. d[i] = Latest(b, d[i].part) /\ d[i].version <= b[d[i].part]
        BY <1>2, <3>1
      <3> QED BY <3>2, <3>3
    <2>2. CASE i \in 1 .. Len(q)
      <3>1. d[i] = q[i] /\ q[i] \in Events
        BY <1>1, <2>2
      <3>2. q[i].part \in Parts /\ q[i].version \in Nat
        BY <3>1, EventFacts
      <3>3. q[i].version <= a[q[i].part] /\ \E j \in i .. Len(q) : q[j] = Latest(a, q[i].part)
        BY <2>2 DEF Delivers, InOrder
      <3>4. q[i].version <= b[q[i].part]
        BY <1>2, <3>2, <3>3
      <3>5. CASE q[i].part = p
        BY <1>1, <2>2, <3>1, <3>4, <3>5
      <3>6. CASE q[i].part # p
        <4>1. Latest(b, q[i].part) = Latest(a, q[i].part)
          BY <1>3, <3>2, <3>6
        <4>2. PICK j \in i .. Len(q) : q[j] = Latest(a, q[i].part)
          BY <3>3
        <4>3. j \in i .. Len(d) /\ d[j] = q[j]
          BY <1>1, <2>2, <4>2
        <4> QED BY <3>1, <3>4, <4>1, <4>2, <4>3
      <3> QED BY <3>5, <3>6
    <2>3. i \in 1 .. Len(q) \/ i = Len(q) + 1
      BY <1>1
    <2> QED BY <2>1, <2>2, <2>3
  <1>7. ASSUME h # NoEvent
        PROVE  /\ h.event.version <= b[h.event.part]
               /\ h.event = Latest(b, h.event.part) \/ Queued(d, b, h.event.part)
    <2>1. h.event \in Events
      BY <1>7 DEF Handling
    <2>2. h.event.part \in Parts /\ h.event.version \in Nat
      BY <2>1, EventFacts
    <2>3. /\ h.event.version <= a[h.event.part]
          /\ h.event = Latest(a, h.event.part) \/ Queued(q, a, h.event.part)
      BY <1>7 DEF Delivers, HandledInOrder
    <2>4. h.event.version <= b[h.event.part]
      BY <1>2, <2>2, <2>3
    <2>5. CASE h.event.part = p
      BY <1>4, <2>4, <2>5
    <2>6. CASE h.event.part # p
      BY <1>3, <1>5, <2>2, <2>3, <2>4, <2>6
    <2> QED BY <2>5, <2>6
  <1>8. Delivers(d, h, b)
    BY <1>6, <1>7 DEF Delivers, InOrder, HandledInOrder
  <1> QED BY <1>2, <1>3, <1>4, <1>5, <1>8 DEF StillDelivers, Coming, Applying

\* The queue t and the handler h, which has taken an event, deliver what q did;
\* what was due to be applied still is, unless the handler is to drop it.
TakesOver(q, a, t, h) ==
    /\ Delivers(t, h, a)
    /\ \A r \in Parts : /\ Coming(q, NoEvent, a, r) => Coming(t, h, a, r)
                        /\ h.step = "apply" /\ Applying(q, NoEvent, a, r) => Applying(t, h, a, r)

\* The handler takes the first event: what was coming is coming, and due to be
\* applied unless the handler drops it.
LEMMA TakeDelivered ==
    ASSUME NEW q \in Seq(Events), q # <<>>, NEW a \in [Parts -> Nat],
           NEW h \in Handling, h.event = Head(q), Delivers(q, NoEvent, a)
    PROVE  TakesOver(q, a, Tail(q), h)
  <1> DEFINE t == Tail(q)
  <1>1. /\ Head(q) \in Events /\ Head(q) = q[1]
        /\ Len(q) \in Nat /\ Len(q) > 0 /\ Len(t) = Len(q) - 1
        /\ \A i \in 1 .. Len(q) - 1 : t[i] = q[i + 1]
    BY TailFacts
  <1>2. h # NoEvent /\ h.event = q[1]
    BY <1>1 DEF NoEvent, Handling
  <1> HIDE DEF t
  <1>3. \A r \in Parts : Queued(q, a, r) => q[1] = Latest(a, r) \/ Queued(t, a, r)
    <2> SUFFICES ASSUME NEW r \in Parts, Queued(q, a, r), q[1] # Latest(a, r)
                 PROVE  Queued(t, a, r)
      OBVIOUS
    <2>1. PICK i \in 1 .. Len(q) : q[i] = Latest(a, r)
      BY DEF Queued
    <2>2. i # 1 /\ i - 1 \in 1 .. Len(t) /\ t[i - 1] = q[i]
      BY <1>1, <2>1
    <2> QED BY <2>1, <2>2 DEF Queued
  <1>4. ASSUME NEW i \in 1 .. Len(t)
        PROVE  /\ t[i].version <= a[t[i].part]
               /\ \E j \in i .. Len(t) : t[j] = Latest(a, t[i].part)
    <2>1. i + 1 \in 1 .. Len(q) /\ t[i] = q[i + 1]
      BY <1>1
    <2>2. q[i + 1].version <= a[q[i + 1].part]
      BY <2>1 DEF Delivers, InOrder
    <2>3. PICK j \in (i + 1) .. Len(q) : q[j] = Latest(a, q[i + 1].part)
      BY <2>1 DEF Delivers, InOrder
    <2>4. j - 1 \in i .. Len(t) /\ t[j - 1] = q[j]
      BY <1>1, <2>3
    <2> QED BY <2>1, <2>2, <2>3, <2>4
  <1>5. /\ q[1].version <= a[q[1].part]
        /\ q[1] = Latest(a, q[1].part) \/ Queued(t, a, q[1].part)
    <2>1. 1 \in 1 .. Len(q) /\ q[1].part \in Parts
      BY <1>1, EventFacts
    <2>2. q[1].version <= a[q[1].part] /\ Queued(q, a, q[1].part)
      BY <2>1 DEF Delivers, InOrder, Queued
    <2> QED BY <1>3, <2>1, <2>2
  <1>6. Delivers(t, h, a)
    BY <1>2, <1>4, <1>5 DEF Delivers, InOrder, HandledInOrder
  <1>7. \A r \in Parts : Coming(q, NoEvent, a, r) => Coming(t, h, a, r)
    BY <1>2, <1>3 DEF Coming
  <1>8. \A r \in Parts : h.step = "apply" /\ Applying(q, NoEvent, a, r) => Applying(t, h, a, r)
    BY <1>2, <1>3 DEF Applying, NoEvent
  <1> QED BY <1>6, <1>7, <1>8 DEF t, TakesOver

\* Without its event h the connection delivers all but that.
DeliversRest(q, h, a) ==
    /\ Delivers(q, NoEvent, a)
    /\ \A r \in Parts :
          /\ Coming(q, h, a, r) /\ h.event # Latest(a, r) => Queued(q, a, r)
          /\ Applying(q, h, a, r) /\ h.event # Latest(a, r) => Queued(q, a, r)
          /\ Applying(q, h, a, r) /\ h.step # "apply" => Queued(q, a, r)

\* The handler is done with its event.
LEMMA DoneDelivered ==
    ASSUME NEW q, NEW h, NEW a, Delivers(q, h, a)
    PROVE  DeliversRest(q, h, a)
  BY DEF Delivers, HandledInOrder, Coming, Applying, DeliversRest

\* What the types say of the connection, for the steps below.
LEMMA WireTypes ==
    ASSUME MirrorInv, Current \in Generations
    PROVE  /\ Wire \in Socket /\ Wire.events \in Seq(Events)
           /\ Wire.handler \in Handling \cup {NoEvent}
           /\ Wire.handler # NoEvent => /\ Wire.handler.step \in {"early", "apply"}
                                        /\ Wire.handler.event \in Events
           /\ Current \in Nat /\ Generations \subseteq Nat
  BY MirrorBounds DEF MirrorInv, MirrorTypeOK, Wire, Current, Generations, Socket, Handling

LEMMA AccountTypes ==
    ASSUME MirrorInv
    PROVE  /\ account \in [Parts -> Nat] /\ mirror.evidence \in [Parts -> Nat]
           /\ mirror.holds \in [Parts -> Nat] /\ stream.seen \in [Parts -> Nat]
           /\ Events \subseteq [part : Parts, version : Nat]
           /\ \A p \in Parts : Shown(p, account[p]) <= account[p]
  <1>1. /\ account \in [Parts -> Nat] /\ mirror.evidence \in [Parts -> Nat]
        /\ mirror.holds \in [Parts -> Nat] /\ stream.seen \in [Parts -> Nat]
        /\ Events \subseteq [part : Parts, version : Nat]
    BY VersionFacts DEF MirrorInv, MirrorTypeOK, Events
  <1>2. \A p \in Parts : Shown(p, account[p]) <= account[p]
    BY <1>1 DEF Shown
  <1> QED BY <1>1, <1>2

\* A step beside the connection of the mirror leaves the invariant alone.
LEMMA ElsewhereCaughtUp ==
    ASSUME CatchUpInv, UNCHANGED <<account, mirror, stream>>,
           \A g \in Generations : g >= Current => socket'[g] = socket[g],
           Current \in Generations
    PROVE  CatchUpInv'
  <1>0. Current' = Current /\ stream' = stream
    BY DEF Current
  <1>1. Wire' = Wire
    <2>1. Current >= Current
      BY MirrorBounds DEF Generations
    <2>2. socket'[Current] = socket[Current]
      BY <2>1
    <2> QED BY <1>0, <2>2 DEF Wire
  <1>2. DialledInv'
    <2>1. ASSUME NEW g \in Generations,
                 g > Current' \/ (g = Current' /\ stream'.step \in {"key", "dial"})
          PROVE  socket'[g] = NoSocket
      <3>1. g > Current \/ (g = Current /\ stream.step \in {"key", "dial"})
        BY <1>0, <2>1
      <3>2. socket[g] = NoSocket
        BY <3>1 DEF CatchUpInv, DialledInv
      <3>3. g >= Current
        <4>1. g \in Nat /\ Current \in Nat
          BY MirrorBounds DEF Generations
        <4> QED BY <3>1, <4>1
      <3> QED BY <3>2, <3>3
    <2> QED BY <1>0, <1>1, <2>1 DEF CatchUpInv, DialledInv
  <1>3. Standing' = Standing
    BY <1>0, <1>1 DEF Standing
  <1>4. DeliversInv => DeliversInv'
    BY <1>1 DEF DeliversInv
  <1>5. CaughtInv => CaughtInv'
    BY <1>1 DEF CaughtInv, HasRead, ComingNow, AppliedOrDue
  <1> QED
    BY <1>2, <1>3, <1>4, <1>5 DEF CatchUpInv

\* The first half of the invariant, for a step of the connection itself.
LEMMA StillDialled ==
    ASSUME DialledInv, Current \in Generations, UNCHANGED <<mirror, stream>>,
           \A g \in Generations : g # Current => (socket[g] = NoSocket => socket'[g] = NoSocket),
           Wire # NoSocket, Wire'.connected = Wire.connected,
           Wire'.handler.step = "apply" => Wire.handler.step = "apply" \/ Wire.connected
    PROVE  DialledInv'
  BY DEF DialledInv, Wire, Current

\* A change of the account: its event is queued behind the others.
LEMMA ChangeCaughtUp ==
    ASSUME MirrorInv, CatchUpInv, NEW p \in Parts, AccountChanges(p)
    PROVE  CatchUpInv'
  <1> DEFINE n == [part |-> p, version |-> account[p] + 1]
             q == Wire.events
  <1>0. UNCHANGED <<mirror, stream>> /\ Current' = Current
    BY DEF AccountChanges, Current
  <1>1. \A g \in Generations :
            /\ socket'[g] = IF socket[g].open /\ ~socket[g].lost
                            THEN [socket[g] EXCEPT !.events = Append(@, n)]
                            ELSE socket[g]
            /\ socket[g] \in Socket
    BY DEF AccountChanges, MirrorInv, MirrorTypeOK
  <1>2. \A g \in Generations :
            /\ socket'[g].open = socket[g].open /\ socket'[g].lost = socket[g].lost
            /\ socket'[g].connected = socket[g].connected /\ socket'[g].early = socket[g].early
            /\ socket'[g].handler = socket[g].handler
            /\ socket[g] = NoSocket => socket'[g] = NoSocket
    <2>1. TAKE g \in Generations
    <2>2. CASE socket'[g] = socket[g]
      BY <2>2
    <2>3. CASE socket[g].open /\ socket'[g] = [socket[g] EXCEPT !.events = Append(@, n)]
      <3>1. socket[g] # NoSocket
        BY <2>3 DEF NoSocket
      <3> HIDE DEF n
      <3> QED BY <1>1, <2>3, <3>1 DEF Socket
    <2> QED BY <1>1, <2>2, <2>3
  <1>3. DialledInv'
    <2>1. stream.step \in Serving => Current \in Generations
      BY DEF MirrorInv, StreamInv
    <2> QED BY <1>0, <1>2, <2>1 DEF CatchUpInv, DialledInv, Wire, Serving
  <1>4. SUFFICES ASSUME Standing' PROVE DeliversInv' /\ CaughtInv'
    BY <1>3 DEF CatchUpInv
  <1>5. Standing /\ Current \in Generations
    BY <1>0, <1>2, <1>4 DEF Standing, Wire
  <1>6. DeliversInv /\ CaughtInv
    BY <1>5 DEF CatchUpInv
  <1>7. Wire'.handler = Wire.handler /\ Wire'.early = Wire.early
    BY <1>0, <1>2, <1>5 DEF Wire
  <1>8. account \in [Parts -> Nat] /\ account' = [account EXCEPT ![p] = @ + 1]
    BY AccountTypes DEF AccountChanges
  <1>9. n = Latest(account', p) /\ n \in Events
    <2>1. n = Latest(account', p)
      BY <1>8 DEF Latest
    <2>2. n \in Events
      BY <1>8, VersionFacts DEF AccountChanges, MirrorInv, MirrorTypeOK, Events
    <2> QED BY <2>1, <2>2
  <1>10. Wire'.events = Append(q, n)
    <2> HIDE DEF n
    <2> QED BY <1>0, <1>1, <1>5 DEF Wire, Standing, Socket
  <1>11. Delivers(Wire.events, Wire.handler, account)
    BY <1>6 DEF DeliversInv
  <1>12. /\ Delivers(Wire'.events, Wire.handler, account')
         /\ Queued(Wire'.events, account', p)
         /\ \A r \in Parts :
               /\ r # p => account'[r] = account[r]
               /\ r # p /\ Coming(Wire.events, Wire.handler, account, r) =>
                     Coming(Wire'.events, Wire.handler, account', r)
               /\ r # p /\ Applying(Wire.events, Wire.handler, account, r) =>
                     Applying(Wire'.events, Wire.handler, account', r)
    <2>1. q \in Seq(Events) /\ Wire.handler \in Handling \cup {NoEvent}
      BY <1>5, WireTypes
    <2>2. Wire'.events = Append(q, Latest(account', p)) /\ Latest(account', p) \in Events
      BY <1>9, <1>10
    <2> HIDE DEF n
    <2>3. account'[p] = account[p] + 1 /\ \A r \in Parts : r # p => account'[r] = account[r]
      BY <1>8
    <2>4. account \in [Parts -> Nat] /\ Delivers(q, Wire.handler, account)
      BY <1>8, <1>11
    <2> HIDE DEF q
    <2>5. StillDelivers(q, Wire.handler, account, p, Wire'.events, account')
      BY <2>1, <2>2, <2>3, <2>4, ChangeDelivered, Zenon
    <2> QED BY <2>5 DEF q, StillDelivers
  <1> HIDE DEF n, q
  <1>13. DeliversInv'
    BY <1>7, <1>12 DEF DeliversInv, Delivers, InOrder, HandledInOrder, Latest, Queued
  <1>14. \A r \in Parts : /\ account[r] <= account'[r]
                          /\ stream.seen[r] \in Nat /\ mirror.evidence[r] \in Nat
                          /\ account[r] \in Nat /\ account'[r] \in Nat
    BY <1>8, AccountTypes
  <1>15. \A r \in Parts : /\ r = p \/ ComingNow(r) => ComingNow(r)'
                          /\ r = p \/ AppliedOrDue(r) => AppliedOrDue(r)'
    <2> TAKE r \in Parts
    <2>1. r = p \/ Coming(Wire.events, Wire.handler, account, r) =>
            Coming(Wire'.events, Wire'.handler, account', r)
      BY <1>7, <1>12 DEF Coming
    <2>2. r = p \/ Applying(Wire.events, Wire.handler, account, r) =>
            Applying(Wire'.events, Wire'.handler, account', r)
      BY <1>7, <1>12 DEF Applying
    <2>3. r = p \/ ComingNow(r) => ComingNow(r)'
      BY <2>1 DEF ComingNow
    <2>4. r = p \/ AppliedOrDue(r) => AppliedOrDue(r)'
      BY <1>0, <1>12, <2>2 DEF AppliedOrDue
    <2> QED BY <2>3, <2>4
  <1>16. CaughtInv'
    BY <1>0, <1>6, <1>7, <1>12, <1>14, <1>15 DEF CaughtInv, HasRead, Seeded
  <1> QED BY <1>13, <1>16

\* A handler works on the connection of the mirror or on an earlier one.
LEMMA HandlerWhere ==
    ASSUME MirrorInv, CatchUpInv, NEW g \in Generations, socket[g] # NoSocket
    PROVE  Current \in Generations /\ g <= Current
  <1>1. Current \in 0 .. MaxGeneration /\ MaxGeneration \in Nat
    BY MirrorBounds DEF MirrorInv, MirrorTypeOK, Current
  <1>2. ~(g > Current)
    BY DEF CatchUpInv, DialledInv
  <1> QED BY <1>1, <1>2 DEF Generations

\* The handler starts on an event.
LEMMA TakesCaughtUp ==
    ASSUME MirrorInv, CatchUpInv, NEW g \in Generations, HandlerTakes(g)
    PROVE  CatchUpInv'
  <1> DEFINE h == [step |-> IF socket[g].connected THEN "apply" ELSE "early",
                   event |-> Head(socket[g].events)]
  <1>1. /\ UNCHANGED <<account, mirror, stream>> /\ Current' = Current
        /\ socket' = [socket EXCEPT ![g].events = Tail(@), ![g].handler = h]
        /\ socket[g].open /\ socket[g].handler = NoEvent /\ socket[g].events # <<>>
    BY DEF HandlerTakes, Current
  <1>2. socket[g] # NoSocket
    BY <1>1 DEF NoSocket
  <1>3. Current \in Generations /\ g <= Current /\ Current \in Nat /\ \A i \in Generations : i \in Nat
    BY <1>2, HandlerWhere, WireTypes
  <1>4. socket \in [Generations -> Socket]
    BY DEF MirrorInv, MirrorTypeOK
  <1> HIDE DEF h
  <1>5. CASE g < Current
    <2>1. \A i \in Generations : i >= Current => socket'[i] = socket[i]
      BY <1>1, <1>3, <1>4, <1>5
    <2> QED BY <1>1, <1>3, <2>1, ElsewhereCaughtUp
  <1>6. CASE g = Current
    <2>1. /\ Wire'.events = Tail(Wire.events) /\ Wire'.handler = h
          /\ Wire'.early = Wire.early /\ Wire'.connected = Wire.connected
          /\ Wire'.open = Wire.open /\ Wire'.lost = Wire.lost
          /\ Wire.handler = NoEvent /\ Wire.events # <<>>
      BY <1>1, <1>4, <1>6 DEF Wire, Socket
    <2>2. /\ Wire.events \in Seq(Events) /\ Head(Wire.events) \in Events
          /\ h \in Handling /\ h.event = Head(Wire.events)
          /\ h.step = IF Wire.connected THEN "apply" ELSE "early"
      <3>1. Wire.events \in Seq(Events) /\ Head(Wire.events) \in Events
        BY <1>3, <2>1, WireTypes, TailFacts
      <3> QED BY <1>6, <3>1 DEF h, Wire, Handling
    <2>3. DialledInv'
      <3>1. \A i \in Generations : i # Current => socket'[i] = socket[i]
        BY <1>1, <1>4, <1>6
      <3> QED BY <1>1, <1>2, <1>3, <1>6, <2>1, <2>2, <3>1, StillDialled DEF CatchUpInv, Wire
    <2>4. SUFFICES ASSUME Standing PROVE DeliversInv' /\ CaughtInv'
      BY <1>1, <2>1, <2>3 DEF CatchUpInv, Standing
    <2>5. DeliversInv /\ CaughtInv
      BY <2>4 DEF CatchUpInv
    <2>6. TakesOver(Wire.events, account, Wire'.events, h)
      <3>1. account \in [Parts -> Nat] /\ Delivers(Wire.events, NoEvent, account)
        BY <2>1, <2>5, AccountTypes DEF DeliversInv
      <3>2. TakesOver(Wire.events, account, Tail(Wire.events), h)
        BY <2>1, <2>2, <3>1, TakeDelivered, Zenon
      <3> QED BY <2>1, <3>2
    <2>7. DeliversInv'
      <3>1. Delivers(Wire'.events, Wire'.handler, account')
        BY <1>1, <2>1, <2>6 DEF TakesOver
      <3> QED BY <3>1 DEF DeliversInv
    <2>8. \A r \in Parts : /\ ComingNow(r) => ComingNow(r)'
                           /\ h.step = "apply" /\ AppliedOrDue(r) => AppliedOrDue(r)'
      <3> TAKE r \in Parts
      <3>1. Coming(Wire.events, Wire.handler, account, r) => Coming(Wire'.events, Wire'.handler, account', r)
        BY <1>1, <2>1, <2>6 DEF TakesOver
      <3>2. h.step = "apply" /\ Applying(Wire.events, Wire.handler, account, r) =>
               Applying(Wire'.events, Wire'.handler, account', r)
        BY <1>1, <2>1, <2>6 DEF TakesOver
      <3>3. ComingNow(r) => ComingNow(r)'
        BY <3>1 DEF ComingNow
      <3>4. h.step = "apply" /\ AppliedOrDue(r) => AppliedOrDue(r)'
        BY <1>1, <3>2 DEF AppliedOrDue
      <3> QED BY <3>3, <3>4
    <2>9. stream.step \in {"check", "ready", "up"} => h.step = "apply"
      BY <2>2 DEF CatchUpInv, DialledInv
    <2>10. CaughtInv'
      BY <1>1, <2>1, <2>5, <2>8, <2>9 DEF CaughtInv, HasRead
    <2> QED BY <2>7, <2>10
  <1> QED BY <1>3, <1>5, <1>6

\* The handler drops an event that came before the connection was: the flag says
\* so, and after the check of the flag only this event's part is overlooked.
LEMMA FlagsCaughtUp ==
    ASSUME MirrorInv, CatchUpInv, NEW g \in Generations, HandlerFlags(g)
    PROVE  CatchUpInv'
  <1>1. /\ UNCHANGED <<account, mirror, stream>> /\ Current' = Current
        /\ socket' = [socket EXCEPT ![g].early = socket[g].open, ![g].handler = NoEvent]
        /\ socket[g].handler.step = "early"
    BY DEF HandlerFlags, Current
  <1>2. socket[g] # NoSocket
    BY <1>1 DEF NoSocket, NoEvent
  <1>3. Current \in Generations /\ g <= Current /\ Current \in Nat /\ \A i \in Generations : i \in Nat
    BY <1>2, HandlerWhere, WireTypes
  <1>4. socket \in [Generations -> Socket]
    BY DEF MirrorInv, MirrorTypeOK
  <1>5. CASE g < Current
    <2>1. \A i \in Generations : i >= Current => socket'[i] = socket[i]
      BY <1>1, <1>3, <1>4, <1>5
    <2> QED BY <1>1, <1>3, <2>1, ElsewhereCaughtUp
  <1>6. CASE g = Current
    <2>1. /\ Wire'.events = Wire.events /\ Wire'.handler = NoEvent /\ Wire'.early = Wire.open
          /\ Wire'.connected = Wire.connected /\ Wire'.open = Wire.open /\ Wire'.lost = Wire.lost
          /\ Wire.handler.step = "early"
      BY <1>1, <1>4, <1>6 DEF Wire, Socket
    <2>2. DialledInv'
      <3>1. \A i \in Generations : i # Current => socket'[i] = socket[i]
        BY <1>1, <1>4, <1>6
      <3>2. Wire # NoSocket /\ Wire'.handler.step # "apply"
        BY <1>2, <1>6, <2>1 DEF Wire, NoEvent
      <3> QED BY <1>1, <1>3, <2>1, <3>1, <3>2, StillDialled DEF CatchUpInv
    <2>3. SUFFICES ASSUME Standing PROVE DeliversInv' /\ CaughtInv'
      BY <1>1, <2>1, <2>2 DEF CatchUpInv, Standing
    <2>4. DeliversInv /\ CaughtInv /\ Wire.open
      BY <2>3 DEF CatchUpInv, Standing
    <2>5. DeliversRest(Wire.events, Wire.handler, account)
      BY <2>4, DoneDelivered DEF DeliversInv
    <2>6. DeliversInv'
      <3>1. Delivers(Wire'.events, Wire'.handler, account')
        BY <1>1, <2>1, <2>5 DEF DeliversRest
      <3> QED BY <3>1 DEF DeliversInv
    <2>7. \A r \in Parts : AppliedOrDue(r) => AppliedOrDue(r)'
      <3> TAKE r \in Parts
      <3>1. Applying(Wire.events, Wire.handler, account, r) => Applying(Wire'.events, Wire'.handler, account', r)
        BY <1>1, <2>1, <2>5 DEF DeliversRest, Applying
      <3> QED BY <1>1, <3>1 DEF AppliedOrDue
    <2>8. CaughtInv'
      BY <1>1, <2>1, <2>4, <2>7 DEF CaughtInv, HasRead, NoEvent
    <2> QED BY <2>6, <2>8
  <1> QED BY <1>3, <1>5, <1>6

\* An event is applied, unless the mirror already knows a later version: then a
\* later event of the part is queued.
LEMMA AppliesCaughtUp ==
    ASSUME MirrorInv, CatchUpInv, NEW g \in Generations, HandlerApplies(g)
    PROVE  CatchUpInv'
  <1> DEFINE e == socket[g].handler.event
  <1>1. /\ UNCHANGED <<account, stream>> /\ ApplyEvent(g, e)
        /\ socket' = [socket EXCEPT ![g].handler = NoEvent]
        /\ socket[g].handler.step = "apply"
    BY DEF HandlerApplies
  <1>2. socket[g] # NoSocket
    BY <1>1 DEF NoSocket, NoEvent
  <1>3. Current \in Generations /\ g <= Current /\ Current \in Nat /\ \A i \in Generations : i \in Nat
    BY <1>2, HandlerWhere, WireTypes
  <1>4. /\ socket \in [Generations -> Socket]
        /\ mirror \in [generation : 0 .. MaxGeneration, ready : BOOLEAN,
                       holds : [Parts -> Versions], evidence : [Parts -> Versions]]
    BY DEF MirrorInv, MirrorTypeOK
  <1>5. CASE g < Current
    <2>1. \A i \in Generations : i >= Current => socket'[i] = socket[i]
      BY <1>1, <1>3, <1>4, <1>5
    <2>2. ~Accepts(g, e)
      BY <1>3, <1>5 DEF Accepts, Current
    <2>3. mirror' = mirror
      BY <1>1, <2>2 DEF ApplyEvent
    <2> QED BY <1>1, <1>3, <2>1, <2>3, ElsewhereCaughtUp
  <1>6. CASE g = Current
    <2>1. /\ Wire.handler.event = e /\ Wire.handler.step = "apply" /\ Wire.handler # NoEvent
          /\ mirror'.generation = mirror.generation /\ mirror'.ready = mirror.ready
      BY <1>1, <1>4, <1>6 DEF Wire, NoEvent, ApplyEvent
    <2>2. Current' = Current
      BY <2>1 DEF Current
    <2>3. /\ Wire'.events = Wire.events /\ Wire'.handler = NoEvent /\ Wire'.early = Wire.early
          /\ Wire'.connected = Wire.connected /\ Wire'.open = Wire.open /\ Wire'.lost = Wire.lost
      BY <1>1, <1>4, <1>6, <2>2 DEF Wire, Socket
    <2>4. \A i \in Generations : i # Current => socket'[i] = socket[i]
      BY <1>1, <1>4, <1>6
    <2>5. stream.step \notin {"key", "dial", "holdings", "orders", "install", "connect"}
      BY <1>2, <1>6, <2>1 DEF CatchUpInv, DialledInv
    <2>6. DialledInv'
      BY <1>1, <1>3, <2>2, <2>3, <2>4, <2>5 DEF CatchUpInv, DialledInv
    <2>7. SUFFICES ASSUME Standing PROVE DeliversInv' /\ CaughtInv'
      BY <2>2, <2>3, <2>6 DEF CatchUpInv, Standing
    <2>8. DeliversInv /\ CaughtInv
      BY <2>7 DEF CatchUpInv
    <2>9. DeliversRest(Wire.events, Wire.handler, account)
      BY <2>8, DoneDelivered DEF DeliversInv
    <2>10. DeliversInv'
      <3>1. Delivers(Wire'.events, Wire'.handler, account')
        BY <1>1, <2>3, <2>9 DEF DeliversRest
      <3> QED BY <3>1 DEF DeliversInv
    <2>11. CASE stream.step \notin {"check", "ready", "up"}
      BY <1>1, <2>5, <2>10, <2>11 DEF CaughtInv, HasRead, Seeded
    <2>12. CASE stream.step \in {"check", "ready", "up"}
      <3>1. mirror.ready /\ \A p \in Parts : mirror.evidence[p] <= account[p]
        BY <2>8, <2>12 DEF MirrorInv, StreamInv, CaughtInv, Seeded
      <3>2. e \in Events
        BY <1>3, <2>1, WireTypes
      <3>3. e.part \in Parts /\ e.version \in Nat /\ e = [part |-> e.part, version |-> e.version]
        BY <3>2, EventFacts
      <3>4. e.version <= account[e.part]
        BY <2>1, <2>8 DEF DeliversInv, Delivers, HandledInOrder
      <3>5. \A p \in Parts : mirror'.evidence[p] <= account[p]
        BY <1>1, <1>4, <3>1, <3>3, <3>4 DEF ApplyEvent
      <3>6. \A r \in Parts : r # e.part => mirror'.holds[r] = mirror.holds[r]
        BY <1>1, <1>4 DEF ApplyEvent
      <3>7. e = Latest(account, e.part) => mirror'.holds[e.part] = Shown(e.part, account[e.part])
        <4> SUFFICES ASSUME e = Latest(account, e.part)
                     PROVE  mirror'.holds[e.part] = Shown(e.part, account[e.part])
          OBVIOUS
        <4>1. e.version = account[e.part]
          BY DEF Latest
        <4>2. Accepts(g, e)
          BY <1>6, <3>1, <3>3, <4>1, AccountTypes DEF Accepts, Current
        <4> QED BY <1>1, <1>4, <3>3, <4>1, <4>2 DEF ApplyEvent
      <3>8. e # Latest(account, e.part) => Queued(Wire.events, account, e.part)
        BY <2>1, <2>8 DEF DeliversInv, Delivers, HandledInOrder
      <3>9. \A r \in Parts : r # e.part => e # Latest(account, r)
        BY <3>3 DEF Latest
      <3>10. ASSUME NEW r \in Parts
             PROVE  mirror.holds[r] = Shown(r, account[r]) \/ Coming(Wire.events, Wire.handler, account, r) =>
                       mirror'.holds[r] = Shown(r, account[r]) \/ Queued(Wire.events, account, r)
        <4>1. CASE r = e.part
          BY <3>7, <3>8, <4>1
        <4>2. CASE r # e.part
          BY <2>1, <2>9, <3>6, <3>9, <4>2 DEF DeliversRest
        <4> QED BY <4>1, <4>2
      <3>11. \A r \in Parts : /\ mirror.holds[r] = Shown(r, account[r]) \/ ComingNow(r) =>
                                   mirror'.holds[r] = Shown(r, account'[r]) \/ ComingNow(r)'
                              /\ AppliedOrDue(r) => AppliedOrDue(r)'
        <4> TAKE r \in Parts
        <4>1. mirror.holds[r] = Shown(r, account[r]) \/ Coming(Wire.events, Wire.handler, account, r) =>
                 \/ mirror'.holds[r] = Shown(r, account'[r])
                 \/ Coming(Wire'.events, Wire'.handler, account', r)
          BY <1>1, <2>3, <3>10 DEF Coming
        <4>2. mirror.holds[r] = Shown(r, account[r]) \/ Applying(Wire.events, Wire.handler, account, r) =>
                 \/ mirror'.holds[r] = Shown(r, account'[r])
                 \/ Applying(Wire'.events, Wire'.handler, account', r)
          BY <1>1, <2>1, <2>3, <3>10 DEF Applying, Coming
        <4>3. mirror.holds[r] = Shown(r, account[r]) \/ ComingNow(r) =>
                 mirror'.holds[r] = Shown(r, account'[r]) \/ ComingNow(r)'
          BY <4>1 DEF ComingNow
        <4>4. AppliedOrDue(r) => AppliedOrDue(r)'
          BY <4>2 DEF AppliedOrDue
        <4> QED BY <4>3, <4>4
      <3>12. CaughtInv'
        BY <1>1, <2>3, <2>8, <2>12, <3>5, <3>11 DEF CaughtInv, HasRead, NoEvent
      <3> QED BY <2>10, <3>12
    <2> QED BY <2>10, <2>11, <2>12
  <1> QED BY <1>3, <1>5, <1>6

\* A lost connection of the mirror stands no more.
LEMMA LostCaughtUp ==
    ASSUME MirrorInv, CatchUpInv, NEW g \in Generations, ConnectionLost(g)
    PROVE  CatchUpInv'
  <1>1. /\ UNCHANGED <<account, mirror, stream>> /\ Current' = Current
        /\ socket' = [socket EXCEPT ![g].lost = TRUE] /\ socket[g].open
    BY DEF ConnectionLost, Current
  <1>2. socket[g] # NoSocket
    BY <1>1 DEF NoSocket
  <1>3. Current \in Generations /\ g <= Current /\ Current \in Nat /\ \A i \in Generations : i \in Nat
    BY <1>2, HandlerWhere, WireTypes
  <1>4. socket \in [Generations -> Socket]
    BY DEF MirrorInv, MirrorTypeOK
  <1>5. CASE g < Current
    <2>1. \A i \in Generations : i >= Current => socket'[i] = socket[i]
      BY <1>1, <1>3, <1>4, <1>5
    <2> QED BY <1>1, <1>3, <2>1, ElsewhereCaughtUp
  <1>6. CASE g = Current
    <2>1. /\ Wire'.handler = Wire.handler /\ Wire'.connected = Wire.connected /\ Wire'.lost
      BY <1>1, <1>4, <1>6 DEF Wire, Socket
    <2>2. DialledInv'
      <3>1. \A i \in Generations : i # Current => socket'[i] = socket[i]
        BY <1>1, <1>4, <1>6
      <3>2. Wire # NoSocket
        BY <1>2, <1>6 DEF Wire
      <3> QED BY <1>1, <1>3, <2>1, <3>1, <3>2, StillDialled DEF CatchUpInv
    <2> QED BY <1>1, <2>1, <2>2 DEF CatchUpInv, Standing
  <1> QED BY <1>3, <1>5, <1>6

\* A step of the stream that leaves mirror and websockets alone and reads
\* nothing: before the dial, or on the way to the end of the generation.
LEMMA QuietCaughtUp ==
    ASSUME CatchUpInv, UNCHANGED <<account, socket, mirror>>,
           stream'.step \in {"idle", "begin", "key", "dial", "report", "close"},
           stream'.step \in {"key", "dial"} => stream.step \in {"key", "dial"}
    PROVE  CatchUpInv'
  <1>1. Wire' = Wire /\ Current' = Current
    BY DEF Wire, Current
  <1>2. DialledInv'
    BY <1>1 DEF CatchUpInv, DialledInv
  <1>3. Standing' => DeliversInv'
    BY <1>1 DEF CatchUpInv, Standing, DeliversInv
  <1>4. CaughtInv'
    BY DEF CaughtInv, HasRead, Seeded
  <1> QED BY <1>2, <1>3, <1>4 DEF CatchUpInv

\* A step of the stream that keeps websockets and account: what it must show.
LEMMA StreamCaughtUp ==
    ASSUME CatchUpInv, UNCHANGED <<account, socket>>, Current' = Current,
           stream'.step \notin {"key", "dial"},
           stream'.step \in {"holdings", "orders", "install", "connect"} =>
              stream.step \in {"holdings", "orders", "install", "connect"},
           stream'.step \in {"check", "ready", "up"} => stream.step \in {"check", "ready", "up"},
           Standing /\ DialledInv /\ DeliversInv /\ CaughtInv => CaughtInv'
    PROVE  CatchUpInv'
  <1>1. Wire' = Wire
    BY DEF Wire
  <1>2. DialledInv'
    BY <1>1 DEF CatchUpInv, DialledInv
  <1>3. Standing' => DeliversInv'
    BY <1>1 DEF CatchUpInv, Standing, DeliversInv
  <1>4. Standing' => CaughtInv'
    BY <1>1 DEF CatchUpInv, Standing
  <1> QED BY <1>2, <1>3, <1>4 DEF CatchUpInv

\* A new generation has no websocket yet.
LEMMA BeginCaughtUp == MirrorInv /\ CatchUpInv /\ BeginGeneration => CatchUpInv'
  <1> SUFFICES ASSUME MirrorInv, CatchUpInv, BeginGeneration PROVE CatchUpInv'
    OBVIOUS
  <1>1. /\ mirror.generation \in Nat /\ Current' = Current + 1 /\ socket' = socket
        /\ Current \in Nat /\ Current + 1 \in Generations /\ \A g \in Generations : g \in Nat
        /\ stream'.step = "key"
    BY MirrorBounds DEF MirrorInv, MirrorTypeOK, BeginGeneration, StreamGoes, Current, Generations
  <1>2. \A g \in Generations : g >= Current + 1 => socket'[g] = NoSocket
    BY <1>1 DEF CatchUpInv, DialledInv
  <1>3. Wire' = NoSocket
    BY <1>1, <1>2 DEF Wire
  <1>4. DialledInv'
    BY <1>1, <1>2, <1>3 DEF DialledInv
  <1>5. ~Standing'
    BY <1>3 DEF Standing, NoSocket
  <1> QED BY <1>4, <1>5 DEF CatchUpInv

\* A dialled connection has delivered nothing and nothing was read.
LEMMA DialCaughtUp == MirrorInv /\ CatchUpInv /\ Dial => CatchUpInv'
  <1> SUFFICES ASSUME MirrorInv, CatchUpInv, Dial PROVE CatchUpInv'
    OBVIOUS
  <1>0. stream.step = "dial" /\ Current \in Generations /\ UNCHANGED <<account, mirror>>
    BY DEF MirrorInv, StreamInv, Dial, At, Serving
  <1>1. CASE Reports("ws") /\ UNCHANGED socket
    BY <1>0, <1>1, QuietCaughtUp DEF Reports, MirrorInv, MirrorTypeOK
  <1>2. CASE socket' = [socket EXCEPT ![Current].open = TRUE] /\ StreamGoes("holdings")
    <2>1. Wire = NoSocket /\ socket \in [Generations -> Socket] /\ Current' = Current
      BY <1>0 DEF CatchUpInv, DialledInv, MirrorInv, MirrorTypeOK, Wire, Current
    <2>2. Wire' = [NoSocket EXCEPT !.open = TRUE]
      BY <1>0, <1>2, <2>1 DEF Wire
    <2>3. Wire'.events = <<>> /\ Wire'.handler = NoEvent /\ ~Wire'.connected
      BY <2>2 DEF NoSocket
    <2>4. stream'.step = "holdings"
      BY <1>2 DEF StreamGoes, MirrorInv, MirrorTypeOK
    <2>5. DialledInv'
      <3>1. Current \in Nat /\ \A g \in Generations : g \in Nat /\ (g > Current => socket[g] = NoSocket)
        BY <1>0, WireTypes DEF CatchUpInv, DialledInv
      <3>2. \A g \in Generations : g > Current => socket'[g] = NoSocket
        BY <1>0, <1>2, <2>1, <3>1
      <3> QED BY <2>1, <2>3, <2>4, <3>2 DEF DialledInv, NoEvent
    <2>6. DeliversInv'
      <3>1. Delivers(Wire'.events, Wire'.handler, account')
        BY <2>3 DEF Delivers, InOrder, HandledInOrder
      <3> QED BY <3>1 DEF DeliversInv
    <2>7. CaughtInv'
      BY <2>4 DEF CaughtInv, HasRead, Seeded
    <2> QED BY <2>5, <2>6, <2>7 DEF CatchUpInv
  <1> QED BY <1>1, <1>2 DEF Dial

\* What a read shows is the present version of its parts.
LEMMA ReadCaughtUp ==
    ASSUME MirrorInv, CatchUpInv, SeedReadsHoldings \/ SeedReadsOrders
    PROVE  CatchUpInv'
  <1> DEFINE step == stream.step
             parts == IF step = "holdings" THEN Holdings ELSE AccountOrders
             next == IF step = "holdings" THEN "orders" ELSE "install"
  <1>0. step \in {"holdings", "orders"} /\ ReadParts(step, parts, next)
    BY DEF SeedReadsHoldings, SeedReadsOrders, ReadParts, At
  <1>1. UNCHANGED <<account, socket, mirror>>
    BY <1>0 DEF ReadParts
  <1>2. CASE Reports("snapshot")
    BY <1>1, <1>2, QuietCaughtUp DEF Reports, MirrorInv, MirrorTypeOK
  <1>3. CASE stream' = [stream EXCEPT !.step = next,
                          !.seen = [p \in Parts |-> IF p \in parts THEN Shown(p, account[p]) ELSE @[p]]]
    <2>1. /\ stream'.step = next
          /\ \A p \in Parts : stream'.seen[p] = IF p \in parts THEN Shown(p, account[p]) ELSE stream.seen[p]
      BY <1>3 DEF MirrorInv, MirrorTypeOK
    <2>2. Wire' = Wire /\ Current' = Current
      BY <1>1 DEF Wire, Current
    <2>3. ASSUME NEW p \in Parts, HasRead(p)'
          PROVE  p \in parts \/ (HasRead(p) /\ p \notin parts)
      BY <1>0, <2>1, <2>3 DEF HasRead
    <2>4. \A p \in Parts : ComingNow(p) => ComingNow(p)'
      BY <1>1, <2>2 DEF ComingNow
    <2>5. CaughtInv => CaughtInv'
      <3> SUFFICES ASSUME CaughtInv PROVE CaughtInv'
        OBVIOUS
      <3>1. ASSUME NEW p \in Parts, HasRead(p)'
            PROVE  /\ stream'.seen[p] <= account'[p]
                   /\ Wire'.early \/ stream'.seen[p] = Shown(p, account'[p]) \/ ComingNow(p)'
        <4>1. CASE p \in parts
          BY <1>1, <2>1, <4>1, AccountTypes
        <4>2. CASE HasRead(p) /\ p \notin parts
          BY <1>1, <2>1, <2>2, <2>4, <4>2 DEF CaughtInv
        <4> QED BY <2>3, <3>1, <4>1, <4>2
      <3> QED BY <2>1, <3>1 DEF CaughtInv, Seeded
    <2> QED BY <1>0, <1>1, <2>1, <2>2, <2>5, StreamCaughtUp
  <1> QED BY <1>0, <1>2, <1>3 DEF ReadParts

\* The snapshot shows of every part what was read of it.
LEMMA InstallCaughtUp == MirrorInv /\ CatchUpInv /\ InstallSnapshot => CatchUpInv'
  <1> SUFFICES ASSUME MirrorInv, CatchUpInv, InstallSnapshot PROVE CatchUpInv'
    OBVIOUS
  <1>0. stream.step = "install" /\ UNCHANGED <<account, socket>>
    BY DEF InstallSnapshot, At
  <1>1. CASE Reports("snapshot") /\ UNCHANGED mirror
    BY <1>0, <1>1, QuietCaughtUp DEF Reports, MirrorInv, MirrorTypeOK
  <1>2. CASE /\ mirror' = [mirror EXCEPT
                          !.ready = TRUE, !.holds = stream.seen,
                          !.evidence = [p \in Parts |->
                              IF p \in AccountOrders THEN stream.seen[p] ELSE 0]]
             /\ stream' = [stream EXCEPT !.step = "connect", !.seen = Untouched]
    <2>1. /\ stream'.step = "connect" /\ mirror'.generation = mirror.generation
          /\ mirror'.holds = stream.seen
          /\ \A p \in Parts : mirror'.evidence[p] = IF p \in AccountOrders THEN stream.seen[p] ELSE 0
      BY <1>2 DEF MirrorInv, MirrorTypeOK
    <2>2. Wire' = Wire /\ Current' = Current
      BY <1>0, <2>1 DEF Wire, Current
    <2>3. \A p \in Parts : ComingNow(p) => ComingNow(p)'
      BY <1>0, <2>2 DEF ComingNow
    <2>4. CaughtInv => CaughtInv'
      <3> SUFFICES ASSUME CaughtInv PROVE CaughtInv'
        OBVIOUS
      <3>1. \A p \in Parts : /\ stream.seen[p] <= account[p]
                             /\ Wire.early \/ stream.seen[p] = Shown(p, account[p]) \/ ComingNow(p)
        BY <1>0 DEF CaughtInv, HasRead, Parts
      <3>2. \A p \in Parts : mirror'.evidence[p] <= account'[p]
        BY <1>0, <2>1, <3>1, AccountTypes
      <3>3. ~Wire.early => \A p \in Parts : mirror'.holds[p] = Shown(p, account'[p]) \/ ComingNow(p)'
        BY <1>0, <2>1, <2>3, <3>1
      <3> QED BY <2>1, <2>2, <3>2, <3>3 DEF CaughtInv, HasRead
    <2> QED BY <1>0, <2>1, <2>2, <2>4, StreamCaughtUp
  <1> QED BY <1>1, <1>2 DEF InstallSnapshot

\* From Connect on the handler applies what it takes.
LEMMA ConnectCaughtUp == MirrorInv /\ CatchUpInv /\ Connect => CatchUpInv'
  <1> SUFFICES ASSUME MirrorInv, CatchUpInv, Connect PROVE CatchUpInv'
    OBVIOUS
  <1>0. /\ stream.step = "connect" /\ UNCHANGED <<account, mirror>> /\ Current' = Current
        /\ stream'.step = "check" /\ Current \in Generations
        /\ socket' = [socket EXCEPT ![Current].connected = TRUE]
    BY DEF Connect, At, Current, StreamGoes, MirrorInv, MirrorTypeOK, StreamInv, Serving
  <1>1. /\ Wire'.events = Wire.events /\ Wire'.handler = Wire.handler /\ Wire'.early = Wire.early
        /\ Wire'.open = Wire.open /\ Wire'.lost = Wire.lost /\ Wire'.connected
    BY <1>0 DEF Wire, MirrorInv, MirrorTypeOK, Socket
  <1>2. DialledInv'
    BY <1>0, <1>1, WireTypes DEF CatchUpInv, DialledInv, MirrorInv, MirrorTypeOK
  <1>3. SUFFICES ASSUME Standing PROVE DeliversInv' /\ CaughtInv'
    BY <1>0, <1>1, <1>2 DEF CatchUpInv, Standing
  <1>4. DeliversInv /\ CaughtInv
    BY <1>3 DEF CatchUpInv
  <1>5. DeliversInv'
    <2>1. Delivers(Wire'.events, Wire'.handler, account')
      BY <1>0, <1>1, <1>4 DEF DeliversInv
    <2> QED BY <2>1 DEF DeliversInv
  <1>6. \A p \in Parts : ComingNow(p) => ComingNow(p)'
    <2> TAKE p \in Parts
    <2>1. ComingNow(p) => Coming(Wire'.events, Wire'.handler, account', p)
      BY <1>0, <1>1 DEF ComingNow
    <2> QED BY <2>1 DEF ComingNow
  <1>7. CaughtInv'
    BY <1>0, <1>1, <1>4, <1>6 DEF CaughtInv, HasRead, Seeded
  <1> QED BY <1>5, <1>7

\* When no flag is raised, the only version that is neither shown nor due to be
\* applied is in a handler that is about to raise it.
LEMMA CheckCaughtUp == MirrorInv /\ CatchUpInv /\ CheckEarlyEvents => CatchUpInv'
  <1> SUFFICES ASSUME MirrorInv, CatchUpInv, CheckEarlyEvents PROVE CatchUpInv'
    OBVIOUS
  <1>0. stream.step = "check" /\ UNCHANGED <<account, socket, mirror>> /\ Current \in Generations
    BY DEF CheckEarlyEvents, At, MirrorInv, StreamInv, Serving
  <1>1. CASE Reports("snapshot")
    BY <1>0, <1>1, QuietCaughtUp DEF Reports, MirrorInv, MirrorTypeOK
  <1>2. CASE ~Wire.early /\ StreamGoes("ready")
    <2>1. stream'.step = "ready" /\ Wire' = Wire /\ Current' = Current
      BY <1>0, <1>2 DEF StreamGoes, MirrorInv, MirrorTypeOK, Wire, Current
    <2>2. CaughtInv => CaughtInv'
      <3> SUFFICES ASSUME CaughtInv PROVE CaughtInv'
        OBVIOUS
      <3>1. \A p \in Parts : mirror.holds[p] = Shown(p, account[p]) \/ ComingNow(p)
        BY <1>0, <1>2 DEF CaughtInv
      <3>2. \A p \in Parts : ~AppliedOrDue(p)' =>
               Wire.handler # NoEvent /\ Wire.handler.event = Latest(account, p) /\ Wire.handler.step # "apply"
        <4> TAKE p \in Parts
        <4>1. \/ mirror.holds[p] = Shown(p, account[p])
              \/ Queued(Wire.events, account, p)
              \/ Wire.handler # NoEvent /\ Wire.handler.event = Latest(account, p)
          BY <3>1 DEF ComingNow, Coming
        <4>2. mirror.holds[p] = Shown(p, account[p]) \/ Applying(Wire.events, Wire.handler, account, p) =>
                 AppliedOrDue(p)'
          BY <1>0, <2>1 DEF AppliedOrDue
        <4> QED BY <4>1, <4>2 DEF Applying
      <3>3. ASSUME NEW p \in Parts, ~AppliedOrDue(p)' PROVE p = Wire.handler.event.part
        <4>1. Wire.handler.event = Latest(account, p)
          BY <3>2, <3>3
        <4> QED BY <4>1 DEF Latest
      <3>4. \A p, r \in Parts : ~AppliedOrDue(p)' /\ ~AppliedOrDue(r)' => p = r
        BY <3>3
      <3>5. \A p \in Parts : mirror'.evidence[p] <= account'[p]
        BY <1>0 DEF CaughtInv, Seeded
      <3> QED BY <2>1, <3>3, <3>4, <3>5 DEF CaughtInv, HasRead
    <2> QED BY <1>0, <2>1, <2>2, StreamCaughtUp
  <1> QED BY <1>1, <1>2 DEF CheckEarlyEvents, Wire

\* The end of a generation closes its websocket.
LEMMA CloseCaughtUp == MirrorInv /\ CatchUpInv /\ CloseGeneration => CatchUpInv'
  <1> SUFFICES ASSUME MirrorInv, CatchUpInv, CloseGeneration PROVE CatchUpInv'
    OBVIOUS
  <1>1. /\ Current' = Current /\ Current \in Generations /\ stream'.step = "begin"
        /\ socket' = [socket EXCEPT ![Current] = Closed(@)]
    BY DEF CloseGeneration, Current, At, MirrorInv, MirrorTypeOK, StreamInv, Serving
  <1>2. Current \in Nat /\ \A g \in Generations : g \in Nat /\ (g > Current => socket[g] = NoSocket)
    BY <1>1, WireTypes DEF CatchUpInv, DialledInv
  <1>3. \A g \in Generations : g > Current => socket'[g] = NoSocket
    BY <1>1, <1>2 DEF MirrorInv, MirrorTypeOK
  <1>4. ~Wire'.open
    BY <1>1 DEF Wire, Closed, NoSocket, MirrorInv, MirrorTypeOK
  <1>5. DialledInv'
    BY <1>1, <1>3 DEF DialledInv
  <1> QED BY <1>4, <1>5 DEF CatchUpInv, Standing

\* The stream keeps the invariant.
LEMMA StreamNextCaughtUp ==
    MirrorInv /\ CatchUpInv /\ (StreamNext \/ StartStream \/ CancelStream) => CatchUpInv'
  <1> SUFFICES ASSUME MirrorInv, CatchUpInv, StreamNext \/ StartStream \/ CancelStream PROVE CatchUpInv'
    OBVIOUS
  <1>0. stream \in [step : StreamSteps, seen : [Parts -> Versions],
                    fault : StreamFaults \cup {NoFault}, canceled : BOOLEAN]
    BY DEF MirrorInv, MirrorTypeOK
  <1>1. CASE StartStream \/ StreamReturns \/ StreamEnds \/ CallFault \/ GetListenKey
    <2>1. /\ UNCHANGED <<account, socket, mirror>>
          /\ stream'.step \in {"idle", "begin", "key", "dial", "report", "close"}
          /\ stream'.step \in {"key", "dial"} => stream.step \in {"key", "dial"}
      BY <1>0, <1>1 DEF StartStream, StreamReturns, StreamEnds, CallFault, GetListenKey, At, StreamGoes, Reports
    <2> QED BY <2>1, QuietCaughtUp
  <1>2. CASE CancelStream \/ CallReady
    <2>1. /\ UNCHANGED <<account, socket, mirror>> /\ stream'.seen = stream.seen
          /\ stream'.step = stream.step \/ (stream.step = "ready" /\ stream'.step = "up")
      BY <1>0, <1>2 DEF CancelStream, CallReady, At, StreamGoes
    <2>2. Wire' = Wire /\ Current' = Current
      BY <2>1 DEF Wire, Current
    <2>3. CASE stream.step \in {"key", "dial"}
      BY <2>1, <2>3, QuietCaughtUp
    <2>4. CASE stream.step \notin {"key", "dial"}
      <3>1. CaughtInv => CaughtInv'
        BY <2>1, <2>2 DEF CaughtInv, HasRead, ComingNow, AppliedOrDue, Seeded
      <3> QED BY <2>1, <2>2, <2>4, <3>1, StreamCaughtUp
    <2> QED BY <2>3, <2>4
  <1> QED BY <1>1, <1>2, BeginCaughtUp, DialCaughtUp, ReadCaughtUp, InstallCaughtUp, ConnectCaughtUp,
             CheckCaughtUp, CloseCaughtUp
          DEF StreamNext, StreamAlone

\* Nothing is connected in the initial state.
LEMMA CatchUpInit == MirrorInit => CatchUpInv
  <1> SUFFICES ASSUME MirrorInit PROVE CatchUpInv
    OBVIOUS
  <1>1. /\ stream.step = "idle" /\ Current = 0 /\ \A g \in Generations : socket[g] = NoSocket
    BY DEF MirrorInit, Current
  <1>2. 0 \notin Generations
    BY MirrorBounds DEF Generations
  <1> QED BY <1>1, <1>2 DEF CatchUpInv, DialledInv, Standing

\* So does a step of somebody else.
LEMMA CatchUpUnchanged == CatchUpInv /\ UNCHANGED <<account, socket, mirror, stream>> => CatchUpInv'
  <1> SUFFICES ASSUME CatchUpInv, UNCHANGED <<account, socket, mirror, stream>> PROVE CatchUpInv'
    OBVIOUS
  <1>1. Wire' = Wire /\ Current' = Current
    BY DEF Wire, Current
  <1> QED BY <1>1 DEF CatchUpInv, DialledInv, Standing, DeliversInv, CaughtInv, HasRead,
                      ComingNow, AppliedOrDue

\* Every step keeps it.
LEMMA CatchUpNext == MirrorInv /\ CatchUpInv /\ [MirrorNext]_mirrorVars => CatchUpInv'
  <1> SUFFICES ASSUME MirrorInv, CatchUpInv, [MirrorNext]_mirrorVars PROVE CatchUpInv'
    OBVIOUS
  <1>1. CASE UNCHANGED mirrorVars
    BY <1>1, CatchUpUnchanged DEF mirrorVars
  <1>2. CASE ExchangeMoves
    BY <1>2, ChangeCaughtUp, LostCaughtUp DEF ExchangeMoves
  <1>3. ASSUME NEW g \in Generations, HandlerNext(g) PROVE CatchUpInv'
    BY <1>3, TakesCaughtUp, FlagsCaughtUp, AppliesCaughtUp DEF HandlerNext
  <1>4. CASE StreamNext \/ StartStream \/ CancelStream
    BY <1>4, StreamNextCaughtUp
  <1> QED BY <1>1, <1>2, <1>3, <1>4 DEF MirrorNext

\* With nothing queued and no handler running, every part but one is shown.
LEMMA CaughtUpDrained == MirrorInv /\ CatchUpInv => AtMostOneOverlooked
  <1> SUFFICES ASSUME MirrorInv, CatchUpInv, Drained PROVE Cardinality(StaleParts) <= 1
    BY DEF AtMostOneOverlooked
  <1>1. Standing /\ stream.step = "up" /\ Wire.events = <<>> /\ Wire.handler = NoEvent
    BY DEF Drained, Standing, Wire, At, MirrorInv, StreamInv, Serving
  <1>2. \A p \in Parts : ~Applying(Wire.events, Wire.handler, account, p)
    BY <1>1 DEF Applying, Queued, NoEvent
  <1>3. \A p \in Parts : AppliedOrDue(p) => mirror.holds[p] = Shown(p, account[p])
    BY <1>2 DEF AppliedOrDue
  <1>4. \A p, r \in Parts : ~AppliedOrDue(p) /\ ~AppliedOrDue(r) => p = r
    BY <1>1 DEF CatchUpInv, CaughtInv
  <1>5. \A p \in StaleParts : p \in Parts /\ mirror.holds[p] # Shown(p, account[p])
    BY DEF StaleParts
  <1>6. \A p, r \in StaleParts : p = r
    BY <1>3, <1>4, <1>5
  <1>7. CASE StaleParts = {}
    BY <1>7, FS_EmptySet
  <1>8. CASE StaleParts # {}
    <2>1. PICK p \in StaleParts : TRUE
      BY <1>8
    <2>2. StaleParts = {p}
      BY <1>6, <2>1
    <2> QED BY <2>2, FS_Singleton
  <1> QED BY <1>7, <1>8

\* When every event has been handled, the mirror of a connected stream differs
\* from the account in at most one part.
THEOREM MirrorOverlooksOne == MirrorSpec => []AtMostOneOverlooked
  BY MirrorInitInv, MirrorNextInv, CatchUpInit, CatchUpNext, CaughtUpDrained, PTL DEF MirrorSpec
=============================================================================
