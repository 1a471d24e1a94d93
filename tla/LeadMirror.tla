----------------------------- MODULE LeadMirror -----------------------------
(***************************************************************************)
(* The private account mirror of the lead account and the user stream that *)
(* feeds it (service/leadaccount/stream.go, mirror.go).  Every connection  *)
(* is a generation: the stream clears the mirror, opens the websocket,     *)
(* reads the account over REST while events already arrive, installs the   *)
(* snapshot and from then on applies the events.  An event that arrives    *)
(* before the snapshot is installed only raises a flag, and a raised flag  *)
(* makes the stream start over.                                            *)
(*                                                                         *)
(* The contents of the account are abstracted to a version per part:       *)
(* holdings (balances, position slots) count their changes, an order goes  *)
(* through placed, partly filled and ended.                                *)
(***************************************************************************)
EXTENDS Naturals, Sequences, FiniteSets

CONSTANTS
    Holdings,      \* balances and position slots of the account
    AccountOrders, \* orders of the account
    MaxHolding,    \* bound: changes of one holding
    MaxGeneration, \* bound: connections
    MaxMishaps     \* bound: failed calls and lost connections

Parts == Holdings \cup AccountOrders

ASSUME PartsDisjoint == Holdings \cap AccountOrders = {}
ASSUME MirrorBounds ==
    MaxHolding \in Nat /\ MaxGeneration \in Nat /\ MaxMishaps \in Nat

VARIABLES
    account,  \* the exchange's account: version of each part
    socket,   \* per generation: the websocket and the state its handler closes over
    mirror,   \* LeadAccountMirror
    stream,   \* the goroutine of LeadUserStream.Run
    mishaps   \* failures so far; a behaviour may start with any number of them used up

mirrorVars == <<account, socket, mirror, stream, mishaps>>

Ended == 3
LastVersion(p) == IF p \in AccountOrders THEN Ended ELSE MaxHolding
Versions == 0 .. (IF MaxHolding > Ended THEN MaxHolding ELSE Ended)

\* What a listing of the account shows of a part at a version: an order that
\* has ended is in no list of open orders.
Shown(p, version) ==
    IF p \in AccountOrders /\ version = Ended THEN 0 ELSE version

Generations == 1 .. MaxGeneration
Events == [part : Parts, version : Versions]
NoEvent == [step |-> "none"]
Handling == [step : {"early", "apply"}, event : Events]
Untouched == [p \in Parts |-> 0]

Socket == [open : BOOLEAN, lost : BOOLEAN, events : Seq(Events),
           connected : BOOLEAN, early : BOOLEAN, handler : Handling \cup {NoEvent}]
NoSocket == [open |-> FALSE, lost |-> FALSE, events |-> <<>>,
             connected |-> FALSE, early |-> FALSE, handler |-> NoEvent]

StreamSteps == {"idle", "begin", "key", "dial", "holdings", "orders", "install",
                "connect", "check", "ready", "up", "report", "close"}
NoFault == "none"
StreamFaults == {"ws", "snapshot"}

MirrorTypeOK ==
    /\ account \in [Parts -> Versions]
    /\ socket \in [Generations -> Socket]
    /\ mirror \in [generation : 0 .. MaxGeneration, ready : BOOLEAN,
                   holds : [Parts -> Versions], evidence : [Parts -> Versions]]
    /\ stream \in [step : StreamSteps, seen : [Parts -> Versions],
                   fault : StreamFaults \cup {NoFault}, canceled : BOOLEAN]
    /\ mishaps \in 0 .. MaxMishaps

MirrorInit ==
    /\ account \in {a \in [Parts -> Versions] : \A p \in Parts : a[p] <= LastVersion(p)}
    /\ socket = [g \in Generations |-> NoSocket]
    /\ mirror = [generation |-> 0, ready |-> FALSE, holds |-> Untouched, evidence |-> Untouched]
    /\ stream = [step |-> "idle", seen |-> Untouched, fault |-> NoFault, canceled |-> FALSE]
    /\ mishaps \in 0 .. MaxMishaps

-----------------------------------------------------------------------------
(* The exchange.                                                           *)

\* A part of the account changes; every connection that stands gets the event.
AccountChanges(p) ==
    /\ account[p] < LastVersion(p)
    /\ account' = [account EXCEPT ![p] = @ + 1]
    /\ socket' = [g \in Generations |->
                    IF socket[g].open /\ ~socket[g].lost
                    THEN [socket[g] EXCEPT
                            !.events = Append(@, [part |-> p, version |-> account[p] + 1])]
                    ELSE socket[g]]
    /\ UNCHANGED <<mirror, stream, mishaps>>

\* The connection breaks, or its listen key expires: no event follows.
ConnectionLost(g) ==
    /\ socket[g].open /\ ~socket[g].lost
    /\ mishaps < MaxMishaps
    /\ mishaps' = mishaps + 1
    /\ socket' = [socket EXCEPT ![g].lost = TRUE]
    /\ UNCHANGED <<account, mirror, stream>>

-----------------------------------------------------------------------------
(* The websocket handler of one generation: it runs one event at a time.   *)

\* The handler starts on an event and reads `connected`.
HandlerTakes(g) ==
    /\ socket[g].open
    /\ socket[g].handler = NoEvent
    /\ socket[g].events # <<>>
    /\ socket' = [socket EXCEPT
                    ![g].events = Tail(@),
                    ![g].handler = [step |-> IF socket[g].connected THEN "apply" ELSE "early",
                                    event |-> Head(socket[g].events)]]
    /\ UNCHANGED <<account, mirror, stream, mishaps>>

\* It read `connected` as false: it raises the flag and drops the event.  Once
\* the generation is closed nobody reads its flag.
HandlerFlags(g) ==
    /\ socket[g].handler.step = "early"
    /\ socket' = [socket EXCEPT ![g].early = socket[g].open, ![g].handler = NoEvent]
    /\ UNCHANGED <<account, mirror, stream, mishaps>>

\* Mistake: the generation of the event is not compared.
AcceptsAnyGeneration(g, e) == mirror.ready /\ e.version >= mirror.evidence[e.part]

\* ApplyEvent takes only events of its own, seeded generation, none behind the
\* fill or the time it has already seen of the part.
Accepts(g, e) ==
    /\ mirror.ready
    /\ mirror.generation = g
    /\ e.version >= mirror.evidence[e.part]

ApplyEvent(g, e) ==
    mirror' = IF Accepts(g, e)
              THEN [mirror EXCEPT !.holds[e.part] = Shown(e.part, e.version),
                                  !.evidence[e.part] = e.version]
              ELSE mirror

HandlerApplies(g) ==
    /\ socket[g].handler.step = "apply"
    /\ ApplyEvent(g, socket[g].handler.event)
    /\ socket' = [socket EXCEPT ![g].handler = NoEvent]
    /\ UNCHANGED <<account, stream, mishaps>>

HandlerNext(g) == HandlerTakes(g) \/ HandlerFlags(g) \/ HandlerApplies(g)

-----------------------------------------------------------------------------
(* The stream.                                                             *)

At(step) == stream.step = step
StreamGoes(step) == stream' = [stream EXCEPT !.step = step]
Reports(fault) == stream' = [stream EXCEPT !.step = "report", !.fault = fault]
Current == mirror.generation

\* A call of the stream fails, by itself or because its context is canceled.
CallFails ==
    \/ stream.canceled /\ UNCHANGED mishaps
    \/ ~stream.canceled /\ mishaps < MaxMishaps /\ mishaps' = mishaps + 1

StartStream ==
    /\ At("idle")
    /\ stream' = [stream EXCEPT !.step = "begin", !.canceled = FALSE]
    /\ UNCHANGED <<account, socket, mirror, mishaps>>

\* Stop cancels the context of the running stream.
CancelStream ==
    /\ ~At("idle") /\ ~stream.canceled
    /\ stream' = [stream EXCEPT !.canceled = TRUE]
    /\ UNCHANGED <<account, socket, mirror, mishaps>>

\* BeginGeneration: the mirror is emptied and no longer ready.
BeginGeneration ==
    /\ At("begin") /\ ~stream.canceled
    /\ mirror.generation < MaxGeneration
    /\ mirror' = [generation |-> mirror.generation + 1, ready |-> FALSE,
                  holds |-> Untouched, evidence |-> Untouched]
    /\ StreamGoes("key")
    /\ UNCHANGED <<account, socket, mishaps>>

GetListenKey ==
    /\ At("key")
    /\ \/ StreamGoes("dial") /\ ~stream.canceled /\ UNCHANGED mishaps
       \/ Reports("ws") /\ CallFails
    /\ UNCHANGED <<account, socket, mirror>>

Dial ==
    /\ At("dial")
    /\ \/ /\ socket' = [socket EXCEPT ![Current].open = TRUE]
          /\ StreamGoes("holdings") /\ UNCHANGED mishaps
       \/ Reports("ws") /\ CallFails /\ UNCHANGED socket
    /\ UNCHANGED <<account, mirror>>

\* Seed reads balances and positions, then the open orders.
ReadParts(step, parts, next) ==
    /\ At(step)
    /\ \/ /\ ~stream.canceled
          /\ stream' = [stream EXCEPT !.step = next,
                          !.seen = [p \in Parts |-> IF p \in parts THEN Shown(p, account[p]) ELSE @[p]]]
          /\ UNCHANGED mishaps
       \/ Reports("snapshot") /\ CallFails
    /\ UNCHANGED <<account, socket, mirror>>

SeedReadsHoldings == ReadParts("holdings", Holdings, "orders")
SeedReadsOrders == ReadParts("orders", AccountOrders, "install")

\* The snapshot replaces the mirror.  Open orders carry their fill as evidence,
\* holdings and orders that are not listed carry none.
InstallSnapshot ==
    /\ At("install")
    /\ \/ /\ stream.canceled
          /\ Reports("snapshot") /\ UNCHANGED mirror
       \/ /\ ~stream.canceled
          /\ mirror' = [mirror EXCEPT
                          !.ready = TRUE, !.holds = stream.seen,
                          !.evidence = [p \in Parts |->
                              IF p \in AccountOrders THEN stream.seen[p] ELSE 0]]
          /\ stream' = [stream EXCEPT !.step = "connect", !.seen = Untouched]
    /\ UNCHANGED <<account, socket, mishaps>>

Connect ==
    /\ At("connect")
    /\ socket' = [socket EXCEPT ![Current].connected = TRUE]
    /\ StreamGoes("check")
    /\ UNCHANGED <<account, mirror, mishaps>>

\* Mistake: after an early event only the snapshot is read again, the flag stays.
ReseedSameGeneration ==
    /\ At("check")
    /\ StreamGoes(IF socket[Current].early THEN "holdings" ELSE "ready")
    /\ UNCHANGED <<account, socket, mirror, mishaps>>

\* Mistake: events that came before the snapshot are forgotten.
IgnoreEarlyEvents ==
    /\ At("check")
    /\ StreamGoes("ready")
    /\ UNCHANGED <<account, socket, mirror, mishaps>>

CheckEarlyEvents ==
    /\ At("check")
    /\ IF socket[Current].early THEN Reports("snapshot") ELSE StreamGoes("ready")
    /\ UNCHANGED <<account, socket, mirror, mishaps>>

\* The onReady callback runs in the stream's goroutine.
CallReady ==
    /\ At("ready")
    /\ StreamGoes("up")
    /\ UNCHANGED <<account, socket, mirror, mishaps>>

\* The loop ends when the connection is gone, the keep-alive call fails or the
\* context is done; only the last is no fault.
StreamEnds ==
    /\ At("up")
    /\ \/ stream.canceled /\ StreamGoes("close") /\ UNCHANGED mishaps
       \/ socket[Current].lost /\ Reports("ws") /\ UNCHANGED mishaps
       \/ Reports("ws") /\ ~stream.canceled /\ CallFails
    /\ UNCHANGED <<account, socket, mirror>>

\* onFault is called with the fault and returns.
CallFault ==
    /\ At("report")
    /\ stream' = [stream EXCEPT !.step = "close", !.fault = NoFault]
    /\ UNCHANGED <<account, socket, mirror, mishaps>>

\* What is left of a closed websocket: the handler that is running.
Closed(s) == [NoSocket EXCEPT !.handler = s.handler]

\* Mistake: a generation that ends leaves the mirror ready.
CloseKeepsReady ==
    /\ At("close")
    /\ socket' = [socket EXCEPT ![Current] = Closed(@)]
    /\ stream' = [stream EXCEPT !.step = "begin", !.seen = Untouched]
    /\ UNCHANGED <<account, mirror, mishaps>>

\* The deferred calls: the websocket is closed, the mirror invalidated; Run
\* waits and starts the next generation.  A handler in flight may still finish.
CloseGeneration ==
    /\ At("close")
    /\ socket' = [socket EXCEPT ![Current] = Closed(@)]
    /\ mirror' = [mirror EXCEPT !.ready = FALSE]
    /\ stream' = [stream EXCEPT !.step = "begin", !.seen = Untouched]
    /\ UNCHANGED <<account, mishaps>>

StreamReturns ==
    /\ At("begin") /\ stream.canceled
    /\ StreamGoes("idle")
    /\ UNCHANGED <<account, socket, mirror, mishaps>>

\* The steps the stream takes without its owner's callbacks.
StreamAlone ==
    \/ BeginGeneration \/ GetListenKey \/ Dial
    \/ SeedReadsHoldings \/ SeedReadsOrders \/ InstallSnapshot
    \/ Connect \/ CheckEarlyEvents \/ StreamEnds \/ CloseGeneration \/ StreamReturns

StreamNext == StreamAlone \/ CallReady \/ CallFault

ExchangeMoves ==
    \/ \E p \in Parts : AccountChanges(p)
    \/ \E g \in Generations : ConnectionLost(g)

MirrorNext ==
    \/ ExchangeMoves
    \/ \E g \in Generations : HandlerNext(g)
    \/ StreamNext \/ StartStream \/ CancelStream

MirrorSpec == MirrorInit /\ [][MirrorNext]_mirrorVars

-----------------------------------------------------------------------------
(* Properties.                                                             *)

\* The connection stands, the stream serves it and nothing is in flight.
Drained ==
    /\ At("up")
    /\ socket[Current].open /\ ~socket[Current].lost
    /\ socket[Current].events = <<>>
    /\ socket[Current].handler = NoEvent

StaleParts == {p \in Parts : mirror.holds[p] # Shown(p, account[p])}

\* When every event has been handled, the mirror of a connected stream differs
\* from the account in at most one part: snapshot and events overlap, and the
\* only event that can fall between them is the one whose handler had read
\* `connected` as false and raises the flag after the stream looked at it
\* (stream.go:153-156 against 188-194).  The aim stated there is stronger: "Fail
\* closed and re-seed rather than silently losing it" (stream.go:141).
AtMostOneOverlooked == Drained => Cardinality(StaleParts) <= 1

\* The mirror is ready only while the websocket of the generation that seeded it
\* is open: no reconnect, failed or pending, serves the state of the connection
\* before (mirror.go:76-101, stream.go:119).
ReadyOnlyWhileServed == mirror.ready => Current > 0 /\ socket[Current].open

\* Between two snapshots only the handler of the current connection changes the
\* mirror, and what is known of a part never goes back: a late event of an
\* earlier connection, or one the snapshot is already ahead of, changes nothing
\* (mirror.go:217, 283-291).
NoLateOrOldEvent ==
    [][(mirror.ready /\ mirror'.ready /\ mirror # mirror') =>
         /\ socket[Current].handler # NoEvent /\ socket'[Current].handler = NoEvent
         /\ \A p \in Parts : mirror'.evidence[p] >= mirror.evidence[p]]_mirrorVars
=============================================================================
