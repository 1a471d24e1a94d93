---------------------------- MODULE MCReconcile ----------------------------
(***************************************************************************)
(* OwnershipReconcile on one leg, with the minute's sweep and the trade    *)
(* loop, which is also the only goroutine that trades: that is enough for  *)
(* every race of a trader with the sweep, and MCExecution has the races    *)
(* between traders.  In the passing run strategy a opens the leg and       *)
(* closes it, the operator may sell what it bought, and the loop compares  *)
(* the leg without asking for unresolved opens (a is new_coin_rush or      *)
(* funding_rate).  In the other runs a is auto_strategy; with a second     *)
(* reducing order it may have a close and a stop loss at work.             *)
(***************************************************************************)
EXTENDS OwnershipReconcile, TLC

CONSTANTS a, b, leg, openA, closeA, stopA, minute, loop

IntentOf(o) ==
    CASE o = closeA -> "close" [] o = stopA -> "stop_loss" [] OTHER -> "open"

RequestOf(o, lots) ==
    [owner |-> a, slot |-> leg, intent |-> IntentOf(o), qty |-> lots]

OneLot == [o \in Orders |-> RequestOf(o, 1)]
TwoLots == [o \in Orders |-> RequestOf(o, IF o = openA THEN 2 ELSE 1)]

MCQuantities == 0 .. 2
SoldByHand == {-1}

\* The sweep visits b, who has nothing here, before a.
BeforeA == [ob \in Observers |-> IF ob \in Sweeps THEN <<b, a>> ELSE <<a>>]
OnlyA == [ob \in Observers |-> <<a>>]
=============================================================================
