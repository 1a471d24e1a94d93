---------------------------- MODULE MCExecution ----------------------------
(***************************************************************************)
(* OrderExecution on one leg.  Strategy a opens two lots with a limit      *)
(* order that it may cancel (auto_strategy does when it times out) and     *)
(* closes them; strategy b opens one lot in the same leg with a market     *)
(* order, under an id it may execute again (agent_trade derives it from    *)
(* the proposal).  Two goroutines give every race between two calls.       *)
(***************************************************************************)
EXTENDS OrderExecution, TLC

CONSTANTS a, b, leg, openA, openB, closeA, w1, w2

MCRequest ==
    [o \in {openA, openB, closeA} |->
        [owner |-> IF o = openB THEN b ELSE a,
         slot |-> leg,
         intent |-> IF o = closeA THEN "close" ELSE "open",
         qty |-> IF o = openB THEN 1 ELSE 2]]

MCQuantities == 0 .. 2

WorkerSymmetry == Permutations({w1, w2})
=============================================================================
