---------------------------- MODULE MCOwnership ----------------------------
(***************************************************************************)
(* FuturesOwnership on one leg that two strategies compete for.  Legs do   *)
(* not interact: every query of the service filters on one of them.        *)
(***************************************************************************)
EXTENDS FuturesOwnership

CONSTANTS a, b, leg, openA, openB, closeA

\* Both open, and the first also closes; each order can fill in two steps.
MCRequest ==
    [o \in {openA, openB, closeA} |->
        [owner |-> IF o = openB THEN b ELSE a,
         slot |-> leg,
         intent |-> IF o = closeA THEN "close" ELSE "open",
         qty |-> 2]]

MCQuantities == 0 .. 2
=============================================================================
