------------------------------- MODULE MCAgent -------------------------------
(***************************************************************************)
(* AgentTrade on one proposal and two requests at a time.                  *)
(***************************************************************************)
EXTENDS AgentTrade, TLC

CONSTANTS p1, r1, r2

RequestSymmetry == Permutations({r1, r2})
=============================================================================
