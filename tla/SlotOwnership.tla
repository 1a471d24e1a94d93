--------------------------- MODULE SlotOwnership ---------------------------
(***************************************************************************)
(* What service/futuresownership promises about a leg of the account: a    *)
(* (symbol, position side) slot has at most one owner at a time, an owner  *)
(* keeps the slot while it trades in it, and the slot passes to another    *)
(* owner only after it has been released.                                  *)
(***************************************************************************)
CONSTANTS Owners,   \* auto_strategy, new_coin_rush, notice_auto_order, ...
          Slots,    \* (symbol, position side) legs of one account
          Nobody    \* the holder of a slot without a managed position

VARIABLE holder     \* the owner of each slot

SlotInit == holder = [s \in Slots |-> Nobody]

\* An owner's first fill, or an operator's repair, takes a free slot.
Acquire(s, ow) ==
    /\ holder[s] = Nobody
    /\ holder' = [holder EXCEPT ![s] = ow]

\* The position of the slot is closed.
Release(s) ==
    /\ holder[s] # Nobody
    /\ holder' = [holder EXCEPT ![s] = Nobody]

SlotNext ==
    \E s \in Slots :
        \/ \E ow \in Owners : Acquire(s, ow)
        \/ Release(s)

SlotSpec == SlotInit /\ [][SlotNext]_holder
=============================================================================
