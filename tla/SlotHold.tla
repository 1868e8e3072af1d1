------------------------------ MODULE SlotHold ------------------------------
(***************************************************************************)
(* What a card checkout promises about the slot it holds: the slot stays   *)
(* held until the card is charged or can no longer be; a charged hold is   *)
(* booked, a released one is never charged.                                *)
(***************************************************************************)
VARIABLES
  hold,     \* "held", "booked", "released", or "cancelled" after a booking
  charged   \* the card has been charged

vars == <<hold, charged>>

Init == hold = "held" /\ charged = FALSE

Charge == hold = "held" /\ charged' = TRUE /\ UNCHANGED hold

Book == hold = "held" /\ charged /\ hold' = "booked" /\ UNCHANGED charged

Release == hold = "held" /\ ~ charged /\ hold' = "released" /\ UNCHANGED charged

Cancel == hold = "booked" /\ hold' = "cancelled" /\ UNCHANGED charged

Next == Charge \/ Book \/ Release \/ Cancel

Spec == Init /\ [][Next]_vars
=============================================================================
