----------------------------- MODULE StatusFlow -----------------------------
(***************************************************************************)
(* What the status of an order promises: it follows the sequential flow,   *)
(* goes back one step at a time, may be returned while the sale is alive,  *)
(* and never leaves ANULADO or RETURNED.                                   *)
(***************************************************************************)
EXTENDS StatusTable

CONSTANT SeedStatuses   \* statuses the order may be found in

VARIABLE status

Init == status \in SeedStatuses

Advance == \E to \in OrderStatuses : IsValidTransition(status, to) /\ status' = to

GoBack == \E to \in OrderStatuses : IsBackwardTransition(status, to) /\ status' = to

ReturnMoney == status \notin {"ANULADO", "RETURNED"} /\ status' = "RETURNED"

Next == Advance \/ GoBack \/ ReturnMoney

Spec == Init /\ [][Next]_status
=============================================================================
