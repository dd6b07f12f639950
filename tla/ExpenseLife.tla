---------------------------- MODULE ExpenseLife ----------------------------
(***************************************************************************)
(* The life of an expense order as its form describes it: open to changes  *)
(* until it is signed, paid in full at once or sent back, and paid for     *)
(* good; an edit of a paid order changes its total, not what left.         *)
(***************************************************************************)
EXTENDS Naturals

CONSTANT Totals
VARIABLES phase, total, out

Init == phase = "none" /\ total = 0 /\ out = 0

Create == /\ phase = "none" /\ phase' \in {"open", "signed"}
          /\ total' \in Totals /\ UNCHANGED out

Edit == phase \in {"open", "paid"} /\ total' \in Totals /\ UNCHANGED <<phase, out>>

Sign == phase = "open" /\ phase' = "signed" /\ UNCHANGED <<total, out>>

SendBack == phase = "signed" /\ phase' = "open" /\ UNCHANGED <<total, out>>

Pay == phase = "signed" /\ phase' = "paid" /\ out' = total /\ UNCHANGED total

Remove == phase = "open" /\ phase' = "none" /\ total' = 0 /\ UNCHANGED out

Spec == Init /\ [][Create \/ Edit \/ Sign \/ SendBack \/ Pay \/ Remove]_<<phase, total, out>>
=============================================================================
