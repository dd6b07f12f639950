---------------------------- MODULE SignedPayout ----------------------------
(***************************************************************************)
(* What the two signatures of an expense order promise: the administrator  *)
(* signs, Caja pays, and money leaves at most once for each signature.     *)
(***************************************************************************)
EXTENDS Naturals

VARIABLES signed, paid

Init == signed = 0 /\ paid = 0

Sign == signed' = signed + 1 /\ UNCHANGED paid

Pay == paid < signed /\ paid' = paid + 1 /\ UNCHANGED signed

Spec == Init /\ [][Sign \/ Pay]_<<signed, paid>>
=============================================================================
