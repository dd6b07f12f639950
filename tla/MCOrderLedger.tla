--------------------------- MODULE MCOrderLedger ---------------------------
EXTENDS OrderLedgerProps, TLC

OrderOf(total, paid) ==
  [status |-> "CONFIRMED", total |-> total, paid |-> paid, applied |-> 0,
   refunded |-> 0, reversed |-> 0, balance |-> total - paid]
Paid(o, a) ==
  [order |-> o, amount |-> a, method |-> "CASH", voided |-> FALSE, linked |-> FALSE,
   key |-> None, used |-> [s \in Orders |-> 0]]

\* Order 1 is overpaid by 2 (payment 1), order 2 owes 2.
TwoOrders == (1 :> OrderOf(1, 3)) @@ (2 :> OrderOf(2, 0))
OnePayment == [q \in Payments |-> IF q = 1 THEN Paid(1, 3) ELSE None]

\* Orders 1 and 2 are both overpaid by 2: each may pay with the other's credit.
BothOverpaid == (1 :> OrderOf(1, 3)) @@ (2 :> OrderOf(1, 3))
TwoPayments == [q \in Payments |-> IF q \in {1, 2} THEN Paid(q, 3) ELSE None]

\* Order 1 is overpaid by 2, orders 2 and 3 owe 2 each.
ThreeOrders == (1 :> OrderOf(1, 3)) @@ (2 :> OrderOf(2, 0)) @@ (3 :> OrderOf(2, 0))
Symmetric == Permutations(Requests)
=============================================================================
