CONSTANTS
  Orders = {1, 2}
  Payments = {1, 2}
  Requests = {r1, r2}
  Keys = {k1}
  Kinds = {"addPayment", "createMovement", "updatePayment", "voidPayment", "executeRefund", "annulOrder", "recalculateOrderTotals"}
  Amounts = {1, 2}
  Totals = {1, 2}
  MaxStarts = 3
  SeedOrders <- TwoOrders
  SeedPayments <- OnePayment
  None = None
CHECK_DEADLOCK FALSE
SYMMETRY Symmetric
SPECIFICATION Spec
INVARIANTS LedgerInv CreditAccounted PaidFollowsPayments
PROPERTIES AnnulLeavesNoDebt RefundLeavesNoDebt
