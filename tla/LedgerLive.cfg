CONSTANTS
  Orders = {1, 2}
  Payments = {1, 2, 3, 4}
  Requests = {r1, r2}
  Keys = {k1}
  Kinds = {"addPayment", "createMovement", "updatePayment", "voidPayment", "executeRefund", "annulOrder", "recalculateOrderTotals", "updateOrder"}
  Amounts = {1, 2}
  Totals = {1, 2}
  MaxStarts = 2
  SeedOrders <- BothOverpaid
  SeedPayments <- TwoPayments
  None = None
CHECK_DEADLOCK FALSE
SPECIFICATION LiveSpec
INVARIANTS OnePaymentPerKey
PROPERTIES RequestsEnd
