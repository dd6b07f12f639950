\* What the code does not keep.  One property at a time: uncomment one.
\* EveryCreditBacked asks for Kinds = {"createMovement"}, MaxStarts = 1.
CONSTANTS
  Orders = {1, 2, 3}
  Payments = {1, 2, 3}
  Requests = {r1, r2}
  Keys = {}
  Kinds = {"addPayment", "updatePayment", "voidPayment", "executeRefund", "annulOrder", "updateOrder"}
  Amounts = {1, 2}
  Totals = {1, 2}
  MaxStarts = 3
  SeedOrders <- ThreeOrders
  SeedPayments <- OnePayment
  None = None
CHECK_DEADLOCK FALSE
SPECIFICATION Spec
INVARIANT CreditSpentOnce
\* INVARIANT PaidMatchesPayments
\* INVARIANT VoidedReleasesCredit
\* INVARIANT EveryCreditBacked
\* PROPERTY NoPaymentOnAnnulled
\* PROPERTY AnnulLeavesNoDebt
