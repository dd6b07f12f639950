CONSTANTS
  Payments = {1, 2}
  Movements = {1, 2}
  PayRequests = {1}
  Users = {ana}
  Processes = {p1, p2}
  Amounts = {1}
  Totals = {1, 2}
  Kinds = {"registerPayment", "payRequest", "deletePayment", "reversal", "update", "cancel", "authorize", "markOverdue", "voidMovement"}
  MaxStarts = 7
  MaxRaces = 1
  MaxFailures = 1
  None = None
CHECK_DEADLOCK FALSE
SPECIFICATION Spec
SYMMETRY Symmetric
INVARIANTS TypeOK ReversalIsWhole AccountIsItsPayments
PROPERTIES CancelledStays
