\* What the code does not keep.  One property at a time: uncomment one.
CONSTANTS
  Payments = {1, 2}
  Movements = {1, 2}
  PayRequests = {1}
  Users = {ana}
  Processes = {p1, p2}
  Amounts = {1}
  Totals = {1, 2}
  Kinds = {"registerPayment", "payRequest", "deletePayment", "cancel"}
  MaxStarts = 7
  MaxRaces = 1
  MaxFailures = 1
  None = None
CHECK_DEADLOCK FALSE
SPECIFICATION Spec
INVARIANT CompletedIsPaid
\* INVARIANT RequestPaysOnce
\* PROPERTY CancelledForGood
