\* What the code does not keep.  One property at a time: uncomment one.
CONSTANTS
  Registers = {c1, c2}
  Locations = {bogota}
  LocationOf <- OneLocation
  Sessions = {1, 2}
  Movements = {1, 2, 3, 4}
  Payments = {1, 2}
  VoidRequests = {1}
  Requests = {r1, r2}
  Kinds = {"addPayment", "updatePayment", "createMovement", "voidMovement", "voidPayment", "requestVoid", "approveVoid", "rejectVoid", "openSession", "closeSession"}
  Methods = {"CASH", "CREDIT"}
  Amounts = {1, 2}
  MaxStarts = 7
  None = None
CHECK_DEADLOCK FALSE
SPECIFICATION Spec
INVARIANT VoidedPaymentHasNoCash
\* INVARIANT CreditNeverInCash
\* INVARIANT NoOrphanPayment
\* INVARIANT MovementMatchesPayment
\* INVARIANT IncomeCountedOnce
\* INVARIANT ApprovedIsVoided
\* PROPERTY NothingEntersClosedSession
\* With Registers = {c1}, Requests = {r1}, Amounts = {1}, which are enough:
\* PROPERTY CorrectionIsInTodaysBalance
