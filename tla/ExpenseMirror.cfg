CONSTANTS
  Payments = {1, 2, 3}
  Movements = {1, 2, 3}
  PayRequests = {}
  AuthRequests = {}
  EditRequests = {}
  Users = {ana}
  Processes = {p1}
  Amounts = {1}
  Totals = {1, 2}
  Kinds = {"create", "updateStatus", "cajaAuthorize", "cajaReject", "edit", "editPaid", "remove", "registerPayment", "deletePayment", "voidMovement", "cancel", "markOverdue"}
  MaxStarts = 8
  MaxRaces = 0
  MaxFailures = 1
  None = None
CHECK_DEADLOCK FALSE
SPECIFICATION LiveOrderSpec
INVARIANTS MirrorIsOrder
PROPERTIES LivesAsDescribed CapCountsExpenseOrder AuthorizedIsPaid
