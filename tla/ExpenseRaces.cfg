\* What the code does not keep.  One property at a time: uncomment one.
CONSTANTS
  Payments = {1, 2, 3}
  Movements = {1, 2, 3}
  PayRequests = {}
  AuthRequests = {}
  EditRequests = {}
  Users = {ana}
  Processes = {p1, p2}
  Amounts = {1}
  Totals = {1, 2}
  Kinds = {"create", "updateStatus", "cajaAuthorize", "registerPayment"}
  MaxStarts = 6
  MaxRaces = 2
  MaxFailures = 0
  None = None
CHECK_DEADLOCK FALSE
SPECIFICATION OrderSpec
INVARIANT NothingPaidTwice
\* PROPERTY PaidIsFinal
\* INVARIANT MirrorTotal      with "update" in Kinds; one process is enough
