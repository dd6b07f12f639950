CONSTANTS
  Payments = {1, 2}
  Movements = {1, 2}
  PayRequests = {}
  AuthRequests = {1}
  EditRequests = {1}
  Users = {ana}
  Processes = {p1, p2}
  Amounts = {1}
  Totals = {1, 2}
  Kinds = {"create", "updateStatus", "cajaAuthorize", "cajaReject", "authRequest", "edit", "editPaid", "editRequest", "remove", "registerPayment"}
  MaxStarts = 6
  MaxRaces = 1
  MaxFailures = 1
  None = None
CHECK_DEADLOCK FALSE
SPECIFICATION OrderSpec
SYMMETRY Symmetric
INVARIANTS OrderInv
PROPERTIES PaysWhatIsSigned
