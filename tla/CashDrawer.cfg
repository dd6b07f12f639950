CONSTANTS
  Registers = {c1, c2}
  Locations = {bogota}
  LocationOf <- OneLocation
  Sessions = {1, 2}
  Movements = {1, 2, 3, 4}
  Payments = {1, 2}
  VoidRequests = {1}
  Requests = {r1, r2}
  Kinds = {"addPayment", "updatePayment", "createMovement", "voidMovement", "voidPayment", "requestVoid", "approveVoid", "rejectVoid", "openSession", "closeSession"}
  Methods = {"CASH", "CREDIT"}
  Amounts = {1, 2}
  MaxStarts = 5
  None = None
CHECK_DEADLOCK FALSE
SPECIFICATION Spec
SYMMETRY Symmetric
INVARIANTS DrawerInv OneOpenPerRegister VoidsAreWhole
PROPERTIES KeptAlone
