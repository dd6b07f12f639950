CONSTANTS
  SeedStatuses = {"READY"}
  Targets = {"IN_PRODUCTION", "READY", "ANULADO"}
  Users = {admin, ana}
  Admins = {admin}
  Rows = {1, 2}
  Processes = {p1, p2}
  Kinds = {"create", "review", "whatsapp", "expire", "updateStatus", "execute", "update"}
  MaxStarts = 4
  MaxFailures = 1
  None = None
CHECK_DEADLOCK FALSE
SPECIFICATION Spec
SYMMETRY Symmetric
INVARIANTS TypeOK OnePendingPerChange
PROPERTIES SensitiveChangeApproved
