CONSTANTS
  SeedStatuses = {"IN_PRODUCTION"}
  Targets = {"IN_PRODUCTION", "READY", "PAID", "ANULADO"}
  Users = {admin, ana}
  Admins = {admin}
  Rows = {1, 2}
  Processes = {p1}
  Kinds = {"create", "review", "whatsapp", "expire", "updateStatus", "execute"}
  MaxStarts = 6
  MaxFailures = 0
  None = None
CHECK_DEADLOCK FALSE
SPECIFICATION Spec
INVARIANTS NoGhostRequests
PROPERTIES AnsweredAndUsedOnce FollowsFlow BackwardApproved
