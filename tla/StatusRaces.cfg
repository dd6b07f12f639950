\* What the code does not keep.  One property at a time: uncomment one.
CONSTANTS
  SeedStatuses = {"READY"}
  Targets = {"IN_PRODUCTION", "READY", "PAID", "ANULADO"}
  Users = {admin, ana}
  Admins = {admin}
  Rows = {1, 2}
  Processes = {p1, p2}
  Kinds = {"create", "review", "whatsapp", "expire", "updateStatus", "execute", "update"}
  MaxStarts = 5
  MaxFailures = 0
  None = None
CHECK_DEADLOCK FALSE
SPECIFICATION Spec
INVARIANT ConsumedAfterApplied
\* PROPERTY FollowsFlow
\* PROPERTY TerminalStays
\* PROPERTY BackwardApproved
\* PROPERTY ReviewedOnce
\* PROPERTY ApprovedWhileValid
\* PROPERTY PaidWithoutDebt
\* With Targets = {"IN_PRODUCTION", "READY"} and Kinds = {"create", "review",
\* "updateStatus"}, which are enough:
\* INVARIANT SingleUse
