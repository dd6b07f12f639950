\* What the code does not keep.  One property at a time: uncomment one.
CONSTANTS
  WorkOrderIds = {1, 2, 3}
  Orders = {"a", "b", "c"}
  Supplies = {paper, ink}
  Quantities = {0, 1}
  Seeds <- Workshop
  InitialStock <- OneOfEach
  Processes = {p1, p2}
  MaxRetries = 2
  MaxStarts = 3
  MaxMoves = 0
  MaxByHand = 1
  MaxFailures = 0
  None = None
CHECK_DEADLOCK FALSE
SPECIFICATION Spec
INVARIANT OneActive
\* INVARIANT NeverIssuedTwice
\* INVARIANT CompletedConsumed
