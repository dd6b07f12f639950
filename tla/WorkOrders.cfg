CONSTANTS
  WorkOrderIds = {1, 2, 3}
  Orders = {"a", "b", "c"}
  Supplies = {paper, ink}
  Quantities = {0, 1}
  Seeds <- Workshop
  InitialStock <- OneOfEach
  Processes = {p1, p2}
  MaxRetries = 2
  MaxStarts = 3
  MaxMoves = 1
  MaxByHand = 1
  MaxFailures = 1
  None = None
CHECK_DEADLOCK FALSE
SYMMETRY Symmetric
SPECIFICATION Spec
INVARIANTS WorkOrdersInv KeptAlone
PROPERTIES CompletionIsAtomic NumbersHold
