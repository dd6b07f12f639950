CONSTANTS
  Rows = {1, 2}
  Processes = {p1, p2}
  OtherItems = 1
  MaxUnits = 2
  MaxPaid = 2
  MaxStarts = 4
  None = None
CHECK_DEADLOCK FALSE
SYMMETRY Symmetric
SPECIFICATION Spec
INVARIANTS RefundInv RefundedIsWhatMoved OnePending
PROPERTIES AnnulledWithinItem
