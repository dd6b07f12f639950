\* What the code does not keep.  One property at a time: uncomment one.
CONSTANTS
  Rows = {1, 2}
  Processes = {p1, p2}
  OtherItems = 1
  MaxUnits = 1
  MaxPaid = 2
  MaxStarts = 4
  None = None
CHECK_DEADLOCK FALSE
SPECIFICATION Spec
INVARIANT RejectedIsUnpaid
\* INVARIANT OneInProgress
\* INVARIANT AnnulmentsExplained
