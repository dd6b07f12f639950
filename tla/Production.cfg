CONSTANTS
  Template <- Notebook
  Processes = {p1, p2}
  MaxCrashes = 1
  None = None
CHECK_DEADLOCK FALSE
SYMMETRY Symmetric
SPECIFICATION Spec
INVARIANTS PipelineInv NothingForgotten
PROPERTIES FollowsPipeline CompletedKept
