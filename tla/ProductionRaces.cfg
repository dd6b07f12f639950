\* What the code does not keep.  One property at a time: uncomment one.
\* NoDeadEnd asks for the template without armado: Template <- Leaflet, MaxCrashes = 0;
\* FollowsPipeline for two steps of one order: Template <- Repeated.
CONSTANTS
  Template <- Notebook
  Processes = {p1, p2}
  MaxCrashes = 1
  None = None
CHECK_DEADLOCK FALSE
SPECIFICATION Spec
INVARIANT OrderIsWhole
\* INVARIANT GateOpens
\* INVARIANT NoDeadEnd
\* PROPERTY CompletedIsFinal
\* PROPERTY FollowsPipeline
