\* An accumulate node over two upstreams: what becomes of it when a run that
\* was not disturbed by anyone returns.
SPECIFICATION FairSpec
CONSTANTS
  Node = {"a", "b", "c", "d"}
  Graphs <- AccumulateGraphs
  Permits = 1
  MaxOther = 0
  MaxCancels = 0
  Faults = {}
INVARIANT AccumulateSettled
CHECK_DEADLOCK FALSE
