\* A parallel loop of three iterations with a condition, a serial loop of two
\* rounds and a dispatcher slot over two permits; the task of each loop may be
\* cancelled once.  Loops end, so the system stops.
SPECIFICATION Spec
CONSTANTS
  Loop = {1}
  Iteration = {11, 12, 13}
  LoopOf <- MCLoopOf
  Until = {1}
  Serial = {31}
  Count = 2
  Scheduler = {41}
  Permits = 2
  MaxInterrupts = 1
INVARIANTS NothingLeftBehind ResultsComplete
PROPERTIES LoopsEnd
CHECK_DEADLOCK FALSE
