\* Some seventy configurations of two and three levels, against a limit of two: a
\* sub-DAG beside or before a handler, another sub-DAG, or a node whose type is
\* a DAG, with one permit shared by parent and child or needed by neither.  No
\* program has more than five runs; one exception, in any of them.  A run that
\* has ended stays so.
SPECIFICATION NestedSpec
CONSTANTS
  A = A  B = B  C = C  x = x  y = y
  Dag = {A, B, C}
  Node = {x, y}
  None = None
  Programs <- MCPrograms
  Select = "nestings"
  Limit = 2
  Permits = 1
  MaxFrames = 5
  MaxFaults = 1
INVARIANTS OwnInstances AcceptedNeverRefused  PermitsConserved
 
CHECK_DEADLOCK FALSE
