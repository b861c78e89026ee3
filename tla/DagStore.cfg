\* Three DAGs, nested two deep at most: any acyclic store to begin with, two
\* calls that overlap, and one write or deletion by the entity services.  The
\* calls are answered, so the system stops.
SPECIFICATION Spec
CONSTANTS
  Dag = {A, B, C}
  Call = {c1, c2}
  None = None
  MaxDepth = 2
  MaxWrites = 1
INVARIANTS NoCycleStored NestingSound RunsClosed
SYMMETRY Symmetry
CHECK_DEADLOCK FALSE
