\* Three calls on two DAGs with two nodes: one call may resume, retry or stop
\* what another started while a third begins.  One failure, one death of the
\* process.  Calls and runs end, so the system stops.
SPECIFICATION Spec
CONSTANTS
  d1 = d1
  d2 = d2
  a = a
  b = b
  c1 = c1
  c2 = c2
  c3 = c3
  None = None
  Dag = {d1, d2}
  Call = {c1, c2, c3}
  Node = {a, b}
  Edges <- MCEdges
  Requests <- MCRequests
  Waits <- MCWaits
  Triggers <- MCTriggers
  Retention = 1
  MaxCrashes = 1
  MaxFaults = 1
INVARIANTS
  LiveIsRegistered
  RunningRowsAreDriven
  

  
SYMMETRY Calls
CHECK_DEADLOCK FALSE
