\* The dispatcher on seven graphs, with two permits that other runs may take as
\* well, a soft stop, a hard stop and every fault. The run ends, so the system
\* may stop.
SPECIFICATION Spec
CONSTANTS
  Node = {"a", "b", "c", "d"}
  Graphs <- AllGraphs
  Permits = 2
  MaxOther = 2
  MaxCancels = 1
  Faults = {"node", "stream", "record", "emit", "condition"}
INVARIANTS DependencyOrder FailureJustified PermitAccounting UsersHoldPermits PermitsReturned NothingReadyLeft
PROPERTIES SettledForever 
CHECK_DEADLOCK FALSE
