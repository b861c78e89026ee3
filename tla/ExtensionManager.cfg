\* Five calls, two at a time, on an extension and one that depends on it; one
\* exception, cancellation or death of the process, one edit of a user.  Calls
\* are answered, so the system stops.
CONSTANTS
  Extension = {"base", "app"}
  Needs <- MCNeeds
  Entity = {"node"}
  Imports <- MCImports
  Call = {c1, c2}
  MaxCalls = 5
  MaxFaults = 1
  MaxEdits = 1
SPECIFICATION Spec
SYMMETRY Slots
INVARIANTS
  RowsMatchDisk
  DependenciesEnabled
PROPERTIES
  OthersWorkKept
CHECK_DEADLOCK FALSE
