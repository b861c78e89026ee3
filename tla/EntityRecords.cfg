\* Two calls at a time; fields move into columns and back, relations come and go.
\* Deadlock is off: when no call is left, nothing happens any more.
SPECIFICATION Spec
CONSTANTS
  Field <- MCField
  Value <- MCValue
  Encode <- MCEncode
  Entity <- MCEntity
  Name <- MCName
  Original <- MCOriginal
  Given <- MCGiven
  InFiles = TRUE
  Call = {c1, c2}
  Requests <- MCRequests
  MaxCalls = 4
INVARIANTS
  
  RelationsAnchored
PROPERTIES
  RelationsGoWithEnds
CHECK_DEADLOCK FALSE
