CONSTANTS
  None = None
  Empty = Empty
  MaxSaves = 1
  MaxLosses = 1
  MaxKills = 0
  MaxErrors = 0
SPECIFICATION Spec
INVARIANT StartsWithParameters
CHECK_DEADLOCK FALSE
