CONSTANTS
  None = None
  Empty = Empty
  MaxSaves = 3
  MaxLosses = 2
  MaxKills = 2
  MaxErrors = 1
SPECIFICATION Spec
PROPERTY IsRegister
INVARIANT SavedIsNotForgotten
CHECK_DEADLOCK FALSE
