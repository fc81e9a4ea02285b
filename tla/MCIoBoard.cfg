CONSTANTS
  NoValue = NoValue
  MaxSets = 3
  MaxStarts = 2
  MaxKicks = 2
  MaxQueue = 2
SPECIFICATION Spec
INVARIANT BoardFollows
INVARIANT KicksNeverOvercounted
CHECK_DEADLOCK FALSE
