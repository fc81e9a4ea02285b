CONSTANTS
  Locators = {l0, l1}
  Default = l0
  Detectors = {d1}
  Images = {i1, i2}
  Workers = 1
  MaxOps = 3
SPECIFICATION FairSpec
INVARIANT PointsFollowLocators
PROPERTY OkIsEarned
PROPERTY EveryImageAnswered
CHECK_DEADLOCK FALSE
