CONSTANTS
  i1 = i1
  i2 = i2
  ai1 = ai1
  ai2 = ai2
  ImageIds <- MCImageIds
  UniqueNames = TRUE
  Algorithms <- MCAlgorithms
  InferTimeout = 1
  Compensation = 0
  Word = 1024
  StartTime = 1
  MaxFrames = 2
  MaxTime = 2
  MaxSwitches = 0
  MaxBacklog = 3
  MaxStatistics = 0
SPECIFICATION Spec
INVARIANT NgWins
INVARIANT CountsMatch
INVARIANT AllAlgorithmsAnswered
INVARIANT ReportedOnceForItself
PROPERTY DroppedOnlyWhenReported
SYMMETRY MCSymmetry
CHECK_DEADLOCK FALSE
