CONSTANTS
  i1 = i1
  i2 = i2
  ai1 = ai1
  ai2 = ai2
  ImageIds = {1}
  UniqueNames = FALSE
  Algorithms = {"AI"}
  InferTimeout = 2
  Compensation <- MCCompensation
  Word = 1024
  StartTime = 1
  MaxFrames = 2
  MaxTime = 4
  MaxSwitches = 1
  MaxBacklog = 4
  MaxStatistics = 1
SPECIFICATION FairSpec
INVARIANT StatisticsNeverExceed
PROPERTY ImagesReclaimed
CHECK_DEADLOCK FALSE
