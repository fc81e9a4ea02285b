CONSTANTS
  Cameras = {1, 2}
  Compensation <- MCCompensation
  MaxInterval = 1
  InferTimeout = 2
  Word = 1024
  OriginalRate = 1
  BinningRate = 2
  IoBoard = FALSE
  StopMode = FALSE
  SpotMode = TRUE
  StartTime = 1
  MaxFrames = 2
  LastFrame = 2
  MaxFlaps = 1
  MaxTime = 4
  MaxBacklog = 1
  ImagesPerMs = 2
  MaxStatistics = 1
SPECIFICATION FairSpec
INVARIANT ReportSampling
INVARIANT SampledAlike
INVARIANT StatisticsNeverExceed
PROPERTY PacketsReclaimed
CHECK_DEADLOCK FALSE
