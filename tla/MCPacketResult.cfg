CONSTANTS
  Cameras = {1, 2}
  Compensation <- MCCompensation
  MaxInterval = 1
  InferTimeout = 2
  Word = 1024
  OriginalRate = 1
  BinningRate = 2
  IoBoard = TRUE
  StopMode = TRUE
  SpotMode = TRUE
  StartTime = 1
  MaxFrames = 3
  LastFrame = 2
  MaxFlaps = 1
  MaxTime = 3
  MaxBacklog = 1
  ImagesPerMs = 2
  MaxStatistics = 0
SPECIFICATION Spec
INVARIANT KickInvariant
PROPERTY KicksTheDefective
PROPERTY NgNotForgotten
PROPERTY NoPacketDroppedEarly
CHECK_DEADLOCK FALSE
