CONSTANTS
  Cameras = {1, 2, 3}
  CameraIdList <- MCCameraIdList
  Batch = TRUE
  MaxInterval = 1
  Objects = {1, 2}
  MaxImages = 3
  MaxFlaps = 1
  MaxSwitches = 1
  MaxOperations = 1
SPECIFICATION AIFairSpec
INVARIANT NoImageLostOrDoubled
PROPERTY SentTogether
PROPERTY ImagesAnswered
CHECK_DEADLOCK FALSE
