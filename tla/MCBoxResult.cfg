CONSTANTS
  QueueLen = 2
  UseBarCoder = TRUE
  OuterCameras = {4, 5}
  Garbage = Garbage
  NotFound = NotFound
  MaxBoxes = 3
  MaxMishaps = 1
  MaxImages = 3
  MaxDefects = 2
  MaxReconnects = 1
SPECIFICATION Spec
INVARIANT ImagesOfTheirBox
INVARIANT RecoversWhenFull
INVARIANT NgCountedOnce
INVARIANT DefectFindsBox
CHECK_DEADLOCK FALSE
INVARIANT YoungBoxesStay
