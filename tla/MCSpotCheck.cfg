CONSTANTS
  SpotCameras = {v1, v2}
  LineCameras = {l1}
  Unknown = {x}
  NoValue = NoValue
  MaxImages = 1
  MaxCommands = 3
SPECIFICATION FairSpec
INVARIANT CounterCoversUnfinished
INVARIANT FinishedMeansChecked
INVARIANT RunsAsEnabled
CHECK_DEADLOCK FALSE
PROPERTY LastCameraFinishes
