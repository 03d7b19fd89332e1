SPECIFICATION FairRobotSpec
CONSTANTS
  Batches <- RobotBatches
  SafeHold = 3
  SilenceFloor = 3
  TickInterval = 1
  MaxByte = 3
  ArmsDown = 2
  TtsMissing = FALSE
  Faults = TRUE
  WakeBound = 1
  SendBound = 0
  MaxWork = 2
INVARIANTS ArmsLevel BoundedSilence
PROPERTIES WireFloor ArmsComeDown FaceAsserted WalkCompletes DropRecovered
