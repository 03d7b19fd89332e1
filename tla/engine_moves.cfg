SPECIFICATION Spec
CONSTANTS
  Batches <- DriveBatches
  SafeHold = 3
  SilenceFloor = 1
  TickInterval = 1
  MaxByte = 3
  ArmsDown = 2
  TtsMissing = FALSE
  Faults = TRUE
  WakeBound = 1
  SendBound = 0
  MaxWork = 1
PROPERTY MoveDropped
