SPECIFICATION RobotSpec
CONSTANTS
  Batches <- JointBatches
  SafeHold = 3
  SilenceFloor = 3
  TickInterval = 1
  MaxByte = 3
  ArmsDown = 2
  TtsMissing = FALSE
  Faults = FALSE
  WakeBound = 1
  SendBound = 0
  MaxWork = 2
PROPERTY WireOneJoint
