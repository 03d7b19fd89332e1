SPECIFICATION Spec
CONSTANTS
  Batches <- AllBatches
  SafeHold = 2
  SilenceFloor = 3
  TickInterval = 1
  MaxByte = 3
  ArmsDown = 2
  TtsMissing = TRUE
  Faults = TRUE
  WakeBound = 2
  SendBound = 9
  MaxWork = 3
INVARIANTS TypeOK WalkIntact WalkAlone SayHeld TargetSafe
PROPERTIES ServoContract
