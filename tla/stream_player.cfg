SPECIFICATION Spec
CONSTANTS
  Blocks = 3
  MaxBlocks = 2
  PrerollBlocks = 1
  None = none
INVARIANTS TypeOK OutcomeTrue NoOrphan
PROPERTIES ResolvedOnce ProducerReleased PlaybackEnds
CHECK_DEADLOCK FALSE
